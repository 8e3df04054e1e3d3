-------------------------- MODULE ConfigLoadProofs --------------------------
(***************************************************************************)
(* For any choice of keys: what is served is what the highest source says, *)
(* or the default of a flag that was not given; what a file says is lost   *)
(* in silence in two ways only; and a value that Validate refuses is       *)
(* served only when a flag of serve says it.                               *)
(***************************************************************************)
EXTENDS ConfigLoad, TLAPS

\* What the key is after each step, as a function of the sources.
Over(file, v) ==
  IF file.yaml \in {"missing", "unreadable"} \/ file.value \in {Absent, Ill} THEN v
  ELSE file.value

AfterHome   == Over(home, Defaults(key))
AfterLocal  == Over(local, AfterHome)
AfterFill   == IF key \in filled /\ AfterLocal = "zero" THEN Defaults(key) ELSE AfterLocal
AfterEnv    == IF FromEnv = Absent THEN AfterFill ELSE FromEnv
AfterFlags  == IF key \in rootFlags /\ FlagValue # "zero" THEN FlagValue ELSE AfterEnv
AfterServe  == IF key \in serveFlags /\ FlagValue \notin {"zero", "negative"} THEN FlagValue
               ELSE AfterFlags

\* A file Load has a complaint about.
Bad(file) ==
  \/ file.yaml \in {"syntax error", "ill elsewhere"}
  \/ file.yaml = "fine" /\ file.value = Ill

SourcesOK ==
  /\ key \in keys /\ home \in Files(key) /\ local \in Files(key)
  /\ env \in EnvTexts(key) /\ flag \in FlagTexts(key)

\* The value at each step, and the files warned of.
StageInv ==
  /\ at = "home" => value = Defaults(key)
  /\ at = "local" => value = AfterHome
  /\ at = "fill" => value = AfterLocal
  /\ at = "env" => value = AfterFill
  /\ at = "flags" => value = AfterEnv
  /\ at \in {"data dir", "validate"} => value = AfterFlags
  /\ at = "serve" => value = AfterFlags /\ Valid(AfterFlags)
  /\ at = "serving" => value = AfterServe /\ Valid(AfterFlags)
  /\ at # "home" => (Bad(home) => "home" \in warnings)
  /\ at \notin {"home", "local"} => (Bad(local) => "local" \in warnings)

LoadInv == SourcesOK /\ StageInv

-----------------------------------------------------------------------------
LEMMA LoadInitial == Init => LoadInv
BY DEF Init, LoadInv, SourcesOK, StageInv

\* The sources do not change, nor what is computed from them.
LEMMA Fixed ==
  ASSUME UNCHANGED <<key, home, local, env, flag>>
  PROVE  /\ SourcesOK => SourcesOK'
         /\ AfterHome' = AfterHome /\ AfterLocal' = AfterLocal /\ AfterFill' = AfterFill
         /\ AfterEnv' = AfterEnv /\ AfterFlags' = AfterFlags /\ AfterServe' = AfterServe
         /\ Defaults(key)' = Defaults(key)
         /\ Bad(home)' <=> Bad(home)
         /\ Bad(local)' <=> Bad(local)
         /\ Valid(AfterFlags)' <=> Valid(AfterFlags)
BY ZenonT(40) DEF SourcesOK, Files, EnvTexts, FlagTexts, Values, AfterHome, AfterLocal, AfterFill,
       AfterEnv, AfterFlags, AfterServe, FlagValue, Over, Defaults, FromEnv, Bad, Valid

LEMMA LoadInductive == LoadInv /\ [Next]_vars => LoadInv'
<1> SUFFICES ASSUME LoadInv, [Next]_vars PROVE LoadInv'
  OBVIOUS
<1>f. UNCHANGED <<key, home, local, env, flag>>
  BY DEF Next, vars
<1> USE Fixed, <1>f DEF LoadInv
<1>1. CASE ReadHome
  <2>1. at = "home" /\ at' = "local" /\ value' = AfterHome
    BY <1>1 DEF ReadHome, ReadFile, Read, Goto, Unmarshal, AfterHome, Over, StageInv
  <2>2. Bad(home) => "home" \in warnings'
    BY <1>1 DEF ReadHome, ReadFile, Read, Complain, Bad
  <2> QED
    BY <2>1, <2>2 DEF StageInv
<1>2. CASE ReadLocal
  <2>1. at = "local" /\ at' = "fill" /\ value' = AfterLocal
    BY <1>2 DEF ReadLocal, ReadFile, Read, Goto, Unmarshal, AfterLocal, Over, StageInv
  <2>2. (Bad(local) => "local" \in warnings') /\ warnings \subseteq warnings'
    BY <1>2 DEF ReadLocal, ReadFile, Read, Complain, Bad
  <2> QED
    BY <2>1, <2>2 DEF StageInv
<1>3. CASE fillDefaults
  BY <1>3 DEF fillDefaults, Goto, AfterFill, StageInv
<1>4. CASE mergeEnv
  <2>1. at = "env" /\ at' = "flags" /\ warnings' = warnings
    BY <1>4 DEF mergeEnv, Goto
  <2>2. value' = AfterEnv
    <3>1. CASE env = Absent
      BY <1>4, <2>1, <3>1, KeysAssumption DEF mergeEnv, AfterEnv, FromEnv, StageInv
    <3>2. CASE env = Ill
      BY <1>4, <2>1, <3>2, KeysAssumption DEF mergeEnv, AfterEnv, FromEnv, StageInv
    <3>3. CASE env \notin {Absent, Ill}
      BY <1>4, <2>1, <3>3, KeysAssumption DEF mergeEnv, AfterEnv, FromEnv, StageInv
    <3> QED
      BY <3>1, <3>2, <3>3
  <2> QED
    BY <2>1, <2>2 DEF StageInv
<1>5. CASE mergeFlags
  BY <1>5 DEF mergeFlags, Goto, AfterFlags, StageInv
<1>6. CASE ensureDataDir
  BY <1>6 DEF ensureDataDir, Goto, StageInv
<1>7. CASE Validate
  BY <1>7 DEF Validate, Goto, Valid, StageInv
<1>8. CASE Override
  BY <1>8 DEF Override, Goto, AfterServe, StageInv
<1>9. CASE UNCHANGED vars
  BY <1>9 DEF vars, StageInv
<1> QED
  BY <1>1, <1>2, <1>3, <1>4, <1>5, <1>6, <1>7, <1>8, <1>9 DEF Next

LEMMA LoadAlways == Spec => []LoadInv
BY LoadInitial, LoadInductive, PTL DEF Spec

-----------------------------------------------------------------------------
\* A key that fillDefaults looks at has a default that is not zero.
LEMMA FilledDefaults == \A k \in filled : Defaults(k) = "default"
BY DEF filled, Defaults, DefaultsToZero, Numbers, Texts

\* What the code reads of a flag is what is given, or else the key's default.
LEMMA FlagValues ==
  ASSUME SourcesOK
  PROVE  /\ key \in rootFlags => key \notin serveFlags
         /\ key \in rootFlags => flag # "negative"
         /\ key \notin rootFlags \cup serveFlags => flag = Absent
         /\ flag # Absent => FlagValue = flag
         /\ Preempted => FlagValue = "default" /\ Defaults(key) = "default"
         /\ /\ key \in rootFlags \cup serveFlags
            /\ flag = Absent /\ ~Preempted
            => FlagValue = "zero"
<1>1. key \in rootFlags => key # "server.port" /\ key \notin serveFlags
  BY DEF rootFlags, serveFlags
<1>2. ASSUME key \in rootFlags, flag # Absent
      PROVE  flag \in Values(key)
  BY <1>2 DEF SourcesOK, FlagTexts
<1>3. Values(key) \subseteq {"zero", "default", "other", "invalid"} \cup
         (IF key = "server.port" THEN {"negative"} ELSE {})
  BY DEF Values, Defaults
<1>4. key \in rootFlags => flag # "negative"
  BY <1>1, <1>2, <1>3, KeysAssumption
<1>5. key \notin rootFlags \cup serveFlags => flag = Absent
  BY DEF SourcesOK, FlagTexts
<1>6. /\ flag # Absent => FlagValue = flag
      /\ Preempted => FlagValue = "default" /\ Defaults(key) = "default"
      /\ key \in rootFlags \cup serveFlags /\ flag = Absent /\ ~Preempted => FlagValue = "zero"
  BY DEF FlagValue, Preempted, Defaults
<1> QED
  BY <1>1, <1>4, <1>5, <1>6

\* Only a file that is there has a text.
LEMMA FileShape ==
  ASSUME SourcesOK
  PROVE  /\ home.yaml \in {"missing", "syntax error"} => home.value = Absent
         /\ local.yaml \in {"missing", "syntax error"} => local.value = Absent
         /\ home.yaml \in {"missing", "syntax error", "unreadable", "fine", "ill elsewhere"}
         /\ local.yaml \in {"missing", "syntax error", "unreadable", "fine", "ill elsewhere"}
<1>1. \A file \in Files(key) :
        /\ file.yaml \in {"missing", "syntax error"} => file.value = Absent
        /\ file.yaml \in {"missing", "syntax error", "unreadable", "fine", "ill elsewhere"}
  <2> DEFINE values == Values(key) \cup {Absent, Ill}
  <2> SUFFICES ASSUME NEW file \in Files(key)
               PROVE  /\ file.yaml \in {"missing", "syntax error"} => file.value = Absent
                      /\ file.yaml \in {"missing", "syntax error", "unreadable", "fine",
                                       "ill elsewhere"}
    OBVIOUS
  <2>1. \/ file \in {[yaml |-> y, value |-> Absent] : y \in {"missing", "syntax error"}}
        \/ file \in [yaml : {"unreadable", "fine", "ill elsewhere"}, value : values]
    BY DEF Files
  <2> HIDE DEF values
  <2>2. \/ file.yaml \in {"missing", "syntax error"} /\ file.value = Absent
        \/ file.yaml \in {"unreadable", "fine", "ill elsewhere"}
    <3>1. CASE file \in {[yaml |-> y, value |-> Absent] : y \in {"missing", "syntax error"}}
      <4>1. PICK y \in {"missing", "syntax error"} : file = [yaml |-> y, value |-> Absent]
        BY <3>1
      <4> QED
        BY <4>1
    <3>2. CASE file \in [yaml : {"unreadable", "fine", "ill elsewhere"}, value : values]
      BY <3>2
    <3> QED
      BY <2>1, <3>1, <3>2
  <2> QED
    BY <2>2
<1> QED
  BY <1>1 DEF SourcesOK

\* What the merge computes, from the highest source down.
LEMMA Layers ==
  ASSUME SourcesOK
  PROVE  /\ Preempted => AfterServe = Defaults(key)
         /\ FromFlags # Absent => AfterServe = FromFlags
         /\ FromFlags = Absent /\ ~Preempted => AfterServe = AfterEnv
         /\ FromEnv # Absent => AfterEnv = FromEnv
         /\ FromEnv = Absent => AfterEnv = AfterFill
         /\ FromFile(local) # Absent => AfterFill = FromFile(local)
         /\ FromFile(local) = Absent /\ FromFile(home) # Absent => AfterFill = FromFile(home)
         /\ FromFile(local) = Absent /\ FromFile(home) = Absent => AfterFill = Defaults(key)
<1>0. Preempted => AfterServe = Defaults(key)
  BY FlagValues DEF Preempted, AfterServe, AfterFlags
<1>1. FromFlags # Absent => AfterServe = FromFlags
  BY FlagValues DEF FromFlags, AfterServe, AfterFlags
<1>2. FromFlags = Absent /\ ~Preempted => AfterServe = AfterEnv
  BY FlagValues DEF FromFlags, AfterServe, AfterFlags
<1>4. key \in filled => Defaults(key) = "default"
  BY FilledDefaults
<1>5. FromFile(local) # Absent => AfterFill = FromFile(local)
  BY FileShape, <1>4, KeysAssumption DEF AfterFill, AfterLocal, Over, FromFile
<1>6. FromFile(local) = Absent => AfterLocal = AfterHome
  BY KeysAssumption DEF AfterLocal, Over, FromFile
<1>7. FromFile(local) = Absent /\ FromFile(home) # Absent => AfterFill = FromFile(home)
  BY FileShape, <1>4, <1>6, KeysAssumption DEF AfterFill, AfterHome, Over, FromFile
<1>8. FromFile(local) = Absent /\ FromFile(home) = Absent => AfterFill = Defaults(key)
  BY <1>4, <1>6, KeysAssumption DEF AfterFill, AfterHome, Over, FromFile
<1> QED
  BY <1>0, <1>1, <1>2, <1>5, <1>7, <1>8 DEF AfterEnv

\* The first of five that is not Absent.
LEMMA FirstOfFive ==
  ASSUME NEW a, NEW b, NEW c, NEW d, NEW e, NEW v,
         a # Absent => v = a,
         a = Absent /\ b # Absent => v = b,
         a = Absent /\ b = Absent /\ c # Absent => v = c,
         a = Absent /\ b = Absent /\ c = Absent /\ d # Absent => v = d,
         a = Absent /\ b = Absent /\ c = Absent /\ d = Absent => v = e
  PROVE  LET rank == <<a, b, c, d, e>>
         IN  \E i \in DOMAIN rank : rank[i] = v /\ \A j \in 1 .. i - 1 : rank[j] = Absent
<1> DEFINE rank == <<a, b, c, d, e>>
<1>1. /\ DOMAIN rank = 1..5 /\ rank[1] = a /\ rank[2] = b /\ rank[3] = c
      /\ rank[4] = d /\ rank[5] = e
  OBVIOUS
<1> HIDE DEF rank
<1>2. /\ \A j \in 1 .. 1 - 1 : FALSE
      /\ \A j \in 1 .. 2 - 1 : j = 1
      /\ \A j \in 1 .. 3 - 1 : j \in {1, 2}
      /\ \A j \in 1 .. 4 - 1 : j \in {1, 2, 3}
      /\ \A j \in 1 .. 5 - 1 : j \in {1, 2, 3, 4}
  OBVIOUS
<1>3. /\ 1 \in DOMAIN rank /\ 2 \in DOMAIN rank /\ 3 \in DOMAIN rank
      /\ 4 \in DOMAIN rank /\ 5 \in DOMAIN rank
  BY <1>1
<1>4. \E i \in DOMAIN rank : rank[i] = v /\ \A j \in 1 .. i - 1 : rank[j] = Absent
  BY <1>1, <1>2, <1>3
<1> QED
  BY <1>4 DEF rank

LEMMA LoadIsRight ==
  ASSUME LoadInv
  PROVE  LoadIsLayered /\ WarnedOrUsed /\ ServedIsValid
<1> SUFFICES ASSUME at = "serving" PROVE LoadIsLayered /\ WarnedOrUsed /\ ServedIsValid
  BY DEF LoadIsLayered, WarnedOrUsed, ServedIsValid
<1>1. /\ SourcesOK /\ value = AfterServe /\ Valid(AfterFlags)
      /\ Bad(home) => "home" \in warnings
      /\ Bad(local) => "local" \in warnings
  BY DEF LoadInv, StageInv
<1>2. LoadIsLayered
  <2>1. CASE Preempted
    BY <1>1, <2>1, Layers DEF LoadIsLayered
  <2>2. CASE ~Preempted
    BY <1>1, <2>2, Layers, FirstOfFive DEF LoadIsLayered, Rank
  <2> QED
    BY <2>1, <2>2
<1>4. Heeded("local", local, {FromFlags, FromEnv})
  BY <1>1, FileShape, Layers DEF Heeded, Bad, FromFile
<1>5. Heeded("home", home, {FromFlags, FromEnv, FromFile(local)})
  BY <1>1, FileShape, Layers DEF Heeded, Bad, FromFile
<1>6. ServedIsValid
  BY <1>1, FlagValues DEF ServedIsValid, AfterServe, FlagValue, Defaults, Valid
<1> QED
  BY <1>2, <1>4, <1>5, <1>6 DEF WarnedOrUsed

\* The order of the sources that the comment of Load gives, for every key and
\* whatever they say, but for the four keys whose flag has a default: while the
\* flag is not given they are that default (serveCmd, rootCmd).
THEOREM SourcesAreLayered == Spec => []LoadIsLayered
BY LoadAlways, LoadIsRight, PTL

\* A text of a file that is not served was overruled, or Load warns of the file,
\* unless the file could not be read or the key's flag was not given.
THEOREM FilesAreHeeded == Spec => []WarnedOrUsed
BY LoadAlways, LoadIsRight, PTL

\* Validate has seen every value that no flag of serve replaced.
THEOREM OnlyFlagsEvadeValidate == Spec => []ServedIsValid
BY LoadAlways, LoadIsRight, PTL
=============================================================================
