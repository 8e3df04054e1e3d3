--------------------------- MODULE DataDirProofs ---------------------------
(***************************************************************************)
(* For any number of processes, migrations, deaths and restarts: the type  *)
(* correctness of DataDir, that migrations are committed once and in       *)
(* order, that the keys and tokens in use are the ones on disk, and that   *)
(* the directory can be opened again.                                      *)
(***************************************************************************)
EXTENDS DataDir, TLAPS

-----------------------------------------------------------------------------
(* The inductive invariant.                                                *)

Resting == {"down", "ready", "failed"}
InTransaction == {"record", "commit"}

\* A process that is opening has a phase left, and knows that the migrations
\* before its own are recorded.
Placed(state) ==
  /\ state.at \notin Resting => state.todo # <<>>
  /\ state.version >= 1
  /\ 1..(state.version - 1) \subseteq recorded
  /\ state.at \in {"execute"} \cup InTransaction => state.version =< Migrations

\* A transaction has the write lock, and one past its INSERT is the first to
\* record its version.
Serial(p) ==
  /\ proc[p].at \in InTransaction => writer = {p}
  /\ proc[p].at = "commit" => proc[p].version \notin recorded

IInv ==
  /\ TypeOK
  /\ \A p \in Processes : Placed(proc[p]) /\ Serial(p)
  /\ MigratedOnce

-----------------------------------------------------------------------------
(* The operators steps are built from.                                     *)

\* The end of a phase leads to the next one, or to rest.
LEMMA AdvanceType ==
  ASSUME NEW state \in State, state.todo # <<>>
  PROVE  /\ Advance(state) \in State
         /\ Placed(Advance(state))
         /\ Advance(state).at \in {"ready", "key", "token", "store"}
<1> DEFINE rest == Tail(state.todo)
           next == IF rest = <<>> THEN "ready" ELSE Head(rest)
           moved == [state EXCEPT !.todo = rest, !.version = 1, !.draft = Empty,
                                  !.at = next]
<1>1. state.todo \in Seq({"key", "token", "store"})
  BY DEF State
<1>2. rest \in Seq({"key", "token", "store"})
  BY <1>1
<1>3. next \in {"ready", "key", "token", "store"}
      /\ (next # "ready" => rest # <<>>)
  BY <1>2
<1>4. Advance(state) = moved
  BY DEF Advance
<1> HIDE DEF rest, next
<1>5. moved \in State
  BY <1>2, <1>3 DEF State, Empty
<1>6. moved.todo = rest /\ moved.version = 1 /\ moved.at = next
  BY DEF State
<1>7. 1..(1 - 1) = {}
  OBVIOUS
<1> HIDE DEF moved
<1> QED
  BY <1>3, <1>4, <1>5, <1>6, <1>7 DEF Placed, Resting, InTransaction

\* A step of p that only moves p to a state outside of the transaction keeps
\* the invariant.
LEMMA Elsewhere ==
  ASSUME IInv, NEW p \in Processes, NEW state \in State,
         proc' = [proc EXCEPT ![p] = state], Placed(state),
         state.at \notin InTransaction,
         UNCHANGED <<applied, recorded>>,
         writer' \in {writer, writer \ {p}}
  PROVE  /\ proc' \in [Processes -> State] /\ writer' \subseteq Processes
         /\ \A q \in Processes : Placed(proc[q])' /\ Serial(q)'
         /\ MigratedOnce'
<1>0. proc \in [Processes -> State] /\ writer \subseteq Processes
  BY DEF IInv, TypeOK
<1>1. proc' \in [Processes -> State]
  BY <1>0
<1>2. ASSUME NEW q \in Processes PROVE Placed(proc[q])' /\ Serial(q)'
  <2>1. CASE q = p
    <3>1. proc'[q] = state
      BY <1>0, <2>1
    <3> QED BY <3>1 DEF Placed, Serial, InTransaction
  <2>2. CASE q # p
    <3>1. proc'[q] = proc[q]
      BY <1>0, <2>2
    <3>2. Placed(proc[q]) /\ Serial(q)
      BY DEF IInv
    <3>3. writer = {q} => writer' = {q}
      BY <2>2
    <3> QED BY <3>1, <3>2, <3>3 DEF Placed, Serial
  <2> QED BY <2>1, <2>2
<1>3. MigratedOnce'
  BY DEF IInv, MigratedOnce
<1> QED BY <1>0, <1>1, <1>2, <1>3

\* Going to another statement of the same phase is such a step, and so is
\* failing.
Quiet == {"failed", "load key", "make private", "fill private", "make public",
          "fill public", "make token", "fill token", "check"}

LEMMA MovedType ==
  ASSUME NEW state \in State, NEW l \in Quiet, NEW n \in Nat, Placed(state),
         state.at \notin Resting
  PROVE  LET moved == [state EXCEPT !.at = l, !.draft = n]
         IN  moved \in State /\ Placed(moved) /\ moved.at \notin InTransaction
<1> DEFINE moved == [state EXCEPT !.at = l, !.draft = n]
<1>1. moved \in State
  BY DEF State, Quiet
<1>2. moved.at = l /\ moved.todo = state.todo /\ moved.version = state.version
  BY DEF State
<1> HIDE DEF moved
<1>3. Placed(moved) /\ moved.at \notin InTransaction
  BY <1>2 DEF Placed, Quiet, InTransaction
<1> QED BY <1>1, <1>3 DEF moved

LEMMA GotoMoves ==
  ASSUME TypeOK, NEW p \in Processes, NEW l, Goto(p, l)
  PROVE  proc' = [proc EXCEPT ![p] = [proc[p] EXCEPT !.at = l, !.draft = proc[p].draft]]
<1>1. proc[p] \in State
  BY DEF TypeOK
<1>2. [proc[p] EXCEPT !.at = l] = [proc[p] EXCEPT !.at = l, !.draft = proc[p].draft]
  BY <1>1 DEF State
<1> QED BY <1>2 DEF Goto

\* The variables that have nothing to do with the database.
FilesType ==
  /\ disk \in [Files -> Nat \cup {Absent}]
  /\ made \in Nat /\ starts \in 0..MaxStarts /\ faults \in 0..MaxFaults
  /\ overlapped \subseteq {"key", "token"} /\ superseded \subseteq Processes
  /\ disturbed \in BOOLEAN /\ torn \in BOOLEAN

LEMMA ElsewhereInv ==
  ASSUME IInv, NEW p \in Processes, NEW state \in State,
         proc' = [proc EXCEPT ![p] = state], Placed(state),
         state.at \notin InTransaction,
         UNCHANGED <<applied, recorded>>,
         writer' \in {writer, writer \ {p}}, FilesType'
  PROVE  IInv'
BY Elsewhere DEF IInv, TypeOK, FilesType

\* Goto to a quiet statement.
LEMMA GotoInv ==
  ASSUME IInv, NEW p \in Processes, NEW l \in Quiet, Goto(p, l),
         proc[p].at \notin Resting, UNCHANGED database, FilesType'
  PROVE  IInv'
<1>1. TypeOK /\ proc[p] \in State /\ Placed(proc[p]) /\ proc[p].draft \in Nat
  BY DEF IInv, TypeOK, State
<1> DEFINE moved == [proc[p] EXCEPT !.at = l, !.draft = proc[p].draft]
<1>2. proc' = [proc EXCEPT ![p] = moved]
  BY <1>1, GotoMoves
<1>3. moved \in State /\ Placed(moved) /\ moved.at \notin InTransaction
  BY <1>1, MovedType
<1> HIDE DEF moved
<1> QED BY <1>2, <1>3, ElsewhereInv DEF database

\* A phase of p ends, with a secret in its hands.
LEMMA PhaseEnds ==
  ASSUME IInv, NEW p \in Processes, NEW state \in State,
         state.todo = proc[p].todo, proc[p].at \notin Resting,
         proc' = [proc EXCEPT ![p] = Advance(state)],
         UNCHANGED database, FilesType'
  PROVE  IInv'
<1>1. proc[p].todo # <<>>
  BY DEF IInv, Placed
<1>2. /\ Advance(state) \in State /\ Placed(Advance(state))
      /\ Advance(state).at \notin InTransaction
  BY <1>1, AdvanceType DEF InTransaction
<1> QED BY <1>2, ElsewhereInv DEF database

-----------------------------------------------------------------------------
(* Every action.                                                           *)

LEMMA InvInit == Init => IInv
<1> SUFFICES ASSUME Init PROVE IInv
  OBVIOUS
<1>1. Idle \in State
  BY DEF Idle, State, Empty, Absent
<1>2. /\ disk \in [Files -> Nat \cup {Absent}]
      /\ applied \in [1..Migrations -> Nat] /\ recorded \subseteq 1..Migrations
      /\ proc \in [Processes -> State]
  BY <1>1 DEF Init
<1>2a. FilesType /\ writer \subseteq Processes
  <2>1. /\ made = 0 /\ starts = 0 /\ faults = 0
        /\ overlapped = {} /\ superseded = {} /\ writer = {}
    BY DEF Init
  <2>2. disturbed \in BOOLEAN /\ torn \in BOOLEAN
    BY DEF Init
  <2>3. /\ made \in Nat /\ starts \in 0..MaxStarts /\ faults \in 0..MaxFaults
        /\ overlapped \subseteq {"key", "token"} /\ superseded \subseteq Processes
        /\ writer \subseteq Processes
    BY <2>1, DataDirAssumption
  <2> QED BY <1>2, <2>2, <2>3 DEF FilesType
<1>3. \A p \in Processes : Placed(proc[p]) /\ Serial(p)
  BY DEF Init, Idle, Placed, Serial, Resting, InTransaction
<1>4. MigratedOnce
  BY DEF Init, MigratedOnce
<1> QED BY <1>2, <1>2a, <1>3, <1>4 DEF IInv, TypeOK, FilesType

LEMMA StartInv ==
  ASSUME IInv, NEW p \in Processes, Start(p)
  PROVE  IInv'
<1>1. PICK cmd \in Commands :
        proc' = [proc EXCEPT ![p] = [Idle EXCEPT !.todo = Phases[cmd],
                                                 !.at = Head(Phases[cmd])]]
  BY DEF Start
<1> DEFINE todo == Phases[cmd]
           state == [Idle EXCEPT !.todo = todo, !.at = Head(todo)]
<1>2. todo \in Seq({"key", "token", "store"}) /\ todo # <<>>
      /\ Head(todo) \in {"key", "store"}
  <2>1. CASE cmd = "run"
    <3>1. todo = <<"key", "store", "key">>
      BY <2>1 DEF Phases
    <3> QED BY <3>1
  <2>2. CASE cmd = "serve"
    <3>1. todo = <<"key", "token", "store">>
      BY <2>2 DEF Phases
    <3> QED BY <3>1
  <2>3. CASE cmd = "audit"
    <3>1. todo = <<"store">>
      BY <2>3 DEF Phases
    <3> QED BY <3>1
  <2> QED BY <2>1, <2>2, <2>3, DataDirAssumption
<1> HIDE DEF todo
<1>3. state \in State /\ state.at = Head(todo) /\ state.todo = todo
      /\ state.version = 1
  BY <1>2 DEF Idle, State, Empty, Absent
<1>4. proc' = [proc EXCEPT ![p] = state]
  BY <1>1 DEF todo
<1> HIDE DEF state
<1>5. Placed(state) /\ state.at \notin InTransaction
  BY <1>2, <1>3 DEF Placed, InTransaction
<1>6. FilesType'
  BY DataDirAssumption DEF Start, IInv, TypeOK, FilesType, secrets
<1> QED BY <1>3, <1>4, <1>5, <1>6, ElsewhereInv DEF Start, database

LEMMA DieInv ==
  ASSUME IInv, NEW p \in Processes, Die(p)
  PROVE  IInv'
<1>1. Idle \in State /\ Placed(Idle) /\ Idle.at \notin InTransaction
  BY DEF Idle, State, Empty, Absent, Placed, Resting, InTransaction
<1>2. FilesType'
  BY DEF Die, IInv, TypeOK, FilesType, secrets
<1> QED BY <1>1, <1>2, ElsewhereInv DEF Die

\* A new secret is about to be written.
LEMMA GenerateInv ==
  ASSUME IInv, NEW p \in Processes, NEW l \in Quiet, Generate(p, l),
         proc[p].at \notin Resting, UNCHANGED database, FilesType'
  PROVE  IInv'
<1>1. TypeOK /\ proc[p] \in State /\ Placed(proc[p]) /\ made + 1 \in Nat
  BY DEF IInv, TypeOK
<1> DEFINE moved == [proc[p] EXCEPT !.at = l, !.draft = made + 1]
<1>2. proc' = [proc EXCEPT ![p] = moved]
  BY <1>1 DEF Generate, TypeOK
<1>3. moved \in State /\ Placed(moved) /\ moved.at \notin InTransaction
  BY <1>1, MovedType
<1> HIDE DEF moved
<1> QED BY <1>2, <1>3, ElsewhereInv DEF database

\* A fault counts.
LEMMA FaultType ==
  ASSUME FilesType, Fault \/ UNCHANGED faults
  PROVE  faults' \in 0..MaxFaults
BY DataDirAssumption DEF Fault, FilesType

LEMMA StatKeyInv ==
  ASSUME IInv, NEW p \in Processes, StatKey(p)
  PROVE  IInv'
<1>1. proc[p].at \notin Resting
  BY DEF StatKey, At, Resting
<1>2. FilesType'
  <2>1. FilesType
    BY DEF IInv, TypeOK, FilesType
  <2>2. made' \in Nat
    <3>1. made' = made + 1 \/ made' = made
      BY Zenon DEF StatKey, Generate
    <3> QED BY <2>1, <3>1 DEF FilesType
  <2>3. overlapped' \subseteq {"key", "token"}
    BY <2>1 DEF StatKey, Look, FilesType
  <2>4. faults' \in 0..MaxFaults
    BY <2>1, FaultType DEF StatKey
  <2>5. disturbed' \in BOOLEAN
    BY <2>1, Zenon DEF StatKey, FilesType
  <2> QED BY <2>1, <2>2, <2>3, <2>4, <2>5 DEF StatKey, FilesType
<1>3. CASE Generate(p, "make private")
  BY <1>1, <1>2, <1>3, GenerateInv DEF StatKey, Quiet
<1>4. CASE Goto(p, "load key") \/ Goto(p, "failed")
  BY <1>1, <1>2, <1>4, GotoInv DEF StatKey, Quiet
<1> QED BY <1>3, <1>4 DEF StatKey

LEMMA LoadKeyInv ==
  ASSUME IInv, NEW p \in Processes, LoadKey(p)
  PROVE  IInv'
<1>1. proc[p].at \notin Resting /\ proc[p] \in State
  BY DEF LoadKey, At, Resting, IInv, TypeOK
<1>2. FilesType'
  <2>1. FilesType
    BY DEF IInv, TypeOK, FilesType
  <2>2. faults' \in 0..MaxFaults
    BY <2>1, FaultType DEF LoadKey
  <2>3. disturbed' \in BOOLEAN
    BY <2>1, Zenon DEF LoadKey, FilesType
  <2> QED BY <2>1, <2>2, <2>3 DEF LoadKey, FilesType
<1>3. CASE disk["private"] > Empty /\ ~Goto(p, "failed")
  <2> DEFINE state == [proc[p] EXCEPT !.key = disk["private"]]
  <2>1. disk["private"] \in Nat
    BY <1>3 DEF IInv, TypeOK, Files, Absent, Empty
  <2>2. state \in State /\ state.todo = proc[p].todo
    BY <1>1, <2>1 DEF State
  <2>3. proc' = [proc EXCEPT ![p] = Advance(state)]
    BY <1>3, Zenon DEF LoadKey
  <2> HIDE DEF state
  <2> QED BY <1>1, <1>2, <2>2, <2>3, PhaseEnds DEF LoadKey
<1>4. CASE Goto(p, "failed")
  BY <1>1, <1>2, <1>4, GotoInv DEF LoadKey, Quiet
<1> QED BY <1>3, <1>4 DEF LoadKey

LEMMA ReadTokenInv ==
  ASSUME IInv, NEW p \in Processes, ReadToken(p)
  PROVE  IInv'
<1>1. proc[p].at \notin Resting /\ proc[p] \in State
  BY DEF ReadToken, At, Resting, IInv, TypeOK
<1>2. FilesType'
  <2>1. FilesType
    BY DEF IInv, TypeOK, FilesType
  <2>2. made' \in Nat
    <3>1. made' = made + 1 \/ made' = made
      BY Zenon DEF ReadToken, Generate
    <3> QED BY <2>1, <3>1 DEF FilesType
  <2>3. overlapped' \subseteq {"key", "token"}
    BY <2>1 DEF ReadToken, Look, FilesType
  <2>4. faults' \in 0..MaxFaults
    BY <2>1, FaultType DEF ReadToken
  <2>5. superseded' \subseteq Processes
    BY <2>1 DEF ReadToken, FilesType
  <2> QED BY <2>1, <2>2, <2>3, <2>4, <2>5 DEF ReadToken, FilesType
<1>3. CASE Generate(p, "make token")
  BY <1>1, <1>2, <1>3, GenerateInv DEF ReadToken, Quiet
<1>4. CASE ~Generate(p, "make token")
  <2> DEFINE state == [proc[p] EXCEPT !.token = disk["token"]]
  <2>1. /\ disk["token"] # Absent
        /\ proc' = [proc EXCEPT ![p] = Advance(state)]
    BY <1>4, Zenon DEF ReadToken
  <2>2. disk["token"] \in Nat
    BY <2>1 DEF IInv, TypeOK, Files
  <2>3. state \in State /\ state.todo = proc[p].todo
    BY <1>1, <2>2 DEF State
  <2> HIDE DEF state
  <2> QED BY <1>1, <1>2, <2>1, <2>3, PhaseEnds DEF ReadToken
<1> QED BY <1>3, <1>4

LEMMA TruncateInv ==
  ASSUME IInv, NEW p \in Processes, NEW from, NEW file \in Files,
         NEW to \in Quiet, from \notin Resting, Truncate(p, from, file, to)
  PROVE  IInv'
<1>1. proc[p].at \notin Resting
  BY DEF Truncate, At
<1>2. FilesType'
  BY DEF Truncate, IInv, TypeOK, FilesType, history, Empty
<1> QED BY <1>1, <1>2, GotoInv DEF Truncate

LEMMA FillInv ==
  ASSUME IInv, NEW p \in Processes, NEW from, NEW file \in Files,
         from \notin Resting, Fill(p, from, file)
  PROVE  IInv'
<1>1. proc[p].at \notin Resting /\ proc[p] \in State /\ proc[p].draft \in Nat
  BY DEF Fill, At, IInv, TypeOK, State
<1>2. FilesType'
  <2>1. FilesType
    BY DEF IInv, TypeOK, FilesType
  <2>2. disk' \in [Files -> Nat \cup {Absent}]
    BY <1>1, <2>1, Zenon DEF Fill, FilesType
  <2>3. faults' \in 0..MaxFaults
    BY <2>1, FaultType DEF Fill
  <2>4. disturbed' \in BOOLEAN /\ torn' \in BOOLEAN
    BY <2>1, Zenon DEF Fill, FilesType
  <2> QED BY <2>1, <2>2, <2>3, <2>4 DEF Fill, FilesType
<1>3. CASE Goto(p, "failed")
  BY <1>1, <1>2, <1>3, GotoInv DEF Fill, Quiet
<1>4. CASE proc' = [proc EXCEPT ![p] = Filled(proc[p], file)]
  <2>1. CASE file = "private"
    <3> DEFINE moved == [proc[p] EXCEPT !.at = "make public", !.draft = proc[p].draft]
    <3>1. Filled(proc[p], file) = moved
      <4>1. Filled(proc[p], file) = [proc[p] EXCEPT !.at = "make public"]
        BY <2>1 DEF Filled
      <4> QED BY <1>1, <4>1 DEF State
    <3>2. moved \in State /\ Placed(moved) /\ moved.at \notin InTransaction
      BY <1>1, MovedType DEF IInv, Quiet
    <3> HIDE DEF moved
    <3> QED BY <1>2, <1>4, <3>1, <3>2, ElsewhereInv DEF Fill, database
  <2>2. CASE file = "public"
    <3> DEFINE state == [proc[p] EXCEPT !.key = proc[p].draft]
    <3>1. Filled(proc[p], file) = Advance(state)
      BY <2>2 DEF Filled
    <3>2. state \in State /\ state.todo = proc[p].todo
      BY <1>1 DEF State
    <3> HIDE DEF state
    <3> QED BY <1>1, <1>2, <1>4, <3>1, <3>2, PhaseEnds DEF Fill
  <2>3. CASE file = "token"
    <3> DEFINE state == [proc[p] EXCEPT !.token = proc[p].draft]
    <3>1. Filled(proc[p], file) = Advance(state)
      BY <2>3 DEF Filled
    <3>2. state \in State /\ state.todo = proc[p].todo
      BY <1>1 DEF State
    <3> HIDE DEF state
    <3> QED BY <1>1, <1>2, <1>4, <3>1, <3>2, PhaseEnds DEF Fill
  <2> QED BY <2>1, <2>2, <2>3 DEF Files
<1> QED BY <1>3, <1>4 DEF Fill

LEMMA WriteInv ==
  ASSUME IInv, NEW p \in Processes, WriteKey(p) \/ WriteToken(p)
  PROVE  IInv'
<1> USE DEF Files, Quiet, Resting
<1>1. CASE \/ Truncate(p, "make private", "private", "fill private")
           \/ Truncate(p, "make public", "public", "fill public")
           \/ Truncate(p, "make token", "token", "fill token")
  BY <1>1, TruncateInv
<1>2. CASE \/ Fill(p, "fill private", "private")
           \/ Fill(p, "fill public", "public")
           \/ Fill(p, "fill token", "token")
  BY <1>2, FillInv
<1> QED BY <1>1, <1>2 DEF WriteKey, WriteToken

LEMMA OpenStoreInv ==
  ASSUME IInv, NEW p \in Processes, OpenStore(p)
  PROVE  IInv'
<1>1. proc[p].at \notin Resting
  BY DEF OpenStore, At, Resting
<1>2. FilesType'
  BY DEF OpenStore, IInv, TypeOK, FilesType, secrets, history
<1>3. Goto(p, "check") \/ Goto(p, "failed")
  BY DEF OpenStore
<1> QED BY <1>1, <1>2, <1>3, GotoInv DEF OpenStore, Quiet

\* The steps below leave the files alone.
LEMMA FilesAlone ==
  ASSUME IInv, UNCHANGED <<secrets, starts, history>>
  PROVE  FilesType'
BY DEF IInv, TypeOK, FilesType, secrets, history

LEMMA CheckInv ==
  ASSUME IInv, NEW p \in Processes, Check(p)
  PROVE  IInv'
<1> DEFINE v == proc[p].version
<1>1. /\ proc[p] \in State /\ proc[p].at = "check" /\ v \in Nat
      /\ Placed(proc[p])
  BY DEF Check, At, IInv, TypeOK, State
<1>2. FilesType'
  BY FilesAlone DEF Check
<1>3. UNCHANGED database /\ proc[p].at \notin Resting
  BY <1>1 DEF Check, Resting
<1>4. CASE v > Migrations
  <2>1. proc' = [proc EXCEPT ![p] = Advance(proc[p])]
    BY <1>4 DEF Check
  <2> QED BY <1>1, <1>2, <1>3, <2>1, PhaseEnds
<1>5. CASE ~(v > Migrations) /\ v \in recorded
  <2> DEFINE next == v + 1
             state == [proc[p] EXCEPT !.version = next]
  <2>0. next \in Nat
    BY <1>1
  <2>1. proc' = [proc EXCEPT ![p] = state]
    BY <1>5 DEF Check
  <2>2. /\ state \in State /\ state.at = "check" /\ state.version = v + 1
        /\ state.todo = proc[p].todo
    <3> HIDE DEF next
    <3>1. /\ state \in State /\ state.at = "check" /\ state.version = next
          /\ state.todo = proc[p].todo
      BY <1>1, <2>0 DEF State
    <3> QED BY <3>1 DEF next
  <2> HIDE DEF state, next
  <2>3. 1..v \subseteq recorded
    BY <1>1, <1>5 DEF Placed
  <2>4. Placed(state) /\ state.at \notin InTransaction
    BY <1>1, <2>2, <2>3 DEF Placed, Resting, InTransaction
  <2> QED BY <1>2, <1>3, <2>1, <2>2, <2>4, ElsewhereInv DEF database
<1>6. CASE ~(v > Migrations) /\ v \notin recorded
  <2> DEFINE state == [proc[p] EXCEPT !.at = "execute"]
  <2>1. proc' = [proc EXCEPT ![p] = state]
    BY <1>6 DEF Check
  <2>2. /\ state \in State /\ state.at = "execute" /\ state.version = v
        /\ state.todo = proc[p].todo
    BY <1>1 DEF State
  <2> HIDE DEF state
  <2>3. v =< Migrations
    BY <1>1, <1>6, DataDirAssumption
  <2>4. Placed(state) /\ state.at \notin InTransaction
    BY <1>1, <2>2, <2>3 DEF Placed, Resting, InTransaction
  <2> QED BY <1>2, <1>3, <2>1, <2>2, <2>4, ElsewhereInv DEF database
<1> QED BY <1>4, <1>5, <1>6

\* p moves within its transaction.
LEMMA InTransactionInv ==
  ASSUME IInv, NEW p \in Processes, NEW l \in InTransaction, Goto(p, l),
         proc[p].at \in {"execute", "record"}, writer' = {p},
         writer \in {{}, {p}}, l = "commit" => proc[p].version \notin recorded,
         UNCHANGED <<applied, recorded>>, FilesType'
  PROVE  IInv'
<1> DEFINE state == [proc[p] EXCEPT !.at = l]
<1>1. proc \in [Processes -> State] /\ proc[p] \in State /\ Placed(proc[p])
  BY DEF IInv, TypeOK
<1>2. /\ state \in State /\ state.at = l /\ state.todo = proc[p].todo
      /\ state.version = proc[p].version
  BY <1>1 DEF State, InTransaction
<1>3. proc' = [proc EXCEPT ![p] = state]
  BY DEF Goto
<1> HIDE DEF state
<1>4. proc' \in [Processes -> State]
  BY <1>1, <1>2, <1>3
<1>5. ASSUME NEW q \in Processes PROVE Placed(proc[q])' /\ Serial(q)'
  <2>1. CASE q = p
    <3>1. proc'[q] = state
      BY <1>1, <1>3, <2>1
    <3> QED BY <1>1, <1>2, <2>1, <3>1 DEF Placed, Serial, InTransaction, Resting
  <2>2. CASE q # p
    <3>1. proc'[q] = proc[q]
      BY <1>1, <1>3, <2>2
    <3>2. Placed(proc[q]) /\ Serial(q) /\ proc[q].at \notin InTransaction
      BY <2>2 DEF IInv, Serial
    <3> QED BY <3>1, <3>2 DEF Placed, Serial, InTransaction
  <2> QED BY <2>1, <2>2
<1>6. MigratedOnce'
  BY DEF IInv, MigratedOnce
<1> QED BY <1>4, <1>5, <1>6 DEF IInv, TypeOK, FilesType

LEMMA ExecuteInv ==
  ASSUME IInv, NEW p \in Processes, Execute(p)
  PROVE  IInv'
<1>1. FilesType'
  BY FilesAlone DEF Execute
<1>2. proc[p].at = "execute" /\ UNCHANGED <<applied, recorded>>
  BY DEF Execute, At
<1>3. CASE writer = {} /\ writer' = {p} /\ Goto(p, "record")
  BY <1>1, <1>2, <1>3, InTransactionInv DEF InTransaction
<1>4. CASE Goto(p, "failed") /\ UNCHANGED writer
  <2>1. proc[p].at \notin Resting /\ UNCHANGED database
    BY <1>2, <1>4 DEF Resting, database
  <2> QED BY <1>1, <1>4, <2>1, GotoInv DEF Quiet
<1> QED BY <1>3, <1>4 DEF Execute

LEMMA RecordInv ==
  ASSUME IInv, NEW p \in Processes, Record(p)
  PROVE  IInv'
<1>1. FilesType'
  BY FilesAlone DEF Record
<1>2. proc[p].at = "record" /\ UNCHANGED <<applied, recorded>> /\ writer = {p}
  BY DEF Record, At, IInv, Serial, InTransaction
<1>3. CASE proc[p].version \notin recorded /\ Goto(p, "commit") /\ UNCHANGED writer
  BY <1>1, <1>2, <1>3, InTransactionInv DEF InTransaction
<1>4. CASE Goto(p, "failed") /\ writer' = {}
  <2> DEFINE moved == [proc[p] EXCEPT !.at = "failed", !.draft = proc[p].draft]
  <2>1. proc[p] \in State /\ Placed(proc[p]) /\ proc[p].draft \in Nat /\ TypeOK
    BY DEF IInv, TypeOK, State
  <2>2. proc' = [proc EXCEPT ![p] = moved]
    BY <1>4, <2>1, GotoMoves
  <2>3. moved \in State /\ Placed(moved) /\ moved.at \notin InTransaction
    BY <1>2, <2>1, MovedType DEF Quiet, Resting
  <2> HIDE DEF moved
  <2>4. writer' = writer \ {p}
    BY <1>2, <1>4
  <2> QED BY <1>1, <1>2, <2>2, <2>3, <2>4, ElsewhereInv
<1> QED BY <1>3, <1>4 DEF Record

\* The one step that changes what is recorded.
LEMMA CommitInv ==
  ASSUME IInv, NEW p \in Processes, Commit(p)
  PROVE  IInv'
<1> DEFINE v == proc[p].version
           next == v + 1
           state == [proc[p] EXCEPT !.at = "check", !.version = next]
<1>1. FilesType'
  BY FilesAlone DEF Commit
<1>2. /\ proc \in [Processes -> State] /\ proc[p] \in State /\ v \in Nat
      /\ applied \in [1..Migrations -> Nat] /\ recorded \subseteq 1..Migrations
  BY DEF IInv, TypeOK, State
<1>3. /\ proc[p].at = "commit" /\ writer = {p} /\ v \notin recorded
      /\ v >= 1 /\ v =< Migrations /\ 1..(v - 1) \subseteq recorded
      /\ proc[p].todo # <<>>
  BY DEF Commit, At, IInv, Serial, Placed, InTransaction, Resting
<1>4. /\ applied' = [applied EXCEPT ![v] = @ + 1]
      /\ recorded' = recorded \cup {v} /\ writer' = {}
      /\ proc' = [proc EXCEPT ![p] = state]
  BY DEF Commit
<1>5. /\ state \in State /\ state.at = "check" /\ state.version = v + 1
      /\ state.todo = proc[p].todo
  <2>1. next \in Nat
    BY <1>2
  <2> HIDE DEF next
  <2>2. /\ state \in State /\ state.at = "check" /\ state.version = next
        /\ state.todo = proc[p].todo
    BY <1>2, <2>1 DEF State
  <2> QED BY <2>2 DEF next
<1> HIDE DEF state, next
<1>6. /\ applied' \in [1..Migrations -> Nat] /\ recorded' \subseteq 1..Migrations
      /\ proc' \in [Processes -> State]
  <2>1. v \in 1..Migrations
    BY <1>2, <1>3, DataDirAssumption
  <2> HIDE DEF v
  <2>2. applied[v] + 1 \in Nat
    BY <1>2, <2>1
  <2>3. applied' \in [1..Migrations -> Nat]
    BY <1>2, <1>4, <2>2
  <2>4. recorded' \subseteq 1..Migrations
    BY <1>2, <1>4, <2>1
  <2> QED BY <1>2, <1>4, <1>5, <2>3, <2>4
<1>7. 1..v \subseteq recorded'
  BY <1>2, <1>3, <1>4
<1>8. ASSUME NEW q \in Processes PROVE Placed(proc[q])' /\ Serial(q)'
  <2>1. CASE q = p
    <3>1. proc'[q] = state
      BY <1>2, <1>4, <2>1
    <3> HIDE DEF v
    <3>2. (v + 1) - 1 = v /\ v + 1 >= 1
      BY <1>2
    <3> QED BY <1>3, <1>5, <1>7, <3>1, <3>2
            DEF Placed, Serial, InTransaction, Resting
  <2>2. CASE q # p
    <3>1. proc'[q] = proc[q]
      BY <1>2, <1>4, <2>2
    <3>2. Placed(proc[q]) /\ Serial(q) /\ proc[q].at \notin InTransaction
      BY <1>3, <2>2 DEF IInv, Serial
    <3> QED BY <1>4, <3>1, <3>2 DEF Placed, Serial, InTransaction
  <2> QED BY <2>1, <2>2
<1>9. MigratedOnce'
  <2> SUFFICES ASSUME NEW m \in 1..Migrations
               PROVE  /\ applied'[m] = IF m \in recorded' THEN 1 ELSE 0
                      /\ m \in recorded' => 1..m \subseteq recorded'
    BY DEF MigratedOnce
  <2>1. /\ applied[m] = IF m \in recorded THEN 1 ELSE 0
        /\ m \in recorded => 1..m \subseteq recorded
    BY DEF IInv, MigratedOnce
  <2>2. CASE m = v
    BY <1>2, <1>3, <1>4, <1>7, <2>1, <2>2
  <2>3. CASE m # v
    BY <1>2, <1>4, <2>1, <2>3
  <2> QED BY <2>2, <2>3
<1> QED BY <1>1, <1>4, <1>6, <1>8, <1>9 DEF IInv, TypeOK, FilesType

-----------------------------------------------------------------------------
(* The theorems.                                                           *)

LEMMA InvStep == IInv /\ [Next]_vars => IInv'
<1> SUFFICES ASSUME IInv, [Next]_vars PROVE IInv'
  OBVIOUS
<1>1. CASE UNCHANGED vars
  BY <1>1 DEF IInv, TypeOK, MigratedOnce, Placed, Serial, vars
<1>2. ASSUME NEW p \in Processes, Start(p) \/ Open(p) \/ Die(p) PROVE IInv'
  BY <1>2, StartInv, DieInv, StatKeyInv, LoadKeyInv, WriteInv, ReadTokenInv,
     OpenStoreInv, CheckInv, ExecuteInv, RecordInv, CommitInv DEF Open
<1> QED BY <1>1, <1>2 DEF Next

\* Every variable of the data directory and of the processes that open it stays
\* in its type.
THEOREM TypeCorrect == Spec => []TypeOK
<1>1. IInv => TypeOK
  BY DEF IInv
<1> QED BY <1>1, InvInit, InvStep, PTL DEF Spec

\* However many processes open the database at once and wherever they die, the
\* SQL of a migration is committed at most once, together with its record, and
\* never before that of an earlier one (runMigrations).
THEOREM MigrationsOnce == Spec => []MigratedOnce
<1>1. IInv => MigratedOnce
  BY DEF IInv
<1> QED BY <1>1, InvInit, InvStep, PTL DEF Spec

-----------------------------------------------------------------------------
(* What one step makes of the process that takes it.                       *)

\* p goes to l with these contents; nobody else moves.
Becomes(p, l, version, key, token, draft) ==
  /\ \A q \in Processes \ {p} : proc'[q] = proc[q]
  /\ proc'[p].at = l /\ proc'[p].version = version
  /\ proc'[p].key = key /\ proc'[p].token = token /\ proc'[p].draft = draft

\* Its phase is over, and it holds these secrets.
Finishes(p, key, token) ==
  \E l \in {"ready", "key", "token", "store"} : Becomes(p, l, 1, key, token, Empty)

\* It goes to l and keeps what it has.
Moves(p, l) ==
  Becomes(p, l, proc[p].version, proc[p].key, proc[p].token, proc[p].draft)

LEMMA BecomesBy ==
  ASSUME TypeOK, NEW p \in Processes, NEW state,
         proc' = [proc EXCEPT ![p] = state]
  PROVE  Becomes(p, state.at, state.version, state.key, state.token, state.draft)
BY DEF TypeOK, Becomes

LEMMA GotoBecomes ==
  ASSUME TypeOK, NEW p \in Processes, NEW l, Goto(p, l)
  PROVE  Moves(p, l)
<1>1. PICK state : state = [proc[p] EXCEPT !.at = l]
  OBVIOUS
<1>2. /\ state.at = l /\ state.version = proc[p].version /\ state.key = proc[p].key
      /\ state.token = proc[p].token /\ state.draft = proc[p].draft
  BY <1>1 DEF TypeOK, State
<1>3. Becomes(p, state.at, state.version, state.key, state.token, state.draft)
  BY <1>1, BecomesBy DEF Goto
<1> QED BY <1>2, <1>3 DEF Moves

LEMMA AdvanceBecomes ==
  ASSUME TypeOK, NEW p \in Processes, NEW state \in State, state.todo # <<>>,
         proc' = [proc EXCEPT ![p] = Advance(state)]
  PROVE  Finishes(p, state.key, state.token)
<1>1. PICK done : done = Advance(state)
  OBVIOUS
<1>2. /\ done.version = 1 /\ done.key = state.key /\ done.token = state.token
      /\ done.draft = Empty
  BY <1>1 DEF Advance, State
<1>3. done.at \in {"ready", "key", "token", "store"}
  BY <1>1, AdvanceType
<1>4. Becomes(p, done.at, done.version, done.key, done.token, done.draft)
  BY <1>1, BecomesBy
<1> QED BY <1>2, <1>3, <1>4 DEF Finishes

LEMMA GenerateBecomes ==
  ASSUME TypeOK, NEW p \in Processes, NEW l, Generate(p, l)
  PROVE  Becomes(p, l, proc[p].version, proc[p].key, proc[p].token, made + 1)
<1> DEFINE new == made + 1
<1>1. PICK state : state = [proc[p] EXCEPT !.at = l, !.draft = new]
  OBVIOUS
<1>2. Becomes(p, state.at, state.version, state.key, state.token, state.draft)
  BY <1>1, BecomesBy DEF Generate, TypeOK
<1> HIDE DEF new
<1>3. /\ state.at = l /\ state.version = proc[p].version /\ state.key = proc[p].key
      /\ state.token = proc[p].token /\ state.draft = new
  BY <1>1 DEF TypeOK, State
<1> QED BY <1>2, <1>3 DEF new

\* The same, action by action.
LEMMA StartEffect ==
  ASSUME TypeOK, NEW p \in Processes, Start(p)
  PROVE  \E l \in {"key", "store"} : Becomes(p, l, 1, Absent, Absent, Empty)
<1>1. PICK cmd \in Commands :
        proc' = [proc EXCEPT ![p] = [Idle EXCEPT !.todo = Phases[cmd],
                                                 !.at = Head(Phases[cmd])]]
  BY DEF Start
<1>2. Head(Phases[cmd]) \in {"key", "store"}
  <2>1. CASE cmd = "run"
    <3>1. Phases[cmd] = <<"key", "store", "key">>
      BY <2>1 DEF Phases
    <3> QED BY <3>1
  <2>2. CASE cmd = "serve"
    <3>1. Phases[cmd] = <<"key", "token", "store">>
      BY <2>2 DEF Phases
    <3> QED BY <3>1
  <2>3. CASE cmd = "audit"
    <3>1. Phases[cmd] = <<"store">>
      BY <2>3 DEF Phases
    <3> QED BY <3>1
  <2> QED BY <2>1, <2>2, <2>3, DataDirAssumption
<1>3. PICK todo, l : todo = Phases[cmd] /\ l = Head(Phases[cmd])
  OBVIOUS
<1>4. PICK state : state = [Idle EXCEPT !.todo = todo, !.at = l]
  OBVIOUS
<1>5. Becomes(p, state.at, state.version, state.key, state.token, state.draft)
  BY <1>1, <1>3, <1>4, BecomesBy
<1>6. /\ state.at = l /\ state.version = 1 /\ state.key = Absent
      /\ state.token = Absent /\ state.draft = Empty
  BY <1>4 DEF Idle
<1> QED BY <1>2, <1>3, <1>5, <1>6

LEMMA DieEffect ==
  ASSUME TypeOK, NEW p \in Processes, Die(p)
  PROVE  Becomes(p, "down", 1, Absent, Absent, Empty)
<1>1. Becomes(p, Idle.at, Idle.version, Idle.key, Idle.token, Idle.draft)
  BY BecomesBy DEF Die
<1> QED BY <1>1 DEF Idle

LEMMA LoadKeyEffect ==
  ASSUME IInv, NEW p \in Processes, LoadKey(p)
  PROVE  \/ disk["private"] # Empty /\ Finishes(p, disk["private"], proc[p].token)
         \/ (disk["private"] = Empty \/ disturbed') /\ Moves(p, "failed")
<1>1. TypeOK /\ proc[p] \in State /\ proc[p].todo # <<>>
      /\ disk["private"] \in Nat \cup {Absent}
  BY DEF IInv, TypeOK, Placed, LoadKey, At, Resting, Files
<1>2. CASE (disk["private"] = Empty \/ disturbed') /\ Goto(p, "failed")
  BY <1>1, <1>2, GotoBecomes
<1>3. CASE /\ disk["private"] > Empty
           /\ proc' = [proc EXCEPT ![p] =
                Advance([proc[p] EXCEPT !.key = disk["private"]])]
  <2>1. PICK state : state = [proc[p] EXCEPT !.key = disk["private"]]
    OBVIOUS
  <2>2. disk["private"] \in Nat /\ disk["private"] # Empty
    BY <1>1, <1>3 DEF Absent, Empty
  <2>3. /\ state \in State /\ state.todo = proc[p].todo
        /\ state.key = disk["private"] /\ state.token = proc[p].token
    BY <1>1, <2>1, <2>2 DEF State
  <2>4. Finishes(p, state.key, state.token)
    BY <1>1, <1>3, <2>1, <2>3, AdvanceBecomes
  <2> QED BY <2>2, <2>3, <2>4
<1> QED BY <1>2, <1>3, Zenon DEF LoadKey

LEMMA ReadTokenEffect ==
  ASSUME IInv, NEW p \in Processes, ReadToken(p)
  PROVE  \/ /\ \/ disk["token"] = Absent /\ UNCHANGED superseded
               \/ superseded' = superseded \cup {q \in Processes : proc[q].token # Absent}
            /\ Becomes(p, "make token", proc[p].version, proc[p].key,
                       proc[p].token, made + 1)
         \/ /\ disk["token"] # Absent /\ UNCHANGED superseded
            /\ Finishes(p, proc[p].key, disk["token"])
<1>1. TypeOK /\ proc[p] \in State /\ proc[p].todo # <<>>
      /\ disk["token"] \in Nat \cup {Absent}
  BY DEF IInv, TypeOK, Placed, ReadToken, At, Resting, Files
<1>2. CASE /\ \/ disk["token"] = Absent /\ UNCHANGED superseded
              \/ superseded' = superseded \cup {q \in Processes : proc[q].token # Absent}
           /\ Generate(p, "make token")
  BY <1>1, <1>2, GenerateBecomes
<1>3. CASE /\ disk["token"] # Absent /\ UNCHANGED superseded
           /\ proc' = [proc EXCEPT ![p] =
                Advance([proc[p] EXCEPT !.token = disk["token"]])]
  <2>1. PICK state : state = [proc[p] EXCEPT !.token = disk["token"]]
    OBVIOUS
  <2>2. disk["token"] \in Nat
    BY <1>1, <1>3
  <2>3. /\ state \in State /\ state.todo = proc[p].todo
        /\ state.token = disk["token"] /\ state.key = proc[p].key
    BY <1>1, <2>1, <2>2 DEF State
  <2>4. Finishes(p, state.key, state.token)
    BY <1>1, <1>3, <2>1, <2>3, AdvanceBecomes
  <2> QED BY <1>3, <2>3, <2>4
<1> QED BY <1>2, <1>3, Zenon DEF ReadToken

\* A write of a file that does not fail.
LEMMA FillEffect ==
  ASSUME IInv, NEW p \in Processes, NEW from, NEW file \in Files,
         from \notin Resting, Fill(p, from, file)
  PROVE  \/ /\ disk' = [disk EXCEPT ![file] = proc[p].draft]
            /\ disturbed' = disturbed /\ torn' = torn
            /\ file = "private" => Moves(p, "make public")
            /\ file = "public" => Finishes(p, proc[p].draft, proc[p].token)
            /\ file = "token" => Finishes(p, proc[p].key, proc[p].draft)
         \/ /\ disk' = disk /\ disturbed' /\ torn' = (torn \/ file = "token")
            /\ Moves(p, "failed")
<1>1. TypeOK /\ proc[p] \in State /\ proc[p].todo # <<>> /\ proc[p].draft \in Nat
  BY DEF IInv, TypeOK, Placed, Fill, At, State
<1>2. CASE /\ disturbed' = TRUE /\ disk' = disk /\ Goto(p, "failed")
           /\ torn' = (torn \/ file = "token")
  BY <1>1, <1>2, GotoBecomes
<1>3. CASE /\ disk' = [disk EXCEPT ![file] = proc[p].draft]
           /\ proc' = [proc EXCEPT ![p] = Filled(proc[p], file)]
           /\ disturbed' = disturbed /\ torn' = torn
  <2>1. ASSUME file = "private" PROVE Moves(p, "make public")
    <3>1. Goto(p, "make public")
      BY <1>3, <2>1 DEF Filled, Goto
    <3> QED BY <1>1, <3>1, GotoBecomes
  <2>2. ASSUME file = "public" PROVE Finishes(p, proc[p].draft, proc[p].token)
    <3>1. PICK state : state = [proc[p] EXCEPT !.key = proc[p].draft]
      OBVIOUS
    <3>2. Filled(proc[p], file) = Advance(state)
      BY <2>2, <3>1 DEF Filled
    <3>3. /\ state \in State /\ state.todo = proc[p].todo
          /\ state.key = proc[p].draft /\ state.token = proc[p].token
      BY <1>1, <3>1 DEF State
    <3>4. Finishes(p, state.key, state.token)
      BY <1>1, <1>3, <3>2, <3>3, AdvanceBecomes
    <3> QED BY <3>3, <3>4
  <2>3. ASSUME file = "token" PROVE Finishes(p, proc[p].key, proc[p].draft)
    <3>1. PICK state : state = [proc[p] EXCEPT !.token = proc[p].draft]
      OBVIOUS
    <3>2. Filled(proc[p], file) = Advance(state)
      BY <2>3, <3>1 DEF Filled
    <3>3. /\ state \in State /\ state.todo = proc[p].todo
          /\ state.token = proc[p].draft /\ state.key = proc[p].key
      BY <1>1, <3>1 DEF State
    <3>4. Finishes(p, state.key, state.token)
      BY <1>1, <1>3, <3>2, <3>3, AdvanceBecomes
    <3> QED BY <3>3, <3>4
  <2> QED BY <1>3, <2>1, <2>2, <2>3
<1> QED BY <1>2, <1>3, Zenon DEF Fill

LEMMA CheckEffect ==
  ASSUME IInv, NEW p \in Processes, Check(p)
  PROVE  \/ Finishes(p, proc[p].key, proc[p].token)
         \/ \E n : Becomes(p, "check", n, proc[p].key, proc[p].token, proc[p].draft)
         \/ proc[p].version \notin recorded /\ Moves(p, "execute")
<1> DEFINE v == proc[p].version
<1>1. TypeOK /\ proc[p] \in State /\ proc[p].todo # <<>> /\ proc[p].at = "check"
  BY DEF IInv, TypeOK, Placed, Check, At, Resting
<1>2. CASE v > Migrations
  <2>1. proc' = [proc EXCEPT ![p] = Advance(proc[p])]
    BY <1>2 DEF Check
  <2> QED BY <1>1, <2>1, AdvanceBecomes
<1>3. CASE ~(v > Migrations) /\ v \in recorded
  <2>1. PICK n : n = v + 1
    OBVIOUS
  <2>2. PICK state : state = [proc[p] EXCEPT !.version = n]
    OBVIOUS
  <2>3. proc' = [proc EXCEPT ![p] = state]
    BY <1>3, <2>1, <2>2 DEF Check
  <2>4. Becomes(p, state.at, state.version, state.key, state.token, state.draft)
    BY <1>1, <2>3, BecomesBy
  <2>5. /\ state.at = "check" /\ state.version = n /\ state.key = proc[p].key
        /\ state.token = proc[p].token /\ state.draft = proc[p].draft
    BY <1>1, <2>2 DEF State
  <2> QED BY <2>4, <2>5
<1>4. CASE ~(v > Migrations) /\ v \notin recorded
  <2>1. Goto(p, "execute")
    BY <1>4 DEF Check, Goto
  <2> QED BY <1>1, <1>4, <2>1, GotoBecomes
<1> QED BY <1>2, <1>3, <1>4

LEMMA CommitEffect ==
  ASSUME IInv, NEW p \in Processes, Commit(p)
  PROVE  \E n : Becomes(p, "check", n, proc[p].key, proc[p].token, proc[p].draft)
<1>1. PICK n : n = proc[p].version + 1
  OBVIOUS
<1>2. PICK state : state = [proc[p] EXCEPT !.at = "check", !.version = n]
  OBVIOUS
<1>3. TypeOK /\ proc[p] \in State
  BY DEF IInv, TypeOK
<1>4. proc' = [proc EXCEPT ![p] = state]
  BY <1>1, <1>2, <1>3 DEF Commit, TypeOK
<1>5. Becomes(p, state.at, state.version, state.key, state.token, state.draft)
  BY <1>3, <1>4, BecomesBy
<1>6. /\ state.at = "check" /\ state.version = n /\ state.key = proc[p].key
      /\ state.token = proc[p].token /\ state.draft = proc[p].draft
  BY <1>2, <1>3 DEF State
<1> QED BY <1>5, <1>6

-----------------------------------------------------------------------------
(* The secrets.                                                            *)

\* What a file may hold instead of a secret.
LEMMA Sentinels ==
  /\ Absent \notin Nat /\ Absent # Empty /\ Empty \in Nat
  /\ ~(Absent > Empty) /\ ~(Empty > Empty)
  /\ \A n \in Nat : n + 1 # Empty
BY DEF Absent, Empty

KeyStages == {"make private", "fill private", "make public", "fill public"}
TokenStages == {"make token", "fill token"}

\* One process at a time generates the key pair.  The private key is on disk
\* from the moment its file is filled, and does not change any more; the public
\* key there, and what processes hold, is the same.
KeyInv == "key" \notin overlapped =>
  /\ \A p, q \in Processes :
       proc[p].at \in KeyStages /\ proc[q].at \in KeyStages => p = q
  /\ \A p \in Processes :
       /\ proc[p].at \in KeyStages => proc[p].draft # Empty
       /\ proc[p].at = "make private" => disk["private"] = Absent
       /\ proc[p].at = "fill private" => disk["private"] = Empty
       /\ proc[p].at \in {"make public", "fill public"} =>
            disk["private"] = proc[p].draft
       /\ proc[p].key # Absent =>
            proc[p].key # Empty /\ proc[p].key = disk["private"]
  /\ disk["public"] > Empty => disk["public"] = disk["private"]

\* One process at a time generates the token, and then the ones that hold the
\* token before it are superseded.  Its file is empty only while it is being
\* filled, or torn.
TokenInv == "token" \notin overlapped =>
  /\ \A p, q \in Processes :
       proc[p].at \in TokenStages /\ proc[q].at \in TokenStages => p = q
  /\ \A p \in Processes :
       /\ proc[p].at \in TokenStages =>
            /\ proc[p].draft # Empty
            /\ \A q \in Processes : proc[q].token # Absent => q \in superseded
       /\ proc[p].at = "fill token" => disk["token"] = Empty
       /\ proc[p].token # Absent /\ p \notin superseded =>
            proc[p].token = disk["token"]
       /\ proc[p].token = Empty => torn
  /\ disk["token"] = Empty =>
       torn \/ \E p \in Processes : proc[p].at = "fill token"

LEMMA SecretsFromInv == KeyInv /\ TokenInv => SecretsAgree
BY DEF KeyInv, TokenInv, SecretsAgree

\* A step of a process that is not about the key pair.
LEMMA KeyUntouched ==
  ASSUME KeyInv, NEW p \in Processes, NEW l, NEW v, NEW k, NEW t, NEW d,
         Becomes(p, l, v, k, t, d),
         l \in KeyStages => l = proc[p].at /\ d = proc[p].draft,
         k \in {proc[p].key, Absent} \/ (k = disk["private"] /\ k # Empty),
         disk'["private"] = disk["private"], disk'["public"] = disk["public"],
         overlapped \subseteq overlapped'
  PROVE  KeyInv'
<1> SUFFICES ASSUME "key" \notin overlapped'
             PROVE  KeyInv'
  BY DEF KeyInv
<1>1. "key" \notin overlapped
  OBVIOUS
<1>2. \A q \in Processes : proc'[q].at \in KeyStages =>
        proc'[q].at = proc[q].at /\ proc'[q].draft = proc[q].draft
  BY DEF Becomes
<1>3. \A q \in Processes :
        \/ proc'[q].key \in {proc[q].key, Absent}
        \/ proc'[q].key = disk["private"] /\ proc'[q].key # Empty
  BY DEF Becomes
<1> QED BY ZenonT(40), <1>1, <1>2, <1>3 DEF KeyInv, KeyStages

\* The history of the token goes on: a process is no longer superseded once it
\* holds no token, and an unfilled file is torn.
Remembers(p, l, t) ==
  /\ overlapped \subseteq overlapped'
  /\ \A q \in superseded : q \in superseded' \/ (q = p /\ t = Absent)
  /\ torn => torn'
  /\ proc[p].at = "fill token" => l = "fill token" \/ torn'

\* A step of a process that is not about the token.
LEMMA TokenUntouched ==
  ASSUME TokenInv, NEW p \in Processes, NEW l, NEW v, NEW k, NEW t, NEW d,
         Becomes(p, l, v, k, t, d), Remembers(p, l, t),
         l \in TokenStages => l = proc[p].at /\ d = proc[p].draft,
         t \in {proc[p].token, Absent}, disk'["token"] = disk["token"]
  PROVE  TokenInv'
<1> SUFFICES ASSUME "token" \notin overlapped'
             PROVE  TokenInv'
  BY DEF TokenInv
<1>1. "token" \notin overlapped
  BY DEF Remembers
<1>2. \A q \in Processes : proc'[q].at \in TokenStages =>
        proc'[q].at = proc[q].at /\ proc'[q].draft = proc[q].draft
  BY DEF Becomes
<1>3. \A q \in Processes : proc'[q].token # Absent =>
        /\ proc'[q].token = proc[q].token
        /\ q \in superseded => q \in superseded'
  BY DEF Becomes, Remembers
<1>4. \A q \in Processes :
        proc[q].at = "fill token" => proc'[q].at = "fill token" \/ torn'
  BY DEF Becomes, Remembers
<1>5. \A q, r \in Processes :
        proc'[q].at \in TokenStages /\ proc'[r].at \in TokenStages => q = r
  BY <1>1, <1>2 DEF TokenInv
<1>6. ASSUME NEW q \in Processes, proc'[q].at \in TokenStages
      PROVE  /\ proc'[q].draft # Empty
             /\ \A r \in Processes : proc'[r].token # Absent => r \in superseded'
  <2>1. proc'[q].at = proc[q].at /\ proc'[q].draft = proc[q].draft
    BY <1>2, <1>6
  <2> QED BY <1>1, <1>3, <1>6, <2>1 DEF TokenInv
<1>7. ASSUME NEW q \in Processes
      PROVE  /\ proc'[q].at = "fill token" => disk'["token"] = Empty
             /\ proc'[q].token # Absent /\ q \notin superseded' =>
                  proc'[q].token = disk'["token"]
  BY <1>1, <1>2, <1>3 DEF TokenInv, TokenStages
<1>8. ASSUME NEW q \in Processes, proc'[q].token = Empty PROVE torn'
  BY <1>1, <1>3, <1>8, Sentinels DEF TokenInv, Remembers
<1>9. disk'["token"] = Empty =>
        torn' \/ \E q \in Processes : proc'[q].at = "fill token"
  BY <1>1, <1>4 DEF TokenInv, Remembers
<1> QED BY <1>5, <1>6, <1>7, <1>8, <1>9 DEF TokenInv

\* Both at once, for the steps that are about neither.
LEMMA SecretsUntouched ==
  ASSUME KeyInv, TokenInv, NEW p \in Processes, NEW l, NEW v, NEW k, NEW t, NEW d,
         Becomes(p, l, v, k, t, d), Remembers(p, l, t),
         l \notin KeyStages \cup TokenStages,
         k \in {proc[p].key, Absent} \/ (k = disk["private"] /\ k # Empty),
         t \in {proc[p].token, Absent}, UNCHANGED disk
  PROVE  KeyInv' /\ TokenInv'
BY KeyUntouched, TokenUntouched DEF Remembers

\* A step that is no death, outside of the token's write.
Aside(p) ==
  /\ UNCHANGED <<disk, superseded, torn>> /\ overlapped \subseteq overlapped'
  /\ proc[p].at # "fill token"

LEMMA FinishedUntouched ==
  ASSUME KeyInv, TokenInv, NEW p \in Processes, NEW k,
         Finishes(p, k, proc[p].token),
         k = proc[p].key \/ (k = disk["private"] /\ k # Empty), Aside(p)
  PROVE  KeyInv' /\ TokenInv'
<1>1. PICK l \in {"ready", "key", "token", "store"} :
        Becomes(p, l, 1, k, proc[p].token, Empty)
  BY DEF Finishes
<1>2. l \notin KeyStages \cup TokenStages
  BY DEF KeyStages, TokenStages
<1>3. Remembers(p, l, proc[p].token)
  BY DEF Aside, Remembers
<1> QED BY <1>1, <1>2, <1>3, SecretsUntouched DEF Aside

LEMMA MovedUntouched ==
  ASSUME KeyInv, TokenInv, NEW p \in Processes, NEW l, Moves(p, l),
         l \notin KeyStages \cup TokenStages, Aside(p)
  PROVE  KeyInv' /\ TokenInv'
<1>1. Remembers(p, l, proc[p].token)
  BY DEF Aside, Remembers
<1> QED BY <1>1, SecretsUntouched DEF Moves, Aside

\* os.Stat of the private key.
LEMMA StatKeySecrets ==
  ASSUME IInv, KeyInv, TokenInv, NEW p \in Processes, StatKey(p)
  PROVE  KeyInv' /\ TokenInv'
<1>1. /\ TypeOK /\ made \in Nat /\ UNCHANGED <<disk, superseded, torn>>
      /\ proc[p].at = "key"
  BY DEF IInv, TypeOK, StatKey, At
<1>2. overlapped \subseteq overlapped'
      /\ ("key" \notin overlapped' => Generating("key") \ {p} = {})
  BY DEF StatKey, Look
<1>2a. Aside(p)
  BY <1>1, <1>2 DEF Aside
<1>3. CASE Goto(p, "load key") \/ Goto(p, "failed")
  BY <1>1, <1>2a, <1>3, GotoBecomes, MovedUntouched DEF KeyStages, TokenStages
<1>4. CASE disk["private"] = Absent /\ Generate(p, "make private")
  <2>1. PICK new : new = made + 1
    OBVIOUS
  <2>1a. new # Empty
    BY <1>1, <2>1, Sentinels
  <2>1b. Becomes(p, "make private", proc[p].version, proc[p].key, proc[p].token, new)
    BY <1>1, <1>4, <2>1, GenerateBecomes
  <2>2. TokenInv'
    <3>1. Remembers(p, "make private", proc[p].token)
      BY <1>2a DEF Aside, Remembers
    <3> QED BY <1>1, <2>1b, <3>1, TokenUntouched DEF TokenStages
  <2>3. KeyInv'
    <3> SUFFICES ASSUME "key" \notin overlapped' PROVE KeyInv'
      BY DEF KeyInv
    <3>1. \A q \in Processes \ {p} :
            proc[q].at \notin KeyStages /\ proc'[q] = proc[q]
      BY <1>2, <2>1b DEF Generating, KeyStages, Becomes
    <3>2. /\ proc'[p].at = "make private" /\ proc'[p].key = proc[p].key
          /\ proc'[p].draft # Empty
      BY <2>1a, <2>1b DEF Becomes
    <3>3. "key" \notin overlapped
      BY <1>2
    <3> QED BY <1>1, <1>4, <3>1, <3>2, <3>3 DEF KeyInv, KeyStages
  <2> QED BY <2>2, <2>3
<1> QED BY <1>3, <1>4 DEF StatKey

LEMMA LoadKeySecrets ==
  ASSUME IInv, KeyInv, TokenInv, NEW p \in Processes, LoadKey(p)
  PROVE  KeyInv' /\ TokenInv'
<1>1. Aside(p)
  BY DEF LoadKey, At, Aside
<1>2. CASE disk["private"] # Empty /\ Finishes(p, disk["private"], proc[p].token)
  BY <1>1, <1>2, FinishedUntouched
<1>3. CASE Moves(p, "failed")
  BY <1>1, <1>3, MovedUntouched DEF KeyStages, TokenStages
<1> QED BY <1>2, <1>3, LoadKeyEffect

LEMMA ReadTokenSecrets ==
  ASSUME IInv, KeyInv, TokenInv, NEW p \in Processes, ReadToken(p)
  PROVE  KeyInv' /\ TokenInv'
<1>1. /\ UNCHANGED <<disk, torn>> /\ proc[p].at = "token" /\ made \in Nat
      /\ superseded \subseteq superseded'
  BY DEF ReadToken, At, IInv, TypeOK
<1>2. overlapped \subseteq overlapped'
      /\ ("token" \notin overlapped' => Generating("token") \ {p} = {})
  BY DEF ReadToken, Look
<1>2a. "token" \notin overlapped' =>
         \A q \in Processes : proc[q].at \notin TokenStages
  BY <1>1, <1>2 DEF Generating, TokenStages
<1>3. CASE /\ disk["token"] # Absent /\ UNCHANGED superseded
           /\ Finishes(p, proc[p].key, disk["token"])
  <2>1. PICK l \in {"ready", "key", "token", "store"} :
          Becomes(p, l, 1, proc[p].key, disk["token"], Empty)
    BY <1>3 DEF Finishes
  <2>2. KeyInv'
    BY <1>1, <1>2, <2>1, KeyUntouched DEF KeyStages
  <2>3. TokenInv'
    <3> SUFFICES ASSUME "token" \notin overlapped' PROVE TokenInv'
      BY DEF TokenInv
    <3>1. \A q \in Processes : proc'[q].at \notin TokenStages
      BY <1>2a, <2>1 DEF TokenStages, Becomes
    <3>2. \A q \in Processes : proc'[q].token \in {proc[q].token, disk["token"]}
      BY <2>1 DEF Becomes
    <3>3. "token" \notin overlapped
      BY <1>2
    <3>4. disk["token"] = Empty => torn
      BY <1>2a, <3>3 DEF TokenInv, TokenStages
    <3> QED BY <1>1, <1>3, <3>1, <3>2, <3>3, <3>4 DEF TokenInv, TokenStages
  <2> QED BY <2>2, <2>3
<1>4. CASE /\ \/ disk["token"] = Absent /\ UNCHANGED superseded
              \/ superseded' = superseded \cup {q \in Processes : proc[q].token # Absent}
           /\ Becomes(p, "make token", proc[p].version, proc[p].key,
                      proc[p].token, made + 1)
  <2>0. PICK new : new = made + 1
    OBVIOUS
  <2>0a. new # Empty
    BY <1>1, <2>0, Sentinels
  <2>0b. Becomes(p, "make token", proc[p].version, proc[p].key, proc[p].token, new)
    BY <1>4, <2>0
  <2>1. KeyInv'
    BY <1>1, <1>2, <2>0b, KeyUntouched DEF KeyStages
  <2>2. TokenInv'
    <3> SUFFICES ASSUME "token" \notin overlapped' PROVE TokenInv'
      BY DEF TokenInv
    <3>1. \A q \in Processes \ {p} :
            proc[q].at \notin TokenStages /\ proc'[q] = proc[q]
      BY <1>2a, <2>0b DEF Becomes
    <3>2. /\ proc'[p].at = "make token" /\ proc'[p].token = proc[p].token
          /\ proc'[p].draft # Empty
      BY <2>0a, <2>0b DEF Becomes
    <3>3. "token" \notin overlapped
      BY <1>2
    <3>4. \A q \in Processes : proc[q].token # Absent => q \in superseded'
      BY <1>1, <1>4, <3>3 DEF TokenInv
    <3>5. disk["token"] = Empty => torn
      BY <1>2a, <3>3 DEF TokenInv, TokenStages
    <3>6. \A q \in Processes :
            /\ proc'[q].token = proc[q].token /\ proc'[q].at # "fill token"
            /\ proc'[q].at \in TokenStages => q = p
      BY <3>1, <3>2 DEF TokenStages
    <3> QED BY <1>1, <3>2, <3>3, <3>4, <3>5, <3>6 DEF TokenInv
  <2> QED BY <2>1, <2>2
<1> QED BY <1>3, <1>4, ReadTokenEffect

LEMMA TruncateSecrets ==
  ASSUME IInv, KeyInv, TokenInv, NEW p \in Processes,
         \/ Truncate(p, "make private", "private", "fill private")
         \/ Truncate(p, "make public", "public", "fill public")
         \/ Truncate(p, "make token", "token", "fill token")
  PROVE  KeyInv' /\ TokenInv'
<1>0. TypeOK /\ disk \in [Files -> Nat \cup {Absent}]
  BY DEF IInv, TypeOK
<1>1. UNCHANGED <<overlapped, superseded, torn>>
  BY DEF Truncate, history
<1>2. CASE Truncate(p, "make private", "private", "fill private")
  <2>1. /\ Moves(p, "fill private") /\ proc[p].at = "make private"
        /\ disk'["private"] = Empty /\ disk'["public"] = disk["public"]
        /\ disk'["token"] = disk["token"]
    BY <1>0, <1>2, GotoBecomes DEF Truncate, At, Files
  <2>2. TokenInv'
    BY <1>1, <2>1, TokenUntouched DEF TokenStages, Moves, Remembers
  <2>3. KeyInv'
    <3> SUFFICES ASSUME "key" \notin overlapped PROVE KeyInv'
      BY <1>1 DEF KeyInv
    <3>1. \A q \in Processes \ {p} :
            proc[q].at \notin KeyStages /\ proc'[q] = proc[q]
      BY <2>1 DEF KeyInv, KeyStages, Moves, Becomes
    <3>2. /\ proc'[p].at = "fill private" /\ proc'[p].key = proc[p].key
          /\ proc'[p].draft = proc[p].draft
      BY <2>1 DEF Moves, Becomes
    <3>3. disk["private"] = Absent /\ \A q \in Processes : proc[q].key = Absent
      BY <2>1 DEF KeyInv
    <3>4. ~(disk["public"] > Empty)
      BY <3>3, Sentinels DEF KeyInv
    <3> QED BY ZenonT(40), <1>1, <2>1, <3>1, <3>2, <3>3, <3>4 DEF KeyInv, KeyStages
  <2> QED BY <2>2, <2>3
<1>3. CASE Truncate(p, "make public", "public", "fill public")
  <2>1. /\ Moves(p, "fill public") /\ proc[p].at = "make public"
        /\ disk'["private"] = disk["private"] /\ disk'["public"] = Empty
        /\ disk'["token"] = disk["token"]
    BY <1>0, <1>3, GotoBecomes DEF Truncate, At, Files
  <2>2. TokenInv'
    BY <1>1, <2>1, TokenUntouched DEF TokenStages, Moves, Remembers
  <2>3. KeyInv'
    <3> SUFFICES ASSUME "key" \notin overlapped PROVE KeyInv'
      BY <1>1 DEF KeyInv
    <3>1. \A q \in Processes \ {p} :
            proc[q].at \notin KeyStages /\ proc'[q] = proc[q]
      BY <2>1 DEF KeyInv, KeyStages, Moves, Becomes
    <3>2. /\ proc'[p].at = "fill public" /\ proc'[p].key = proc[p].key
          /\ proc'[p].draft = proc[p].draft
      BY <2>1 DEF Moves, Becomes
    <3>3. ~(Empty > Empty)
      BY Sentinels
    <3> QED BY ZenonT(40), <1>1, <2>1, <3>1, <3>2, <3>3 DEF KeyInv, KeyStages
  <2> QED BY <2>2, <2>3
<1>4. CASE Truncate(p, "make token", "token", "fill token")
  <2>1. /\ Moves(p, "fill token") /\ proc[p].at = "make token"
        /\ disk'["private"] = disk["private"] /\ disk'["public"] = disk["public"]
        /\ disk'["token"] = Empty
    BY <1>0, <1>4, GotoBecomes DEF Truncate, At, Files
  <2>2. KeyInv'
    BY <1>1, <2>1, KeyUntouched DEF KeyStages, Moves
  <2>3. TokenInv'
    <3> SUFFICES ASSUME "token" \notin overlapped PROVE TokenInv'
      BY <1>1 DEF TokenInv
    <3>1. \A q \in Processes \ {p} :
            proc[q].at \notin TokenStages /\ proc'[q] = proc[q]
      BY <2>1 DEF TokenInv, TokenStages, Moves, Becomes
    <3>2. /\ proc'[p].at = "fill token" /\ proc'[p].token = proc[p].token
          /\ proc'[p].draft = proc[p].draft
      BY <2>1 DEF Moves, Becomes
    <3>3. /\ proc[p].draft # Empty
          /\ \A q \in Processes : proc[q].token # Absent => q \in superseded
      BY <2>1 DEF TokenInv, TokenStages
    <3>4. \A q \in Processes :
            /\ proc'[q].token = proc[q].token
            /\ proc'[q].at \in TokenStages => q = p
      BY <3>1, <3>2
    <3> QED BY <1>1, <2>1, <3>2, <3>3, <3>4 DEF TokenInv
  <2> QED BY <2>2, <2>3
<1> QED BY <1>2, <1>3, <1>4

LEMMA FillSecrets ==
  ASSUME IInv, KeyInv, TokenInv, NEW p \in Processes,
         \/ Fill(p, "fill private", "private")
         \/ Fill(p, "fill public", "public")
         \/ Fill(p, "fill token", "token")
  PROVE  KeyInv' /\ TokenInv'
<1>0. disk \in [Files -> Nat \cup {Absent}]
  BY DEF IInv, TypeOK
<1>1. UNCHANGED <<overlapped, superseded>>
  BY DEF Fill
<1>2. ASSUME disk' = disk, Moves(p, "failed"), torn => torn',
             proc[p].at = "fill token" => torn'
      PROVE  KeyInv' /\ TokenInv'
  BY <1>1, <1>2, SecretsUntouched DEF KeyStages, TokenStages, Moves, Remembers
<1>3. CASE /\ proc[p].at = "fill private" /\ Moves(p, "make public")
           /\ torn' = torn
           /\ disk' = [disk EXCEPT !["private"] = proc[p].draft]
  <2>1. /\ disk'["private"] = proc[p].draft /\ disk'["public"] = disk["public"]
        /\ disk'["token"] = disk["token"]
    BY <1>0, <1>3 DEF Files
  <2>2. TokenInv'
    BY <1>1, <1>3, <2>1, TokenUntouched DEF TokenStages, Moves, Remembers
  <2>3. KeyInv'
    <3> SUFFICES ASSUME "key" \notin overlapped PROVE KeyInv'
      BY <1>1 DEF KeyInv
    <3>1. \A q \in Processes \ {p} :
            proc[q].at \notin KeyStages /\ proc'[q] = proc[q]
      BY <1>3 DEF KeyInv, KeyStages, Moves, Becomes
    <3>2. /\ proc'[p].at = "make public" /\ proc'[p].key = proc[p].key
          /\ proc'[p].draft = proc[p].draft
      BY <1>3 DEF Moves, Becomes
    <3>3. /\ disk["private"] = Empty /\ proc[p].draft # Empty
          /\ \A q \in Processes : proc[q].key = Absent
      BY <1>3 DEF KeyInv, KeyStages
    <3>4. ~(disk["public"] > Empty)
      BY <3>3, Sentinels DEF KeyInv
    <3> QED BY ZenonT(40), <1>1, <2>1, <3>1, <3>2, <3>3, <3>4 DEF KeyInv, KeyStages
  <2> QED BY <2>2, <2>3
<1>4. CASE /\ proc[p].at = "fill public"
           /\ torn' = torn
           /\ Finishes(p, proc[p].draft, proc[p].token)
           /\ disk' = [disk EXCEPT !["public"] = proc[p].draft]
  <2>1. /\ disk'["private"] = disk["private"] /\ disk'["public"] = proc[p].draft
        /\ disk'["token"] = disk["token"]
    BY <1>0, <1>4 DEF Files
  <2>2. PICK l \in {"ready", "key", "token", "store"} :
          Becomes(p, l, 1, proc[p].draft, proc[p].token, Empty)
    BY <1>4 DEF Finishes
  <2>3. TokenInv'
    BY <1>1, <1>4, <2>1, <2>2, TokenUntouched DEF TokenStages, Remembers
  <2>4. KeyInv'
    <3> SUFFICES ASSUME "key" \notin overlapped PROVE KeyInv'
      BY <1>1 DEF KeyInv
    <3>1. \A q \in Processes \ {p} :
            proc[q].at \notin KeyStages /\ proc'[q] = proc[q]
      BY <1>4, <2>2 DEF KeyInv, KeyStages, Becomes
    <3>2. proc'[p].at \notin KeyStages /\ proc'[p].key = proc[p].draft
      BY <2>2 DEF Becomes, KeyStages
    <3>3. disk["private"] = proc[p].draft /\ proc[p].draft # Empty
      BY <1>4 DEF KeyInv, KeyStages
    <3> QED BY <1>1, <2>1, <3>1, <3>2, <3>3 DEF KeyInv, KeyStages
  <2> QED BY <2>3, <2>4
<1>5. CASE /\ proc[p].at = "fill token"
           /\ torn' = torn
           /\ Finishes(p, proc[p].key, proc[p].draft)
           /\ disk' = [disk EXCEPT !["token"] = proc[p].draft]
  <2>1. /\ disk'["private"] = disk["private"] /\ disk'["public"] = disk["public"]
        /\ disk'["token"] = proc[p].draft
    BY <1>0, <1>5 DEF Files
  <2>2. PICK l \in {"ready", "key", "token", "store"} :
          Becomes(p, l, 1, proc[p].key, proc[p].draft, Empty)
    BY <1>5 DEF Finishes
  <2>3. KeyInv'
    BY <1>1, <2>1, <2>2, KeyUntouched DEF KeyStages
  <2>4. TokenInv'
    <3> SUFFICES ASSUME "token" \notin overlapped PROVE TokenInv'
      BY <1>1 DEF TokenInv
    <3>1. \A q \in Processes \ {p} :
            proc[q].at \notin TokenStages /\ proc'[q] = proc[q]
      BY <1>5, <2>2 DEF TokenInv, TokenStages, Becomes
    <3>2. proc'[p].at \notin TokenStages /\ proc'[p].token = proc[p].draft
      BY <2>2 DEF Becomes, TokenStages
    <3>3. /\ proc[p].draft # Empty
          /\ \A q \in Processes : proc[q].token # Absent => q \in superseded
      BY <1>5 DEF TokenInv, TokenStages
    <3>4. \A q \in Processes : proc'[q].at \notin TokenStages
      BY <3>1, <3>2
    <3>5. ASSUME NEW q \in Processes
          PROVE  /\ proc'[q].token # Absent /\ q \notin superseded' =>
                      proc'[q].token = disk'["token"]
                 /\ proc'[q].token = Empty => torn'
      <4>1. CASE q = p
        BY <2>1, <3>2, <3>3, <4>1
      <4>2. CASE q # p
        BY <1>1, <1>5, <3>1, <3>3, <4>2 DEF TokenInv
      <4> QED BY <4>1, <4>2
    <3>6. disk'["token"] # Empty
      BY <2>1, <3>3
    <3> QED BY <3>4, <3>5, <3>6 DEF TokenInv, TokenStages
  <2> QED BY <2>3, <2>4
<1>6. CASE Fill(p, "fill private", "private")
  <2>1. proc[p].at = "fill private"
    BY <1>6 DEF Fill, At
  <2> QED BY <1>2, <1>3, <1>6, <2>1, FillEffect DEF Files, Resting
<1>7. CASE Fill(p, "fill public", "public")
  <2>1. proc[p].at = "fill public"
    BY <1>7 DEF Fill, At
  <2> QED BY <1>2, <1>4, <1>7, <2>1, FillEffect DEF Files, Resting
<1>8. CASE Fill(p, "fill token", "token")
  <2>1. proc[p].at = "fill token"
    BY <1>8 DEF Fill, At
  <2> QED BY <1>2, <1>5, <1>8, <2>1, FillEffect DEF Files, Resting
<1> QED BY <1>6, <1>7, <1>8

\* The database has nothing to do with the secrets.
LEMMA DatabaseSecrets ==
  ASSUME IInv, KeyInv, TokenInv, NEW p \in Processes,
         OpenStore(p) \/ Check(p) \/ Execute(p) \/ Record(p) \/ Commit(p)
  PROVE  KeyInv' /\ TokenInv'
<1>0. TypeOK
  BY DEF IInv
<1>1. Aside(p)
  BY DEF OpenStore, Check, Execute, Record, Commit, At, secrets, history, Aside
<1>2. ASSUME NEW l \in {"check", "failed", "record", "commit", "execute"}, Moves(p, l)
      PROVE  KeyInv' /\ TokenInv'
  BY <1>1, <1>2, MovedUntouched DEF KeyStages, TokenStages
<1>3. ASSUME NEW n, Becomes(p, "check", n, proc[p].key, proc[p].token, proc[p].draft)
      PROVE  KeyInv' /\ TokenInv'
  <2>1. Remembers(p, "check", proc[p].token) /\ UNCHANGED disk
    BY <1>1 DEF Aside, Remembers
  <2> QED BY <1>3, <2>1, SecretsUntouched DEF KeyStages, TokenStages
<1>4. CASE OpenStore(p)
  <2>1. Goto(p, "check") \/ Goto(p, "failed")
    BY <1>4 DEF OpenStore
  <2> QED BY <1>0, <1>2, <2>1, GotoBecomes
<1>5. CASE Check(p)
  BY <1>1, <1>2, <1>3, <1>5, CheckEffect, FinishedUntouched
<1>6. CASE Execute(p)
  <2>1. Goto(p, "record") \/ Goto(p, "failed")
    BY <1>6 DEF Execute
  <2> QED BY <1>0, <1>2, <2>1, GotoBecomes
<1>7. CASE Record(p)
  <2>1. Goto(p, "commit") \/ Goto(p, "failed")
    BY <1>7 DEF Record
  <2> QED BY <1>0, <1>2, <2>1, GotoBecomes
<1>8. CASE Commit(p)
  BY <1>3, <1>8, CommitEffect
<1> QED BY <1>4, <1>5, <1>6, <1>7, <1>8

LEMMA SecretsStep == IInv /\ KeyInv /\ TokenInv /\ [Next]_vars => KeyInv' /\ TokenInv'
<1> SUFFICES ASSUME IInv, KeyInv, TokenInv, [Next]_vars PROVE KeyInv' /\ TokenInv'
  OBVIOUS
<1>1. CASE UNCHANGED vars
  BY <1>1 DEF vars, KeyInv, TokenInv
<1>2. ASSUME NEW p \in Processes, Start(p) PROVE KeyInv' /\ TokenInv'
  <2>1. PICK l \in {"key", "store"} : Becomes(p, l, 1, Absent, Absent, Empty)
    BY <1>2, StartEffect DEF IInv
  <2>2. UNCHANGED disk /\ l \notin KeyStages \cup TokenStages
        /\ Remembers(p, l, Absent)
    BY <1>2 DEF Start, At, secrets, KeyStages, TokenStages, Remembers
  <2> QED BY <2>1, <2>2, SecretsUntouched
<1>3. ASSUME NEW p \in Processes, Die(p) PROVE KeyInv' /\ TokenInv'
  <2>1. Becomes(p, "down", 1, Absent, Absent, Empty)
    BY <1>3, DieEffect DEF IInv
  <2>2. UNCHANGED disk /\ "down" \notin KeyStages \cup TokenStages
        /\ Remembers(p, "down", Absent)
    BY <1>3 DEF Die, At, secrets, KeyStages, TokenStages, Remembers
  <2> QED BY <2>1, <2>2, SecretsUntouched
<1>4. ASSUME NEW p \in Processes, Open(p) PROVE KeyInv' /\ TokenInv'
  BY <1>4, StatKeySecrets, LoadKeySecrets, TruncateSecrets, FillSecrets,
     ReadTokenSecrets, DatabaseSecrets DEF Open, WriteKey, WriteToken
<1> QED BY <1>1, <1>2, <1>3, <1>4 DEF Next

\* The key and the token in a process' hands are the ones on disk, and the two
\* halves of the key pair belong together, however many processes open the
\* directory, die, or fail to read or to write, with three exceptions: two
\* generated at once; a token that could not be read was replaced under the
\* processes that hold it; a token's file left truncated is served as an empty
\* token (LoadOrGenerate, LoadOrGenerateToken).
THEOREM SecretsAlwaysAgree == Spec => []SecretsAgree
<1>1. Init => KeyInv /\ TokenInv
  <2> SUFFICES ASSUME Init PROVE KeyInv /\ TokenInv
    OBVIOUS
  <2>1. \A p \in Processes : /\ proc[p].at = "down" /\ proc[p].key = Absent
                             /\ proc[p].token = Absent
    BY DEF Init, Idle
  <2>2. ~(disk["public"] > Empty) /\ disk["token"] # Empty
    BY Sentinels DEF Init, Files
  <2> QED BY <2>1, <2>2, Sentinels DEF KeyInv, TokenInv, KeyStages, TokenStages
<1>2. IInv /\ KeyInv /\ TokenInv /\ [Next]_vars => (KeyInv /\ TokenInv)'
  BY SecretsStep
<1> QED BY <1>1, <1>2, SecretsFromInv, InvInit, InvStep, PTL DEF Spec

-----------------------------------------------------------------------------
(* Opening again.                                                          *)

\* The write lock is a transaction's, and a key about to be written is a key.
\* Commands that come one after the other find the private key whole or absent,
\* and the migrations they are about to run not recorded.
OpenInv ==
  /\ \A p \in writer : proc[p].at \in InTransaction
  /\ \A p \in Processes :
       proc[p].at \in {"make private", "fill private"} => proc[p].draft # Empty
  /\ ~disturbed =>
       /\ \A p, q \in Processes :
            proc[p].at \notin Resting /\ proc[q].at \notin Resting => p = q
       /\ disk["private"] = Empty => \E p \in Processes : proc[p].at = "fill private"
       /\ \A p \in Processes :
            /\ proc[p].at # "failed"
            /\ proc[p].at = "load key" => disk["private"] # Absent
            /\ proc[p].at \in {"execute", "record"} =>
                 proc[p].version \notin recorded

\* What a process that is opening the directory undisturbed can rely on.
LEMMA Undisturbed ==
  ASSUME OpenInv, NEW p \in Processes, proc[p].at \notin Resting, ~disturbed
  PROVE  /\ \A q \in Processes \ {p} : proc[q].at \in Resting \ {"failed"}
         /\ disk["private"] = Empty => proc[p].at = "fill private"
         /\ proc[p].at = "load key" => disk["private"] # Absent
         /\ proc[p].at \in {"execute", "record"} => proc[p].version \notin recorded
BY DEF OpenInv, Resting

\* Only p moves.
Alone(p) == \A q \in Processes \ {p} : proc'[q] = proc[q]

LEMMA MovesTo ==
  ASSUME NEW p \in Processes, NEW l, Moves(p, l)
  PROVE  /\ Alone(p) /\ proc'[p].at = l
         /\ proc'[p].version = proc[p].version /\ proc'[p].draft = proc[p].draft
BY DEF Moves, Becomes, Alone

LEMMA BecomesAt ==
  ASSUME NEW p \in Processes, NEW l, NEW v, NEW k, NEW t, NEW d,
         Becomes(p, l, v, k, t, d)
  PROVE  Alone(p) /\ proc'[p].at = l /\ proc'[p].draft = d
BY DEF Becomes, Alone

LEMMA FinishesAt ==
  ASSUME NEW p \in Processes, NEW k, NEW t, Finishes(p, k, t)
  PROVE  Alone(p) /\ proc'[p].at \in {"ready", "key", "token", "store"}
BY DEF Finishes, Becomes, Alone

LEMMA OpeningStep ==
  ASSUME OpenInv, writer \subseteq Processes,
         NEW p \in Processes, proc[p].at \notin Resting, Alone(p),
         writer' \subseteq writer \cup {p},
         p \in writer' => proc'[p].at \in InTransaction,
         proc'[p].at \in {"make private", "fill private"} =>
           proc'[p].draft # Empty,
         disturbed => disturbed',
         ~disturbed' =>
           /\ proc'[p].at # "failed"
           /\ disk'["private"] = Empty => proc'[p].at = "fill private"
           /\ proc'[p].at = "load key" => disk'["private"] # Absent
           /\ proc'[p].at \in {"execute", "record"} =>
                proc'[p].version \notin recorded'
  PROVE  OpenInv'
<1>1. \A q \in writer' : proc'[q].at \in InTransaction
  <2> SUFFICES ASSUME NEW q \in writer' PROVE proc'[q].at \in InTransaction
    OBVIOUS
  <2>1. CASE q = p
    BY <2>1
  <2>2. CASE q # p
    <3>1. q \in writer /\ proc[q].at \in InTransaction
      BY <2>2 DEF OpenInv
    <3> QED BY <2>2, <3>1 DEF Alone
  <2> QED BY <2>1, <2>2
<1>2. ASSUME ~disturbed'
      PROVE  /\ \A r, q \in Processes :
                  proc'[r].at \notin Resting /\ proc'[q].at \notin Resting => r = q
             /\ disk'["private"] = Empty =>
                  \E q \in Processes : proc'[q].at = "fill private"
             /\ \A q \in Processes :
                  /\ proc'[q].at # "failed"
                  /\ proc'[q].at = "load key" => disk'["private"] # Absent
                  /\ proc'[q].at \in {"execute", "record"} =>
                       proc'[q].version \notin recorded'
  <2>1. \A q \in Processes \ {p} :
          proc'[q] = proc[q] /\ proc'[q].at \in Resting \ {"failed"}
    BY <1>2, Undisturbed DEF Alone
  <2> QED BY <1>2, <2>1 DEF Resting
<1>3. \A q \in Processes :
        proc'[q].at \in {"make private", "fill private"} => proc'[q].draft # Empty
  BY DEF OpenInv, Alone
<1> QED BY <1>1, <1>2, <1>3 DEF OpenInv

LEMMA StartOpens ==
  ASSUME IInv, OpenInv, NEW p \in Processes, Start(p)
  PROVE  OpenInv'
<1>1. PICK l \in {"key", "store"} : Becomes(p, l, 1, Absent, Absent, Empty)
  BY StartEffect DEF IInv
<1>2. /\ proc[p].at = "down" /\ UNCHANGED <<disk, writer, recorded>>
      /\ disturbed' = (disturbed \/ Opening # {}) /\ writer \subseteq Processes
  BY DEF Start, At, secrets, database, IInv, TypeOK
<1>3. \A q \in Processes \ {p} : proc'[q] = proc[q]
  BY <1>1 DEF Becomes
<1>4. proc'[p].at \in {"key", "store"}
  BY <1>1 DEF Becomes
<1>5. \A q \in writer : proc'[q].at \in InTransaction
  BY <1>2, <1>3 DEF OpenInv, InTransaction
<1>6. ASSUME ~disturbed'
      PROVE  /\ ~disturbed /\ \A q \in Processes : proc[q].at \in Resting
             /\ disk["private"] # Empty
  <2>1. ~disturbed /\ \A q \in Processes : proc[q].at \in Resting
    BY <1>2, <1>6 DEF Opening, Resting
  <2> QED BY <2>1 DEF OpenInv, Resting
<1> QED BY <1>2, <1>3, <1>4, <1>5, <1>6 DEF OpenInv, Resting

LEMMA DieOpens ==
  ASSUME IInv, OpenInv, NEW p \in Processes, Die(p)
  PROVE  OpenInv'
<1>1. Becomes(p, "down", 1, Absent, Absent, Empty)
  BY DieEffect DEF IInv
<1>2. /\ UNCHANGED <<disk, recorded>> /\ writer' = writer \ {p}
      /\ disturbed' = (disturbed \/ proc[p].at = "fill private")
      /\ writer \subseteq Processes
  BY DEF Die, At, secrets, IInv, TypeOK
<1>3. \A q \in Processes \ {p} : proc'[q] = proc[q]
  BY <1>1 DEF Becomes
<1>4. proc'[p].at = "down"
  BY <1>1 DEF Becomes
<1>5. \A q \in writer' : proc'[q].at \in InTransaction
  BY <1>2, <1>3 DEF OpenInv
<1> QED BY <1>2, <1>3, <1>4, <1>5 DEF OpenInv, Resting

\* The steps for a secret.
LEMMA SecretOpens ==
  ASSUME IInv, OpenInv, NEW p \in Processes,
         StatKey(p) \/ LoadKey(p) \/ ReadToken(p)
  PROVE  OpenInv'
<1>1. /\ proc[p].at \in {"key", "load key", "token"} /\ TypeOK /\ made \in Nat
      /\ proc[p].at \notin Resting /\ UNCHANGED <<disk, writer>>
      /\ writer \subseteq Processes /\ p \notin writer
      /\ disturbed => disturbed'
  BY DEF StatKey, LoadKey, ReadToken, At, Resting, secrets, database, history, IInv,
         TypeOK, OpenInv, InTransaction
<1>2. ASSUME Alone(p), proc'[p].at \notin {"failed", "execute", "record"},
             proc'[p].at \in {"make private", "fill private"} =>
               proc'[p].draft # Empty,
             proc'[p].at = "load key" => disk["private"] # Absent
      PROVE  OpenInv'
  <2>1. ~disturbed => disk["private"] # Empty
    BY <1>1, Undisturbed
  <2> QED BY <1>1, <1>2, <2>1, OpeningStep
<1>3. ASSUME NEW k, NEW t, Finishes(p, k, t) PROVE OpenInv'
  BY <1>2, <1>3, FinishesAt
<1>3a. ASSUME disturbed', Alone(p), proc'[p].at = "failed" PROVE OpenInv'
  BY <1>1, <1>3a, OpeningStep
<1>4. CASE StatKey(p)
  <2>1. CASE disk["private"] = Absent /\ Generate(p, "make private")
    <3>1. PICK new : new = made + 1
      OBVIOUS
    <3>2. new # Empty
      BY <1>1, <3>1, Sentinels
    <3>3. Becomes(p, "make private", proc[p].version, proc[p].key,
                  proc[p].token, new)
      BY <1>1, <2>1, <3>1, GenerateBecomes
    <3>4. Alone(p) /\ proc'[p].at = "make private" /\ proc'[p].draft = new
      BY <3>3, BecomesAt
    <3> QED BY <1>2, <3>2, <3>4
  <2>2. CASE disk["private"] # Absent /\ Goto(p, "load key")
    <3>1. Alone(p) /\ proc'[p].at = "load key"
      BY <1>1, <2>2, GotoBecomes, MovesTo
    <3> QED BY <1>2, <2>2, <3>1
  <2>3. CASE Goto(p, "failed") /\ disturbed'
    <3>1. Alone(p) /\ proc'[p].at = "failed"
      BY <1>1, <2>3, GotoBecomes, MovesTo
    <3> QED BY <1>3a, <2>3, <3>1
  <2> QED BY <1>4, <2>1, <2>2, <2>3 DEF StatKey
<1>5. CASE LoadKey(p)
  <2>1. CASE (disk["private"] = Empty \/ disturbed') /\ Moves(p, "failed")
    <3>1. disturbed'
      <4>1. CASE disk["private"] = Empty
        BY <1>1, <1>5, <4>1, Undisturbed DEF LoadKey, At
      <4> QED BY <2>1, <4>1
    <3>2. Alone(p) /\ proc'[p].at = "failed"
      BY <2>1, MovesTo
    <3> QED BY <1>3a, <3>1, <3>2
  <2> QED BY <1>3, <1>5, <2>1, LoadKeyEffect
<1>6. CASE ReadToken(p)
  <2>1. CASE Becomes(p, "make token", proc[p].version, proc[p].key,
                     proc[p].token, made + 1)
    <3>1. Alone(p) /\ proc'[p].at = "make token"
      BY <2>1, BecomesAt
    <3> QED BY <1>2, <3>1
  <2> QED BY <1>3, <1>6, <2>1, ReadTokenEffect
<1> QED BY <1>4, <1>5, <1>6

LEMMA WriteOpens ==
  ASSUME IInv, OpenInv, NEW p \in Processes, WriteKey(p) \/ WriteToken(p)
  PROVE  OpenInv'
<1>0. /\ TypeOK /\ disk \in [Files -> Nat \cup {Absent}] /\ writer \subseteq Processes
      /\ proc[p].at \notin Resting \cup InTransaction
  BY DEF IInv, TypeOK, WriteKey, WriteToken, Truncate, Fill, At, Resting, InTransaction
<1>1. UNCHANGED <<recorded, writer>> /\ p \notin writer
  BY <1>0 DEF WriteKey, WriteToken, Truncate, Fill, database, OpenInv
<1>2. ASSUME disturbed', Moves(p, "failed") PROVE OpenInv'
  <2>1. Alone(p) /\ proc'[p].at = "failed"
    BY <1>2, MovesTo
  <2> QED BY <1>0, <1>1, <1>2, <2>1, OpeningStep
<1>3. ASSUME Alone(p),
             proc'[p].at \notin {"failed", "load key", "execute", "record"},
             proc'[p].at \in {"make private", "fill private"} =>
               proc'[p].draft # Empty,
             disturbed' = disturbed,
             ~disturbed /\ disk'["private"] = Empty => proc'[p].at = "fill private"
      PROVE  OpenInv'
  BY <1>0, <1>1, <1>3, OpeningStep
<1>4. ASSUME NEW k, NEW t, Finishes(p, k, t), disturbed' = disturbed,
             ~disturbed => disk'["private"] # Empty
      PROVE  OpenInv'
  BY <1>3, <1>4, FinishesAt
<1>5. ASSUME proc[p].at # "fill private", ~disturbed PROVE disk["private"] # Empty
  BY <1>0, <1>5, Undisturbed
<1>6. CASE Truncate(p, "make private", "private", "fill private")
  <2>1. Moves(p, "fill private") /\ disturbed' = disturbed
    BY <1>0, <1>6, GotoBecomes DEF Truncate, history
  <2>2. proc[p].draft # Empty
    BY <1>6 DEF Truncate, At, OpenInv
  <2>3. Alone(p) /\ proc'[p].at = "fill private" /\ proc'[p].draft # Empty
    BY <2>1, <2>2, MovesTo
  <2> QED BY <1>3, <2>1, <2>3
<1>7. CASE \/ Truncate(p, "make public", "public", "fill public")
           \/ Truncate(p, "make token", "token", "fill token")
  <2>1. /\ Moves(p, "fill public") \/ Moves(p, "fill token")
        /\ disturbed' = disturbed /\ proc[p].at # "fill private"
        /\ disk'["private"] = disk["private"]
    BY <1>0, <1>7, GotoBecomes DEF Truncate, At, Files, history
  <2>2. Alone(p) /\ proc'[p].at \in {"fill public", "fill token"}
    BY <2>1, MovesTo
  <2> QED BY <1>3, <1>5, <2>1, <2>2
<1>8. CASE Fill(p, "fill private", "private")
  <2>1. CASE disturbed' /\ Moves(p, "failed")
    BY <1>2, <2>1
  <2>2. CASE /\ disk' = [disk EXCEPT !["private"] = proc[p].draft]
             /\ disturbed' = disturbed /\ Moves(p, "make public")
    <3>1. disk'["private"] = proc[p].draft /\ proc[p].at = "fill private"
      BY <1>0, <1>8, <2>2 DEF Files, Fill, At
    <3>2. proc[p].draft # Empty
      BY <3>1 DEF OpenInv
    <3>3. Alone(p) /\ proc'[p].at = "make public"
      BY <2>2, MovesTo
    <3> QED BY <1>3, <2>2, <3>1, <3>2, <3>3
  <2> QED BY <1>8, <2>1, <2>2, FillEffect DEF Files, Resting
<1>9. CASE Fill(p, "fill public", "public") \/ Fill(p, "fill token", "token")
  <2>1. CASE disturbed' /\ Moves(p, "failed")
    BY <1>2, <2>1
  <2>2. ASSUME NEW file \in {"public", "token"}, NEW k, NEW t, Finishes(p, k, t),
               disk' = [disk EXCEPT ![file] = proc[p].draft], disturbed' = disturbed
        PROVE  OpenInv'
    <3>1. disk'["private"] = disk["private"] /\ proc[p].at # "fill private"
      BY <1>0, <1>9, <2>2 DEF Files, Fill, At
    <3> QED BY <1>4, <1>5, <2>2, <3>1
  <2>3. CASE Fill(p, "fill public", "public")
    BY <2>1, <2>2, <2>3, FillEffect DEF Files, Resting
  <2>4. CASE Fill(p, "fill token", "token")
    BY <2>1, <2>2, <2>4, FillEffect DEF Files, Resting
  <2> QED BY <1>9, <2>3, <2>4
<1> QED BY <1>6, <1>7, <1>8, <1>9 DEF WriteKey, WriteToken

LEMMA DatabaseOpens ==
  ASSUME IInv, OpenInv, NEW p \in Processes,
         OpenStore(p) \/ Check(p) \/ Execute(p) \/ Record(p) \/ Commit(p)
  PROVE  OpenInv'
<1>0. /\ TypeOK /\ writer \subseteq Processes
      /\ proc[p].at \in {"store", "check", "execute", "record", "commit"}
      /\ proc[p].at \notin Resting /\ UNCHANGED <<disk, disturbed>>
  BY DEF IInv, TypeOK, OpenStore, Check, Execute, Record, Commit, At, Resting,
         secrets, history
<1>1. ~disturbed => /\ \A q \in Processes \ {p} : proc[q].at \in Resting
                    /\ disk["private"] # Empty
  BY <1>0, Undisturbed
<1>2. ASSUME Alone(p),
             proc'[p].at \notin {"load key", "make private", "fill private"},
             writer' \subseteq writer \cup {p},
             p \in writer' => proc'[p].at \in InTransaction,
             ~disturbed => proc'[p].at # "failed",
             ~disturbed /\ proc'[p].at \in {"execute", "record"} =>
               proc'[p].version \notin recorded'
      PROVE  OpenInv'
  BY <1>0, <1>1, <1>2, OpeningStep
<1>3. CASE OpenStore(p)
  <2>1. UNCHANGED writer /\ p \notin writer
    BY <1>3 DEF OpenStore, database, OpenInv, InTransaction, At
  <2>2. CASE Goto(p, "check")
    <3>1. Alone(p) /\ proc'[p].at = "check"
      BY <1>0, <2>2, GotoBecomes, MovesTo
    <3> QED BY <1>2, <2>1, <3>1
  <2>3. CASE (Migrating \ {p}) # {} /\ Goto(p, "failed")
    <3>1. disturbed
      BY <1>1, <2>3 DEF Migrating, Resting
    <3>2. Alone(p) /\ proc'[p].at = "failed"
      BY <1>0, <2>3, GotoBecomes, MovesTo
    <3> QED BY <1>2, <2>1, <3>1, <3>2
  <2> QED BY <1>3, <2>2, <2>3 DEF OpenStore
<1>4. CASE Check(p)
  <2>1. UNCHANGED <<writer, recorded>> /\ p \notin writer
    BY <1>4 DEF Check, database, OpenInv, InTransaction, At
  <2>2. CASE Finishes(p, proc[p].key, proc[p].token)
    <3>1. Alone(p) /\ proc'[p].at \in {"ready", "key", "token", "store"}
      BY <2>2, FinishesAt
    <3> QED BY <1>2, <2>1, <3>1
  <2>3. ASSUME NEW n,
               Becomes(p, "check", n, proc[p].key, proc[p].token, proc[p].draft)
        PROVE  OpenInv'
    <3>1. Alone(p) /\ proc'[p].at = "check"
      BY <2>3, BecomesAt
    <3> QED BY <1>2, <2>1, <3>1
  <2>4. CASE proc[p].version \notin recorded /\ Moves(p, "execute")
    <3>1. /\ Alone(p) /\ proc'[p].at = "execute"
          /\ proc'[p].version = proc[p].version
      BY <2>4, MovesTo
    <3> QED BY <1>2, <2>1, <2>4, <3>1
  <2> QED BY <1>4, <2>2, <2>3, <2>4, CheckEffect
<1>5. CASE Execute(p)
  <2>1. proc[p].at = "execute" /\ UNCHANGED recorded
    BY <1>5 DEF Execute, At
  <2>2. CASE writer' = {p} /\ Goto(p, "record")
    <3>1. ~disturbed => proc[p].version \notin recorded
      BY <1>0, <2>1, Undisturbed
    <3>2. /\ Alone(p) /\ proc'[p].at = "record"
          /\ proc'[p].version = proc[p].version
      BY <1>0, <2>2, GotoBecomes, MovesTo
    <3> QED BY <1>2, <2>1, <2>2, <3>1, <3>2 DEF InTransaction
  <2>3. CASE writer # {} /\ Goto(p, "failed") /\ UNCHANGED writer
    <3>1. p \notin writer
      BY <2>1 DEF OpenInv, InTransaction
    <3>2. disturbed
      <4>1. PICK q \in writer : TRUE
        BY <2>3
      <4>2. q \in Processes \ {p} /\ proc[q].at \in InTransaction
        BY <1>0, <3>1 DEF OpenInv
      <4> QED BY <1>1, <4>2 DEF InTransaction, Resting
    <3>3. Alone(p) /\ proc'[p].at = "failed"
      BY <1>0, <2>3, GotoBecomes, MovesTo
    <3> QED BY <1>2, <2>3, <3>1, <3>2, <3>3
  <2> QED BY <1>5, <2>2, <2>3 DEF Execute
<1>6. CASE Record(p)
  <2>1. proc[p].at = "record" /\ UNCHANGED recorded
    BY <1>6 DEF Record, At
  <2>2. CASE proc[p].version \notin recorded /\ Goto(p, "commit") /\ UNCHANGED writer
    <3>1. Alone(p) /\ proc'[p].at = "commit"
      BY <1>0, <2>2, GotoBecomes, MovesTo
    <3> QED BY <1>2, <2>2, <3>1 DEF InTransaction
  <2>3. CASE proc[p].version \in recorded /\ Goto(p, "failed") /\ writer' = {}
    <3>1. disturbed
      BY <1>0, <2>1, <2>3, Undisturbed
    <3>2. Alone(p) /\ proc'[p].at = "failed"
      BY <1>0, <2>3, GotoBecomes, MovesTo
    <3> QED BY <1>2, <2>3, <3>1, <3>2
  <2> QED BY <1>6, <2>2, <2>3 DEF Record
<1>7. CASE Commit(p)
  <2>1. writer' = {}
    BY <1>7 DEF Commit
  <2>2. PICK n : Becomes(p, "check", n, proc[p].key, proc[p].token, proc[p].draft)
    BY <1>7, CommitEffect
  <2>3. Alone(p) /\ proc'[p].at = "check"
    BY <2>2, BecomesAt
  <2> QED BY <1>2, <2>1, <2>3
<1> QED BY <1>3, <1>4, <1>5, <1>6, <1>7

\* Commands that open the directory one after the other all can, wherever the
\* ones before them died, but for the moment in which the private key's file
\* is empty (LoadOrGenerate, LoadOrGenerateToken, Open, runMigrations).
THEOREM AlwaysOpensAgain == Spec => []OpensAgain
<1>1. Init => OpenInv
  <2> SUFFICES ASSUME Init PROVE OpenInv
    OBVIOUS
  <2>1. \A p \in Processes : proc[p].at = "down"
    BY DEF Init, Idle
  <2>2. disk["private"] # Empty /\ writer = {}
    BY Sentinels DEF Init, Files
  <2> QED BY <2>1, <2>2 DEF OpenInv, Resting
<1>2. IInv /\ OpenInv /\ [Next]_vars => OpenInv'
  <2> SUFFICES ASSUME IInv, OpenInv, [Next]_vars PROVE OpenInv'
    OBVIOUS
  <2>1. CASE UNCHANGED vars
    BY <2>1 DEF vars, OpenInv
  <2>2. ASSUME NEW p \in Processes, Start(p) \/ Open(p) \/ Die(p) PROVE OpenInv'
    BY <2>2, StartOpens, DieOpens, SecretOpens, WriteOpens, DatabaseOpens DEF Open
  <2> QED BY <2>1, <2>2 DEF Next
<1>3. OpenInv => OpensAgain
  BY DEF OpenInv, OpensAgain, At
<1> QED BY <1>1, <1>2, <1>3, InvInit, InvStep, PTL DEF Spec
=============================================================================
