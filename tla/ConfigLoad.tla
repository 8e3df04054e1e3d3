----------------------------- MODULE ConfigLoad ------------------------------
(***************************************************************************)
(* How `aetronyx serve` gets its configuration: config.Load merges the     *)
(* defaults, two files, the environment and the flags of the root command, *)
(* and serve lays its own flags over what was validated.                   *)
(*                                                                         *)
(* The keys are merged independently but for a file that does not parse,   *)
(* so one key is followed.  Of a value the model keeps what the code tells *)
(* apart: the zero of its Go type, the default, another one, and one that  *)
(* Validate refuses (a port also by its sign).  otel_headers, the only map,*)
(* is left out, and so is the text of the paths that expandTildes rewrites.*)
(***************************************************************************)
EXTENDS Naturals

CONSTANTS keys,     \* the keys to follow
          Absent,   \* a source that says nothing of the key
          Ill       \* a text that is no value of the key's type

Numbers == {"server.port", "anthropic.timeout", "openai.timeout", "max_iterations",
            "max_cost_usd", "max_wall_time", "retention_days"}

Bools == {"allow_remote", "open_browser", "require_planning", "require_schema_change",
          "require_merge", "audit.enabled", "hard_stop_at_budget", "otel_enabled"}

Texts == {"server.host", "data_dir", "db_filename", "anthropic.api_key_env",
          "anthropic.base_url", "openai.api_key_env", "openai.base_url", "ollama.base_url",
          "bedrock.region", "bedrock.profile", "vertex.project", "vertex.location",
          "openrouter.api_key_env", "planning_model", "execution_model", "default_decider",
          "signing_key_path", "export_format", "alert_thresholds", "ui.theme",
          "ui.default_view", "otel_endpoint", "logging.level", "logging.format"}

\* Keys whose default is the zero value: what Defaults does not set, or sets to it.
DefaultsToZero == {"allow_remote", "require_merge", "otel_enabled", "anthropic.base_url",
                   "openai.base_url", "bedrock.profile", "vertex.project", "otel_endpoint"}

\* Keys no default may leave at zero.
filled == {"audit.enabled"} \cup Numbers
            \cup (Texts \ (DefaultsToZero \cup {"default_decider", "alert_thresholds"}))

\* Keys with an AETRONYX_ variable.
inEnv == (Numbers \cup Bools \cup Texts)
           \ {"require_planning", "require_schema_change", "require_merge", "default_decider",
              "alert_thresholds", "hard_stop_at_budget", "bedrock.region", "bedrock.profile",
              "vertex.project", "vertex.location", "openrouter.api_key_env"}

validated  == {"server.port", "logging.level", "logging.format", "ui.theme", "ui.default_view"}
rootFlags  == {"logging.level", "logging.format"}
serveFlags == {"server.port", "server.host", "allow_remote"}

ASSUME KeysAssumption ==
  /\ keys \subseteq Numbers \cup Bools \cup Texts
  /\ Absent # Ill
  /\ {Absent, Ill} \cap {"zero", "default", "other", "invalid", "negative"} = {}

Defaults(k) == IF k \in DefaultsToZero THEN "zero" ELSE "default"

\* The values of a key: a bool has two.
Values(k) ==
  {"zero", Defaults(k)}
    \cup (IF k \in Bools /\ k \notin DefaultsToZero THEN {} ELSE {"other"})
    \cup (IF k \in validated THEN {"invalid"} ELSE {})
    \cup (IF k = "server.port" THEN {"negative"} ELSE {})

\* What an environment variable may hold: the empty one counts as absent.
EnvTexts(k) ==
  {Absent} \cup (IF k \in inEnv THEN IF k \in Texts THEN Values(k) \ {"zero"}
                                                    ELSE Values(k) \cup {Ill}
                                ELSE {})

\* What the command line may say: nothing, for a flag that is not given.
FlagTexts(k) == {Absent} \cup (IF k \in rootFlags \cup serveFlags THEN Values(k) ELSE {})

\* A file may be missing, there but not to be read, not be YAML at all, or have a
\* text that does not fit some field (this key's, or another's), which loses that
\* field only.
Files(k) ==
  {[yaml |-> y, value |-> Absent] : y \in {"missing", "syntax error"}}
    \cup [yaml : {"unreadable", "fine", "ill elsewhere"}, value : Values(k) \cup {Absent, Ill}]

VARIABLES
  key,            \* the key followed
  home, local,    \* ~/.aetronyx/config.yaml and ./.aetronyx/config.yaml
  env, flag,      \* its variable, its flag
  at,             \* the next step of Load or of serveCmd
  value,          \* of the key in cfg
  warnings,       \* the files Load has a warning for
  made            \* Load has made the data directory

vars == <<key, home, local, env, flag, at, value, warnings, made>>

Init ==
  /\ key \in keys
  /\ home \in Files(key)
  /\ local \in Files(key)
  /\ env \in EnvTexts(key)
  /\ flag \in FlagTexts(key)
  /\ at = "home" /\ value = Defaults(key) /\ warnings = {} /\ made = FALSE

Goto(from, to) == at = from /\ at' = to

----------------------------------------------------------------------------

\* yaml.Unmarshal over cfg: a field that does not fit keeps what it had.
Unmarshal(file) ==
  value' = IF file.value \in {Absent, Ill} THEN value ELSE file.value

\* Mutant of Complain: a warning only for what is not YAML.
ComplainOfSyntax(name, file) ==
  warnings' = warnings \cup (IF file.yaml = "syntax error" THEN {name} ELSE {})

Complain(name, file) ==
  warnings' = warnings \cup
    (IF file.yaml \in {"syntax error", "ill elsewhere"} \/ file.value = Ill THEN {name} ELSE {})

\* A file that cannot be read, for whatever reason, counts as one that is missing.
Read(name, file) ==
  IF file.yaml \in {"missing", "unreadable"}
    THEN UNCHANGED <<value, warnings>>
    ELSE Unmarshal(file) /\ Complain(name, file)

ReadFile(name, file, to) ==
  /\ Goto(name, to)
  /\ Read(name, file)
  /\ UNCHANGED made

ReadHome == ReadFile("home", home, "local")

\* Mutant of ReadLocal: a zero of the workspace's file leaves what the home file says.
ReadLocalUnlessZero ==
  /\ Goto("local", "fill")
  /\ IF local.value = "zero" THEN UNCHANGED <<value, warnings>> ELSE Read("local", local)
  /\ UNCHANGED made

ReadLocal == ReadFile("local", local, "fill")

fillDefaults ==
  /\ Goto("fill", "env")
  /\ value' = IF key \in filled /\ value = "zero" THEN Defaults(key) ELSE value
  /\ UNCHANGED <<warnings, made>>

\* parseBool takes what it does not know for false; a number that does not
\* parse is passed over.
mergeEnv ==
  /\ Goto("env", "flags")
  /\ value' = CASE env = Absent -> value
                [] env = Ill    -> IF key \in Bools THEN "zero" ELSE value
                [] OTHER        -> env
  /\ UNCHANGED <<warnings, made>>

\* The value of the key's flag: cobra gives one that is not on the command line
\* its default, which is the key's.
FlagValue ==
  IF flag = Absent /\ key \in rootFlags \cup serveFlags THEN Defaults(key) ELSE flag

\* The root command passes its two logging flags unless they are empty.
mergeFlags ==
  /\ Goto("flags", "data dir")
  /\ value' = IF key \in rootFlags /\ FlagValue # "zero" THEN FlagValue ELSE value
  /\ UNCHANGED <<warnings, made>>

\* The data directory is made before the configuration is known to be valid.
ensureDataDir ==
  /\ \/ Goto("data dir", "validate") /\ made' = TRUE
     \/ Goto("data dir", "failed") /\ made' = made
  /\ UNCHANGED <<value, warnings>>

Valid(v) == key \in validated => v \notin {"zero", "negative", "invalid"}

\* Mutant of Validate: `Port < 0` for `Port < 1`.
ValidateFromZero ==
  /\ Goto("validate", IF Valid(value) \/ value = "zero" THEN "serve" ELSE "failed")
  /\ UNCHANGED <<value, warnings, made>>

\* The root command validates what Load returns once more, to the same end.
Validate ==
  /\ Goto("validate", IF Valid(value) THEN "serve" ELSE "failed")
  /\ UNCHANGED <<value, warnings, made>>

\* serveCmd: a positive port, a host that is not empty, --allow-remote.
Override ==
  /\ Goto("serve", "serving")
  /\ value' = IF key \in serveFlags /\ FlagValue \notin {"zero", "negative"}
                THEN FlagValue ELSE value
  /\ UNCHANGED <<warnings, made>>

Next ==
  /\ \/ ReadHome \/ ReadLocal \/ fillDefaults \/ mergeEnv
     \/ mergeFlags \/ ensureDataDir \/ Validate \/ Override
  /\ UNCHANGED <<key, home, local, env, flag>>

Spec == Init /\ [][Next]_vars

----------------------------------------------------------------------------
(***************************************************************************)
(* Properties                                                              *)
(***************************************************************************)

\* The value each source has for the key, Absent if none that it could use.
FromFlags == IF flag \in {Absent, "zero", "negative"} THEN Absent ELSE flag
FromEnv   == IF env # Ill THEN env ELSE IF key \in Bools THEN "zero" ELSE Absent
FromFile(file) ==
  IF file.value = Ill \/ file.yaml = "unreadable" THEN Absent
  ELSE IF file.value = "zero" /\ key \in filled THEN "default" ELSE file.value

Rank == <<FromFlags, FromEnv, FromFile(local), FromFile(home), Defaults(key)>>

\* A flag that is not given, but has a default that the code takes for given.
Preempted == flag = Absent /\ key \in (rootFlags \cup serveFlags) \ DefaultsToZero

\* What is served is what the highest source that has a value says, in the
\* order the comment of Load gives: flags, environment, the workspace's file,
\* the home file, defaults.  A zero in a file asks for the default, also over
\* another value of the home file, and a file that cannot be read has no value.
\* Against that order, and against "if provided" in serveCmd, the port, the host
\* and the two keys of logging are the defaults of their flags whenever these
\* are not given, whatever the environment and the files say.
LoadIsLayered ==
  at = "serving" =>
    IF Preempted THEN value = Defaults(key)
    ELSE \E i \in DOMAIN Rank : Rank[i] = value /\ \A j \in 1 .. i - 1 : Rank[j] = Absent

\* What a file says of a key is served, or a higher source has a value, or it is
\* a zero that stands for the default, or Load has a warning for the file; and
\* it has one for a file that is not YAML.  A text is lost in silence in two
\* ways only: the file cannot be read, or the key has a flag that is not given.
Heeded(name, file, above) ==
  \/ name \in warnings
  \/ /\ file.yaml # "syntax error"
     /\ \/ file.value \in {Absent, value}
        \/ file.value = "zero" /\ key \in filled
        \/ \E other \in above : other # Absent
        \/ file.yaml = "unreadable"
        \/ Preempted

WarnedOrUsed ==
  at = "serving" =>
    /\ Heeded("local", local, {FromFlags, FromEnv})
    /\ Heeded("home", home, {FromFlags, FromEnv, FromFile(local)})

\* A value Validate refuses reaches the server only through a flag of serve,
\* which is looked at afterwards: a port of 70000 on the command line.
ServedIsValid ==
  at = "serving" => Valid(value) \/ (key \in serveFlags /\ value = flag)
=============================================================================
