------------------------------ MODULE DataDir ------------------------------
(***************************************************************************)
(* Processes that open one data directory: each `aetronyx` command loads   *)
(* or generates the audit key pair and the server's token, and opens and   *)
(* migrates the database, in an order of its own.  Any process may die     *)
(* between two steps and be started again.  The directory itself exists.   *)
(*                                                                         *)
(* os.WriteFile truncates a file and then fills it; what a write leaves    *)
(* that fails or is cut off counts as nothing.  All keys have the same     *)
(* length, and so have all tokens: of two writers the last one wins.       *)
(***************************************************************************)
EXTENDS Integers, Sequences, FiniteSets

CONSTANTS Processes,
          Commands,    \* of "run", "serve", "audit"
          Migrations,  \* number of migration files
          MaxStarts,   \* bound: processes started
          MaxFaults    \* bound: reads and writes of a file that fail

ASSUME DataDirAssumption ==
  /\ Commands \subseteq {"run", "serve", "audit"}
  /\ Migrations \in Nat /\ MaxStarts \in Nat /\ MaxFaults \in Nat

\* What each command opens, in order; run loads the key twice.
Phases == [run   |-> <<"key", "store", "key">>,
           serve |-> <<"key", "token", "store">>,
           audit |-> <<"store">>]

Files == {"private", "public", "token"}

VARIABLES
  disk,      \* file |-> what it holds: Absent, Empty, or a secret
  applied,   \* migration |-> how often its SQL has been committed
  recorded,  \* versions in schema_migrations
  writer,    \* whose transaction holds the write lock, {} or a singleton
  proc,      \* process |-> its place and what it holds
  made,      \* secrets generated: the next one is new
  starts, faults,
  overlapped, \* history: the secrets looked for while another process was
              \* generating them
  disturbed,  \* history: two processes were opening the directory at once, an
              \* error ended one, or a death left an empty private key file
  superseded, \* history: the processes that held the token when another could
              \* not read it
  torn        \* history: the token's file was left truncated

vars == <<disk, applied, recorded, writer, proc, made, starts, faults,
          overlapped, disturbed, superseded, torn>>

Absent == -1
Empty  == 0

\* key, token: the secret last loaded or generated, Absent when there is none;
\* draft: one that is being written; todo: the phases left, this one included.
Idle == [at |-> "down", todo |-> <<>>, version |-> 1,
         key |-> Absent, token |-> Absent, draft |-> Empty]

Init ==
  /\ disk = [f \in Files |-> Absent]
  /\ applied = [m \in 1..Migrations |-> 0] /\ recorded = {}
  /\ writer = {}
  /\ proc = [p \in Processes |-> Idle]
  /\ made = 0 /\ starts = 0 /\ faults = 0
  /\ overlapped = {} /\ disturbed = FALSE /\ superseded = {} /\ torn = FALSE

-----------------------------------------------------------------------------
At(p, l)  == proc[p].at = l
Goto(p, l) == proc' = [proc EXCEPT ![p].at = l]

Opening == {p \in Processes : proc[p].at \notin {"down", "ready", "failed"}}

\* Who is between looking for a secret in vain and having written it.
Generating(secret) ==
  {p \in Processes :
     proc[p].at \in IF secret = "key" THEN {"make private", "fill private",
                                            "make public", "fill public"}
                    ELSE {"make token", "fill token"}}

Migrating ==
  {p \in Processes :
     proc[p].at \in {"store", "check", "execute", "record", "commit"}}

secrets  == <<disk, made, faults>>
database == <<applied, recorded, writer>>
history  == <<overlapped, disturbed, superseded, torn>>

\* `state` with its phase over.
Advance(state) ==
  LET rest == Tail(state.todo)
  IN  [state EXCEPT !.todo = rest, !.version = 1, !.draft = Empty,
                    !.at = IF rest = <<>> THEN "ready" ELSE Head(rest)]

Start(p) ==
  /\ At(p, "down") /\ starts < MaxStarts /\ starts' = starts + 1
  /\ \E cmd \in Commands :
       proc' = [proc EXCEPT ![p] = [Idle EXCEPT !.todo = Phases[cmd],
                                                !.at = Head(Phases[cmd])]]
  /\ disturbed' = (disturbed \/ Opening # {})
  /\ UNCHANGED <<secrets, database, overlapped, superseded, torn>>

\* The process ends, by itself or not; SQLite gives back its lock.
Die(p) ==
  /\ ~At(p, "down") /\ proc' = [proc EXCEPT ![p] = Idle]
  /\ writer' = writer \ {p}
  /\ disturbed' = (disturbed \/ At(p, "fill private"))
  /\ torn' = (torn \/ At(p, "fill token")) /\ superseded' = superseded \ {p}
  /\ UNCHANGED <<secrets, applied, recorded, starts, overlapped>>

-----------------------------------------------------------------------------
(* audit.LoadOrGenerate and server.LoadOrGenerateToken                     *)

\* Looking for a secret while another process generates it.
Look(p, secret) ==
  overlapped' = IF Generating(secret) \ {p} = {} THEN overlapped
                ELSE overlapped \cup {secret}

Generate(p, l) ==
  /\ made' = made + 1
  /\ proc' = [proc EXCEPT ![p] = [@ EXCEPT !.at = l, !.draft = made + 1]]

\* A system call fails.
Fault == faults < MaxFaults /\ faults' = faults + 1

\* os.Stat of the private key alone decides; after another error of it reading
\* the file fails as well.
StatKey(p) ==
  /\ At(p, "key") /\ Look(p, "key")
  /\ \/ /\ disk["private"] = Absent /\ Generate(p, "make private")
        /\ UNCHANGED <<faults, disturbed>>
     \/ /\ disk["private"] # Absent /\ Goto(p, "load key")
        /\ UNCHANGED <<made, faults, disturbed>>
     \/ Fault /\ Goto(p, "failed") /\ disturbed' = TRUE /\ UNCHANGED made
  /\ UNCHANGED <<disk, database, starts, superseded, torn>>

\* A file that cannot be read, or has no PEM block, is an error.
LoadKey(p) ==
  /\ At(p, "load key")
  /\ \/ /\ disk["private"] > Empty
        /\ proc' = [proc EXCEPT ![p] = Advance([@ EXCEPT !.key = disk["private"]])]
        /\ UNCHANGED <<faults, disturbed>>
     \/ /\ disk["private"] = Empty /\ Goto(p, "failed")
        /\ UNCHANGED <<faults, disturbed>>
     \/ Fault /\ Goto(p, "failed") /\ disturbed' = TRUE
  /\ UNCHANGED <<disk, made, database, starts, overlapped, superseded, torn>>

\* Whatever the token's file holds is the token; after any error of reading it a
\* new one is made, also when the file is there.
ReadToken(p) ==
  /\ At(p, "token") /\ Look(p, "token")
  /\ \/ /\ disk["token"] # Absent
        /\ proc' = [proc EXCEPT ![p] = Advance([@ EXCEPT !.token = disk["token"]])]
        /\ UNCHANGED <<made, faults, superseded>>
     \/ /\ disk["token"] = Absent /\ Generate(p, "make token")
        /\ UNCHANGED <<faults, superseded>>
     \/ /\ disk["token"] # Absent /\ Fault /\ Generate(p, "make token")
        /\ superseded' = superseded \cup {q \in Processes : proc[q].token # Absent}
  /\ UNCHANGED <<disk, database, starts, disturbed, torn>>

\* os.WriteFile creates the file, or empties it.
Truncate(p, from, file, to) ==
  /\ At(p, from) /\ Goto(p, to)
  /\ disk' = [disk EXCEPT ![file] = Empty]
  /\ UNCHANGED <<made, faults, database, starts, history>>

\* What the process holds once `file` is written.
Filled(state, file) ==
  CASE file = "private" -> [state EXCEPT !.at = "make public"]
    [] file = "public"  -> Advance([state EXCEPT !.key = state.draft])
    [] file = "token"   -> Advance([state EXCEPT !.token = state.draft])

\* Mutant of Fill: the error of the write is dropped.
FillUnchecked(p, from, file) ==
  /\ At(p, from)
  /\ proc' = [proc EXCEPT ![p] = Filled(@, file)]
  /\ \/ disk' = [disk EXCEPT ![file] = proc[p].draft] /\ UNCHANGED faults
     \/ Fault /\ UNCHANGED disk
  /\ UNCHANGED <<made, database, starts, history>>

\* ... and fills it; an error of the write is an error of the command.
Fill(p, from, file) ==
  /\ At(p, from)
  /\ \/ /\ disk' = [disk EXCEPT ![file] = proc[p].draft]
        /\ proc' = [proc EXCEPT ![p] = Filled(@, file)]
        /\ UNCHANGED <<faults, disturbed, torn>>
     \/ /\ Fault /\ Goto(p, "failed") /\ disturbed' = TRUE /\ UNCHANGED disk
        /\ torn' = (torn \/ file = "token")
  /\ UNCHANGED <<made, database, starts, overlapped, superseded>>

WriteKey(p) == \/ Truncate(p, "make private", "private", "fill private")
               \/ Fill(p, "fill private", "private")
               \/ Truncate(p, "make public", "public", "fill public")
               \/ Fill(p, "fill public", "public")

WriteToken(p) == \/ Truncate(p, "make token", "token", "fill token")
                 \/ Fill(p, "fill token", "token")

-----------------------------------------------------------------------------
(* store.Open and runMigrations                                            *)

\* The pragmas and CREATE TABLE IF NOT EXISTS schema_migrations need a lock
\* for a moment; while another process opens the database they may not get it.
OpenStore(p) ==
  /\ At(p, "store")
  /\ \/ Goto(p, "check")
     \/ (Migrating \ {p}) # {} /\ Goto(p, "failed")
  /\ UNCHANGED <<secrets, database, starts, history>>

\* Mutants of Check: applied migrations are not skipped; the loop makes one
\* turn too many.
CheckNothing(p) ==
  LET v == proc[p].version
  IN  /\ At(p, "check")
      /\ proc' = [proc EXCEPT ![p] =
           IF v > Migrations THEN Advance(@) ELSE [@ EXCEPT !.at = "execute"]]
      /\ UNCHANGED <<secrets, database, starts, history>>
CheckPastEnd(p) ==
  LET v == proc[p].version
  IN  /\ At(p, "check")
      /\ proc' = [proc EXCEPT ![p] =
           IF v > Migrations + 1 THEN Advance(@)
           ELSE IF v \in recorded THEN [@ EXCEPT !.version = v + 1]
           ELSE [@ EXCEPT !.at = "execute"]]
      /\ UNCHANGED <<secrets, database, starts, history>>

\* Outside of the transaction; a reader waits for nobody.
Check(p) ==
  LET v == proc[p].version
  IN  /\ At(p, "check")
      /\ proc' = [proc EXCEPT ![p] =
           IF v > Migrations THEN Advance(@)
           ELSE IF v \in recorded THEN [@ EXCEPT !.version = v + 1]
           ELSE [@ EXCEPT !.at = "execute"]]
      /\ UNCHANGED <<secrets, database, starts, history>>

\* The first write of the transaction waits for the lock, up to busy_timeout.
Execute(p) ==
  /\ At(p, "execute")
  /\ \/ writer = {} /\ writer' = {p} /\ Goto(p, "record")
     \/ writer # {} /\ Goto(p, "failed") /\ UNCHANGED writer
  /\ UNCHANGED <<secrets, applied, recorded, starts, history>>

\* Mutant of Record: INSERT OR IGNORE.
RecordOrIgnore(p) ==
  /\ At(p, "record") /\ Goto(p, "commit")
  /\ UNCHANGED <<secrets, database, starts, history>>

\* `version` is the primary key: a duplicate rolls the transaction back.
Record(p) ==
  /\ At(p, "record")
  /\ \/ proc[p].version \notin recorded /\ Goto(p, "commit") /\ UNCHANGED writer
     \/ proc[p].version \in recorded /\ Goto(p, "failed") /\ writer' = {}
  /\ UNCHANGED <<secrets, applied, recorded, starts, history>>

\* The SQL and its record take effect together.
Commit(p) ==
  LET v == proc[p].version
  IN  /\ At(p, "commit") /\ writer' = {}
      /\ applied' = [applied EXCEPT ![v] = @ + 1]
      /\ recorded' = recorded \cup {v}
      /\ proc' = [proc EXCEPT ![p] = [@ EXCEPT !.at = "check", !.version = v + 1]]
      /\ UNCHANGED <<secrets, starts, history>>

-----------------------------------------------------------------------------
Open(p) == \/ StatKey(p) \/ LoadKey(p) \/ WriteKey(p)
           \/ ReadToken(p) \/ WriteToken(p)
           \/ OpenStore(p) \/ Check(p) \/ Execute(p) \/ Record(p) \/ Commit(p)

Next == \E p \in Processes : Start(p) \/ Open(p) \/ Die(p)

Spec == Init /\ [][Next]_vars

-----------------------------------------------------------------------------
State == [at : {"down", "ready", "failed", "key", "load key", "make private",
                "fill private", "make public", "fill public", "token",
                "make token", "fill token", "store", "check", "execute",
                "record", "commit"},
          todo : Seq({"key", "token", "store"}), version : Nat,
          key : Nat \cup {Absent}, token : Nat \cup {Absent}, draft : Nat]

TypeOK ==
  /\ disk \in [Files -> Nat \cup {Absent}]
  /\ applied \in [1..Migrations -> Nat] /\ recorded \subseteq 1..Migrations
  /\ writer \subseteq Processes
  /\ proc \in [Processes -> State]
  /\ made \in Nat /\ starts \in 0..MaxStarts /\ faults \in 0..MaxFaults
  /\ overlapped \subseteq {"key", "token"} /\ superseded \subseteq Processes
  /\ disturbed \in BOOLEAN /\ torn \in BOOLEAN

\* The key and the token that processes hold are the ones on disk, and the
\* public key there is the private one's, across crashes, failing reads and
\* writes and restarts (LoadOrGenerate, LoadOrGenerateToken), with these
\* exceptions: two processes generated at the same time; or a later serve could
\* not read the token of the ones that are up and replaced it, which it does
\* after any error of os.ReadFile.  No process holds an empty key; it serves
\* with an empty token only if another died, or its write failed, between
\* truncating the token's file and filling it.
SecretsAgree ==
  /\ "key" \notin overlapped =>
       /\ \A p \in Processes : proc[p].key # Absent =>
            proc[p].key # Empty /\ proc[p].key = disk["private"]
       /\ disk["public"] > Empty => disk["public"] = disk["private"]
  /\ "token" \notin overlapped =>
       \A p \in Processes : proc[p].token # Absent =>
         /\ p \notin superseded => proc[p].token = disk["token"]
         /\ proc[p].token = Empty => torn

\* The SQL of a migration is committed at most once, with its record, and the
\* migrations in their order, although the check for it is made outside of the
\* transaction and two processes may pass it together (runMigrations).
MigratedOnce ==
  \A m \in 1..Migrations :
    /\ applied[m] = IF m \in recorded THEN 1 ELSE 0
    /\ m \in recorded => 1..m \subseteq recorded

\* Commands that open the directory one after the other all can, wherever the
\* ones before them died, unless that was between truncating the private key's
\* file and filling it: no half-made pair, missing public key, empty token or
\* half-run migration is an error (LoadOrGenerate, Open).  To open is not to be
\* of use: serve comes up with an empty token, which no Bearer header matches.
OpensAgain == ~disturbed => \A p \in Processes : ~At(p, "failed")
=============================================================================
