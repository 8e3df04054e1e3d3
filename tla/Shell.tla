-------------------------------- MODULE Shell --------------------------------
(***************************************************************************)
(* The commands a run executes: the run_shell tool, with its timeout, and  *)
(* the test contracts of a verification, without one.  Both start `sh -c`  *)
(* under a context and wait for it, and both read its output through pipes *)
(* that processes left in the background may keep open.                    *)
(*                                                                         *)
(* Cancelling kills `sh` alone, and Wait has no WaitDelay, so it returns   *)
(* only when the pipes are closed.  Output is told from none, no more.     *)
(***************************************************************************)
EXTENDS Integers, FiniteSets

CONSTANTS Runs,        \* processes, each one `aetronyx run`, one command at a time
          timeout_s,   \* the values of that parameter, 0 when it is missing
          MaxSignals   \* bound: runs that are sent SIGINT

ASSUME ShellAssumption == timeout_s \subseteq Int /\ MaxSignals \in Nat

VARIABLES
  sh,         \* run |-> its command, see Command
  signalled   \* runs whose context is cancelled

shell == <<sh, signalled>>

Results == {"none", "ok", "failed", "timeout", "not_found"}
Reports == {"nothing", "output", "error"}

Command ==
  [at    : {"idle", "start", "wait", "pipes", "judge", "done"},
   kind  : {"tool", "test"},
   ctx   : {"live", "deadline", "cancelled"},   \* cmdCtx.Err(): the first cause
   child : {"none", "running", "exit0", "exit1", "killed"},
   watch : {"none", "deadline", "cancelled"},   \* what the context's watcher reports
   held  : BOOLEAN,          \* a process in the background has the pipe
   err   : {"nil", "ctx", "start", "exit"},     \* of cmd.Run
   \* what runShell and runTestCommand return; a tool's goes to the audit log
   result : Results,
   \* what of it goes into the next prompt
   told : Reports]

NoCommand == [at |-> "idle", kind |-> "tool", ctx |-> "live", child |-> "none",
              watch |-> "none", held |-> FALSE, err |-> "nil", result |-> "none",
              told |-> "nothing"]

ShellInit == sh = [r \in Runs |-> NoCommand] /\ signalled = {}

\* A default of one minute, and ten at most.
Timeout(t) == IF t = 0 THEN 60 ELSE IF t > 600 THEN 600 ELSE t

-----------------------------------------------------------------------------
BeginCommand(r, kind, ctx) ==
  sh' = [sh EXCEPT ![r] = [NoCommand EXCEPT !.at = "start", !.kind = kind, !.ctx = ctx]]

\* The run_shell tool.  A cancelled parent comes before a deadline in the past.
RunShell(r) ==
  /\ sh[r].at = "idle" /\ UNCHANGED signalled
  /\ \/ \E t \in timeout_s :
          BeginCommand(r, "tool", IF r \in signalled THEN "cancelled"
                                  ELSE IF Timeout(t) < 0 THEN "deadline"
                                  ELSE "live")
     \/ sh' = [sh EXCEPT ![r] =
                 [NoCommand EXCEPT !.at = "done", !.result = "not_found", !.told = "error"]]

\* A test contract: no timeout, and no check that there is such a command.
RunTestCommand(r) ==
  /\ sh[r].at = "idle" /\ UNCHANGED signalled
  /\ BeginCommand(r, "test", IF r \in signalled THEN "cancelled" ELSE "live")

\* cmd.Start: a context that is done starts nothing; and it may fail.
Start(r) ==
  /\ sh[r].at = "start" /\ UNCHANGED signalled
  /\ \/ /\ sh[r].ctx # "live"
        /\ sh' = [sh EXCEPT ![r].at = "judge", ![r].err = "ctx"]
     \/ /\ sh[r].ctx = "live"
        /\ sh' = [sh EXCEPT ![r].at = "judge", ![r].err = "start"]
     \/ /\ sh[r].ctx = "live"
        /\ sh' = [sh EXCEPT ![r].at = "wait", ![r].child = "running"]

\* The command ends, perhaps leaving a process behind.
Exit(r) ==
  /\ sh[r].child = "running" /\ UNCHANGED signalled
  /\ \E c \in {"exit0", "exit1"}, h \in BOOLEAN :
       sh' = [sh EXCEPT ![r].child = c, ![r].held = h]

\* Mutant of Kill: the command gets the context of the run, not its own.
KillOnSignal(r) ==
  /\ sh[r].at = "wait" /\ sh[r].ctx = "cancelled" /\ sh[r].watch = "none"
  /\ UNCHANGED signalled
  /\ \/ /\ sh[r].child = "running"
        /\ \E h \in BOOLEAN :
             sh' = [sh EXCEPT ![r].child = "killed", ![r].held = h,
                              ![r].watch = sh[r].ctx]
     \/ /\ sh[r].child # "running"
        /\ sh' = [sh EXCEPT ![r].watch = sh[r].ctx]

\* The watcher of the context kills `sh`, which may have ended and not yet been
\* waited for.
Kill(r) ==
  /\ sh[r].at = "wait" /\ sh[r].ctx # "live" /\ sh[r].watch = "none"
  /\ UNCHANGED signalled
  /\ \/ /\ sh[r].child = "running"
        /\ \E h \in BOOLEAN :
             sh' = [sh EXCEPT ![r].child = "killed", ![r].held = h,
                              ![r].watch = sh[r].ctx]
     \/ /\ sh[r].child # "running"
        /\ sh' = [sh EXCEPT ![r].watch = sh[r].ctx]

\* Mutant of Reap: the context's error comes before the command's.
ReapContextFirst(r) ==
  /\ sh[r].at = "wait" /\ sh[r].child \notin {"none", "running"}
  /\ UNCHANGED signalled
  /\ sh' = [sh EXCEPT ![r].at = "pipes",
                      ![r].err = IF sh[r].watch # "none" THEN "ctx"
                                 ELSE IF sh[r].child = "exit0" THEN "nil"
                                 ELSE "exit"]

\* Wait: an exit that is not a success comes before the watcher's error.
Reap(r) ==
  /\ sh[r].at = "wait" /\ sh[r].child \notin {"none", "running"}
  /\ UNCHANGED signalled
  /\ sh' = [sh EXCEPT ![r].at = "pipes",
                      ![r].err = IF sh[r].child # "exit0" THEN "exit"
                                 ELSE IF sh[r].watch # "none" THEN "ctx"
                                 ELSE "nil"]

\* The goroutines that copy the output reach its end.
PipesClosed(r) ==
  /\ sh[r].at = "pipes" /\ ~sh[r].held /\ UNCHANGED signalled
  /\ sh' = [sh EXCEPT ![r].at = "judge"]

\* What runShell and runTestCommand make of the error.
Result(c) == IF c.err = "nil" THEN "ok"
             ELSE IF c.kind = "test" THEN "failed"
             ELSE IF c.ctx = "deadline" THEN "timeout"
             ELSE IF c.err = "exit" THEN "failed"
             ELSE "ok"

\* What dispatchToolUse and phaseVerify pass on: of a tool's command an error
\* only when there is an Err, and otherwise its standard output, whatever its
\* exit code; of a test contract that it failed.
Told(kind, result) ==
  IF kind = "tool" THEN IF result = "timeout" THEN "error" ELSE "output"
  ELSE IF result = "failed" THEN "error" ELSE "nothing"

Judge(r) ==
  LET result == Result(sh[r])
  IN  /\ sh[r].at = "judge" /\ UNCHANGED signalled
      /\ sh' = [sh EXCEPT ![r].at = "done", ![r].result = result,
                          ![r].told = Told(sh[r].kind, result)]

-----------------------------------------------------------------------------
(* The environment: the clock, the user and the processes left behind.     *)

Busy(r) == sh[r].at \notin {"idle", "done"}

Expire(r) ==
  /\ Busy(r) /\ sh[r].kind = "tool" /\ sh[r].ctx = "live"
  /\ sh' = [sh EXCEPT ![r].ctx = "deadline"] /\ UNCHANGED signalled

\* At other times it has the effect of one that comes before the next Start.
Signal(r) ==
  /\ Busy(r) /\ r \notin signalled /\ Cardinality(signalled) < MaxSignals
  /\ signalled' = signalled \cup {r}
  /\ sh' = IF sh[r].ctx = "live" THEN [sh EXCEPT ![r].ctx = "cancelled"] ELSE sh

BackgroundEnds(r) ==
  /\ sh[r].held /\ sh' = [sh EXCEPT ![r].held = FALSE] /\ UNCHANGED signalled
=============================================================================
