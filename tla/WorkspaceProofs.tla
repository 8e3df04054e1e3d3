-------------------------- MODULE WorkspaceProofs ---------------------------
(***************************************************************************)
(* The two parts that work on the files of a workspace.                    *)
(*                                                                         *)
(* Workspace and Shell, for any number of runs, files, tool calls, faults  *)
(* and deaths: their type correctness, that a file written by one call at  *)
(* a time is always a whole version, that the rows of its writes tell what *)
(* it holds, and that the result of a command is what happened to it.      *)
(*                                                                         *)
(* BlastRadius, for any workspaces and specs: that the importers are found *)
(* and that the files a spec names are covered.                            *)
(***************************************************************************)
EXTENDS Workspace, BlastRadius, TLAPS

-----------------------------------------------------------------------------
(* The commands.                                                           *)

\* What is known of a command at every moment of it.
Sound(c) ==
  /\ c.at \in {"idle", "start"} => c.child = "none" /\ c.watch = "none"
  /\ c.child = "running" => c.at = "wait"
  /\ c.at \in {"wait", "pipes"} => c.child # "none"
  /\ c.child = "killed" => c.watch # "none"
  /\ c.watch # "none" => c.watch = c.ctx
  /\ c.kind = "test" => c.ctx # "deadline"
  /\ c.at \in {"pipes", "judge"} =>
       /\ c.err = "nil" => c.child = "exit0"
       /\ c.err = "ctx" => \/ c.child = "none" /\ c.ctx # "live"
                           \/ c.child = "exit0" /\ c.watch # "none"
       /\ c.err = "start" => c.child = "none"
       /\ c.err = "exit" => c.child \in {"exit1", "killed"}
  /\ c.at = "done" =>
       /\ c.result = "ok" =>
            c.child = "exit0" \/ (c.child = "none" /\ c.kind = "tool")
       /\ c.result = "failed" =>
            \/ c.child \in {"exit1", "killed"}
            \/ c.kind = "test" /\ (c.child = "none" \/ c.watch # "none")
       /\ c.result = "timeout" => c.kind = "tool" /\ c.ctx = "deadline"
       /\ c.child = "killed" /\ c.ctx = "deadline" =>
            c.result = "timeout" /\ c.told = "error"
       /\ c.kind = "test" /\ c.child # "exit0" => c.told = "error"
       /\ c.kind = "tool" /\ c.child # "none" /\ c.ctx # "deadline" =>
            c.told = "output"

ShellInv ==
  /\ sh \in [Runs -> Command] /\ signalled \subseteq Runs
  /\ \A r \in Runs : Sound(sh[r])

\* A command of r that is sound takes the place of the one before it.
LEMMA CommandChanges ==
  ASSUME ShellInv, NEW r \in Runs, NEW c \in Command, Sound(c),
         sh' = [sh EXCEPT ![r] = c], signalled' \subseteq Runs
  PROVE  ShellInv'
BY DEF ShellInv

LEMMA NoCommandSound == NoCommand \in Command /\ Sound(NoCommand)
BY DEF NoCommand, Command, Results, Reports, Sound

LEMMA BeginSound ==
  ASSUME ShellInv, NEW r \in Runs, UNCHANGED signalled,
         NEW kind \in {"tool", "test"}, NEW ctx \in {"live", "deadline", "cancelled"},
         kind = "test" => ctx # "deadline", BeginCommand(r, kind, ctx)
  PROVE  ShellInv'
<1>1. PICK c : c = [NoCommand EXCEPT !.at = "start", !.kind = kind, !.ctx = ctx]
  OBVIOUS
<1>2. /\ c \in Command /\ c.at = "start" /\ c.kind = kind /\ c.ctx = ctx
      /\ c.child = "none" /\ c.watch = "none"
  BY <1>1 DEF NoCommand, Command, Results, Reports
<1>3. Sound(c)
  BY <1>2 DEF Sound
<1> QED BY <1>1, <1>2, <1>3, CommandChanges DEF BeginCommand, ShellInv

LEMMA RunShellSound ==
  ASSUME ShellInv, NEW r \in Runs, RunShell(r) \/ RunTestCommand(r)
  PROVE  ShellInv'
<1>1. CASE RunTestCommand(r)
  BY <1>1, BeginSound DEF RunTestCommand
<1>2. CASE RunShell(r)
  <2>1. CASE \E t \in timeout_s :
               BeginCommand(r, "tool", IF r \in signalled THEN "cancelled"
                                       ELSE IF Timeout(t) < 0 THEN "deadline"
                                       ELSE "live")
    <3>1. PICK t \in timeout_s, ctx \in {"live", "deadline", "cancelled"} :
            BeginCommand(r, "tool", ctx)
      BY <2>1
    <3> QED BY <1>2, <3>1, BeginSound DEF RunShell
  <2>2. CASE sh' = [sh EXCEPT ![r] =
               [NoCommand EXCEPT !.at = "done", !.result = "not_found", !.told = "error"]]
    <3>1. PICK c : c = [NoCommand EXCEPT !.at = "done", !.result = "not_found",
                                         !.told = "error"]
      OBVIOUS
    <3>2. c \in Command /\ c.at = "done" /\ c.result = "not_found"
          /\ c.child = "none" /\ c.watch = "none" /\ c.kind = "tool"
      BY <3>1 DEF NoCommand, Command, Results, Reports
    <3>3. Sound(c)
      BY <3>2 DEF Sound
    <3> QED BY <1>2, <2>2, <3>1, <3>2, <3>3, CommandChanges DEF RunShell, ShellInv
  <2> QED BY <1>2, <2>1, <2>2, Zenon DEF RunShell
<1> QED BY <1>1, <1>2

\* Every other step of a command is a change of its record.
LEMMA StartSound ==
  ASSUME ShellInv, NEW r \in Runs, Start(r)
  PROVE  ShellInv'
<1>1. sh[r] \in Command /\ Sound(sh[r]) /\ sh[r].at = "start" /\ UNCHANGED signalled
  BY DEF ShellInv, Start
<1>2. ASSUME NEW err \in {"ctx", "start"},
             err = "ctx" => sh[r].ctx # "live",
             sh' = [sh EXCEPT ![r].at = "judge", ![r].err = err]
      PROVE  ShellInv'
  <2>1. PICK c : c = [sh[r] EXCEPT !.at = "judge", !.err = err]
    OBVIOUS
  <2>2. /\ c \in Command /\ c.at = "judge" /\ c.err = err /\ c.child = sh[r].child
        /\ c.watch = sh[r].watch /\ c.ctx = sh[r].ctx /\ c.kind = sh[r].kind
    BY <1>1, <2>1 DEF Command
  <2>3. Sound(c)
    BY <1>1, <1>2, <2>2 DEF Sound
  <2> QED BY <1>1, <1>2, <2>1, <2>2, <2>3, CommandChanges DEF ShellInv
<1>3. CASE sh' = [sh EXCEPT ![r].at = "wait", ![r].child = "running"]
  <2>1. PICK c : c = [sh[r] EXCEPT !.at = "wait", !.child = "running"]
    OBVIOUS
  <2>2. /\ c \in Command /\ c.at = "wait" /\ c.child = "running"
        /\ c.watch = sh[r].watch /\ c.ctx = sh[r].ctx /\ c.kind = sh[r].kind
    BY <1>1, <2>1 DEF Command
  <2>3. Sound(c)
    BY <1>1, <2>2 DEF Sound
  <2> QED BY <1>1, <1>3, <2>1, <2>2, <2>3, CommandChanges DEF ShellInv
<1> QED BY <1>2, <1>3 DEF Start

LEMMA ExitSound ==
  ASSUME ShellInv, NEW r \in Runs, Exit(r)
  PROVE  ShellInv'
<1>1. sh[r] \in Command /\ Sound(sh[r]) /\ sh[r].child = "running"
      /\ UNCHANGED signalled
  BY DEF ShellInv, Exit
<1>2. PICK child \in {"exit0", "exit1"}, h \in BOOLEAN :
        sh' = [sh EXCEPT ![r].child = child, ![r].held = h]
  BY DEF Exit
<1>3. PICK c : c = [sh[r] EXCEPT !.child = child, !.held = h]
  OBVIOUS
<1>4. /\ c \in Command /\ c.at = sh[r].at /\ c.child = child
      /\ c.watch = sh[r].watch /\ c.ctx = sh[r].ctx /\ c.kind = sh[r].kind
  BY <1>1, <1>3 DEF Command
<1>5. Sound(c)
  BY <1>1, <1>4 DEF Sound
<1> QED BY <1>1, <1>2, <1>3, <1>4, <1>5, CommandChanges DEF ShellInv

LEMMA KillSound ==
  ASSUME ShellInv, NEW r \in Runs, Kill(r)
  PROVE  ShellInv'
<1>1. sh[r] \in Command /\ Sound(sh[r]) /\ sh[r].at = "wait" /\ UNCHANGED signalled
      /\ sh[r].ctx \in {"deadline", "cancelled"}
  BY DEF ShellInv, Kill, Command
<1>2. CASE sh[r].child = "running"
  <2>1. PICK h \in BOOLEAN :
          sh' = [sh EXCEPT ![r].child = "killed", ![r].held = h,
                           ![r].watch = sh[r].ctx]
    BY <1>2 DEF Kill
  <2>2. PICK c : c = [sh[r] EXCEPT !.child = "killed", !.held = h,
                                   !.watch = sh[r].ctx]
    OBVIOUS
  <2>3. /\ c \in Command /\ c.at = "wait" /\ c.child = "killed"
        /\ c.watch = sh[r].ctx /\ c.ctx = sh[r].ctx /\ c.kind = sh[r].kind
    BY <1>1, <2>2 DEF Command
  <2>4. Sound(c)
    BY <1>1, <2>3 DEF Sound
  <2> QED BY <1>1, <2>1, <2>2, <2>3, <2>4, CommandChanges DEF ShellInv
<1>3. CASE sh[r].child # "running"
  <2>1. sh' = [sh EXCEPT ![r].watch = sh[r].ctx]
    BY <1>3 DEF Kill
  <2>2. PICK c : c = [sh[r] EXCEPT !.watch = sh[r].ctx]
    OBVIOUS
  <2>3. /\ c \in Command /\ c.at = "wait" /\ c.child = sh[r].child
        /\ c.watch = sh[r].ctx /\ c.ctx = sh[r].ctx /\ c.kind = sh[r].kind
    BY <1>1, <2>2 DEF Command
  <2>4. Sound(c)
    BY <1>1, <2>3 DEF Sound
  <2> QED BY <1>1, <2>1, <2>2, <2>3, <2>4, CommandChanges DEF ShellInv
<1> QED BY <1>2, <1>3

LEMMA ReapSound ==
  ASSUME ShellInv, NEW r \in Runs, Reap(r)
  PROVE  ShellInv'
<1>1. sh[r] \in Command /\ Sound(sh[r]) /\ sh[r].at = "wait" /\ UNCHANGED signalled
      /\ sh[r].child \in {"exit0", "exit1", "killed"}
  BY DEF ShellInv, Reap, Command
<1>2. PICK err : err = IF sh[r].child # "exit0" THEN "exit"
                       ELSE IF sh[r].watch # "none" THEN "ctx"
                       ELSE "nil"
  OBVIOUS
<1>2a. sh' = [sh EXCEPT ![r].at = "pipes", ![r].err = err]
  BY <1>2 DEF Reap
<1>2b. /\ err \in {"exit", "ctx", "nil"}
       /\ sh[r].child # "exit0" => err = "exit"
       /\ sh[r].child = "exit0" => err # "exit"
       /\ err = "ctx" => sh[r].watch # "none"
  BY <1>2
<1>3. PICK c : c = [sh[r] EXCEPT !.at = "pipes", !.err = err]
  OBVIOUS
<1>4. /\ c \in Command /\ c.at = "pipes" /\ c.err = err /\ c.child = sh[r].child
      /\ c.watch = sh[r].watch /\ c.ctx = sh[r].ctx /\ c.kind = sh[r].kind
  BY <1>1, <1>2b, <1>3 DEF Command
<1>5. Sound(c)
  BY <1>1, <1>2b, <1>4 DEF Sound
<1> QED BY <1>1, <1>2a, <1>3, <1>4, <1>5, CommandChanges DEF ShellInv

LEMMA PipesClosedSound ==
  ASSUME ShellInv, NEW r \in Runs, PipesClosed(r)
  PROVE  ShellInv'
<1>1. sh[r] \in Command /\ Sound(sh[r]) /\ sh[r].at = "pipes" /\ UNCHANGED signalled
      /\ sh' = [sh EXCEPT ![r].at = "judge"]
  BY DEF ShellInv, PipesClosed
<1>2. PICK c : c = [sh[r] EXCEPT !.at = "judge"]
  OBVIOUS
<1>3. /\ c \in Command /\ c.at = "judge" /\ c.err = sh[r].err
      /\ c.child = sh[r].child /\ c.watch = sh[r].watch /\ c.ctx = sh[r].ctx
      /\ c.kind = sh[r].kind
  BY <1>1, <1>2 DEF Command
<1>4. Sound(c)
  BY <1>1, <1>3 DEF Sound
<1> QED BY <1>1, <1>2, <1>3, <1>4, CommandChanges DEF ShellInv

\* What a judged command is made of.
LEMMA JudgedType ==
  ASSUME NEW c \in Command, NEW result \in Results, NEW told \in Reports,
         NEW d, d = [c EXCEPT !.at = "done", !.result = result, !.told = told]
  PROVE  d \in Command
<1> DEFINE Ats == {"idle", "start", "wait", "pipes", "judge", "done"}
           Whatever == [at : Ats, kind : {"tool", "test"},
                        ctx : {"live", "deadline", "cancelled"},
                        child : {"none", "running", "exit0", "exit1", "killed"},
                        watch : {"none", "deadline", "cancelled"},
                        held : BOOLEAN, err : {"nil", "ctx", "start", "exit"},
                        result : Results, told : Reports]
<1>1. "done" \in Ats
  OBVIOUS
<1>2. Whatever = Command
  BY DEF Command
<1> HIDE DEF Ats
<1> QED BY <1>1, <1>2

LEMMA JudgeSound ==
  ASSUME ShellInv, NEW r \in Runs, Judge(r)
  PROVE  ShellInv'
<1>1. sh[r] \in Command /\ Sound(sh[r]) /\ sh[r].at = "judge" /\ UNCHANGED signalled
  BY DEF ShellInv, Judge
<1>2. PICK result, told : result = Result(sh[r]) /\ told = Told(sh[r].kind, result)
  OBVIOUS
<1>2a. sh' = [sh EXCEPT ![r].at = "done", ![r].result = result, ![r].told = told]
  BY <1>2 DEF Judge
<1>2b. /\ result \in {"ok", "failed", "timeout"}
       /\ result = "ok" <=> \/ sh[r].err = "nil"
                             \/ /\ sh[r].kind # "test" /\ sh[r].ctx # "deadline"
                                /\ sh[r].err # "exit"
       /\ result = "timeout" <=> /\ sh[r].err # "nil" /\ sh[r].kind # "test"
                                 /\ sh[r].ctx = "deadline"
  BY <1>2 DEF Result
<1>2c. /\ told \in {"nothing", "output", "error"}
       /\ sh[r].kind = "tool" => told = IF result = "timeout" THEN "error" ELSE "output"
       /\ sh[r].kind = "test" => told = IF result = "failed" THEN "error" ELSE "nothing"
  BY <1>2 DEF Told
<1>3. PICK c : c = [sh[r] EXCEPT !.at = "done", !.result = result, !.told = told]
  OBVIOUS
<1>4. /\ c \in Command /\ c.at = "done" /\ c.result = result /\ c.told = told
      /\ c.child = sh[r].child /\ c.watch = sh[r].watch /\ c.ctx = sh[r].ctx
      /\ c.kind = sh[r].kind
  <2>1. result \in Results /\ told \in Reports
    BY <1>2b, <1>2c DEF Results, Reports
  <2>2. PICK old : old = sh[r]
    OBVIOUS
  <2>3. old \in Command
    BY <1>1, <2>2
  <2>3a. c = [old EXCEPT !.at = "done", !.result = result, !.told = told]
    BY <1>3, <2>2, Zenon
  <2>4. c \in Command
    BY <2>1, <2>3, <2>3a, JudgedType, Zenon
  <2>5. c.at = "done" /\ c.result = result /\ c.told = told
    BY <2>3, <2>3a DEF Command
  <2>6. /\ c.child = old.child /\ c.watch = old.watch /\ c.ctx = old.ctx
        /\ c.kind = old.kind
    BY <2>3, <2>3a DEF Command
  <2> QED BY <2>2, <2>4, <2>5, <2>6
<1>5. Sound(c)
  BY <1>1, <1>2b, <1>2c, <1>4 DEF Sound, Command
<1> QED BY <1>1, <1>2a, <1>3, <1>4, <1>5, CommandChanges DEF ShellInv

\* The deadline, or a signal, as the first cause to end the context.
LEMMA ContextEnds ==
  ASSUME ShellInv, NEW r \in Runs, NEW ctx \in {"deadline", "cancelled"},
         sh[r].ctx = "live", ctx = "deadline" => sh[r].kind = "tool", Busy(r),
         sh' = [sh EXCEPT ![r].ctx = ctx], signalled' \subseteq Runs
  PROVE  ShellInv'
<1>1. sh[r] \in Command /\ Sound(sh[r]) /\ sh[r].at \notin {"idle", "done"}
  BY DEF ShellInv, Busy
<1>2. PICK c : c = [sh[r] EXCEPT !.ctx = ctx]
  OBVIOUS
<1>3. /\ c \in Command /\ c.at = sh[r].at /\ c.err = sh[r].err
      /\ c.child = sh[r].child /\ c.watch = sh[r].watch /\ c.ctx = ctx
      /\ c.kind = sh[r].kind
  BY <1>1, <1>2 DEF Command
<1>4. Sound(c)
  BY <1>1, <1>3 DEF Sound, Command
<1> QED BY <1>1, <1>2, <1>3, <1>4, CommandChanges DEF ShellInv

LEMMA WorldSound ==
  ASSUME ShellInv, NEW r \in Runs, Expire(r) \/ Signal(r) \/ BackgroundEnds(r)
  PROVE  ShellInv'
<1>1. CASE Expire(r)
  BY <1>1, ContextEnds DEF Expire, ShellInv
<1>2. CASE Signal(r)
  <2>1. CASE sh[r].ctx = "live"
    BY <1>2, <2>1, ContextEnds DEF Signal, ShellInv
  <2>2. CASE sh[r].ctx # "live"
    BY <1>2, <2>2 DEF Signal, ShellInv
  <2> QED BY <2>1, <2>2
<1>3. CASE BackgroundEnds(r)
  <2>1. PICK c : c = [sh[r] EXCEPT !.held = FALSE]
    OBVIOUS
  <2>2. sh[r] \in Command /\ Sound(sh[r])
    BY DEF ShellInv
  <2>3. /\ c \in Command /\ c.at = sh[r].at /\ c.err = sh[r].err
        /\ c.child = sh[r].child /\ c.watch = sh[r].watch /\ c.ctx = sh[r].ctx
        /\ c.kind = sh[r].kind /\ c.result = sh[r].result /\ c.told = sh[r].told
    BY <2>1, <2>2 DEF Command
  <2>4. Sound(c)
    BY <2>2, <2>3 DEF Sound
  <2> QED BY <1>3, <2>1, <2>3, <2>4, CommandChanges DEF BackgroundEnds, ShellInv
<1> QED BY <1>1, <1>2, <1>3

LEMMA ShellStep == ShellInv /\ [Next]_vars => ShellInv'
<1> SUFFICES ASSUME ShellInv, [Next]_vars PROVE ShellInv'
  OBVIOUS
<1>1. CASE UNCHANGED shell
  BY <1>1 DEF shell, ShellInv
<1>2. CASE UNCHANGED vars
  BY <1>1, <1>2 DEF vars
<1>3. ASSUME NEW r \in Runs,
             \/ WriteFile(r) \/ RefuseWrite(r) \/ Write(r)
             \/ ReadFile(r) \/ ReadOpened(r)
      PROVE  ShellInv'
  BY <1>1, <1>3, Zenon DEF WriteFile, RefuseWrite, Write, OpenTmp, Fill, Rename,
     RemoveTmp, HashBefore, Insert, ReadFile, ReadOpened
<1>4. ASSUME NEW r \in Runs, RunCommand(r) \/ Drive(r) \/ CommandDone(r)
      PROVE  ShellInv'
  <2>1. CASE RunCommand(r)
    BY <2>1, RunShellSound DEF RunCommand
  <2>2. CASE Drive(r)
    BY <2>2, StartSound, KillSound, ReapSound, PipesClosedSound, JudgeSound DEF Drive
  <2>3. CASE CommandDone(r)
    BY <2>3, NoCommandSound, CommandChanges DEF CommandDone, ShellInv
  <2> QED BY <1>4, <2>1, <2>2, <2>3
<1>5. ASSUME NEW r \in Runs, Outside(r) \/ Die(r) PROVE ShellInv'
  <2>1. CASE Outside(r)
    BY <2>1, ExitSound, WorldSound DEF Outside
  <2>2. CASE Die(r)
    BY <2>2, NoCommandSound, CommandChanges DEF Die, ShellInv
  <2> QED BY <1>5, <2>1, <2>2
<1> QED BY <1>2, <1>3, <1>4, <1>5 DEF Next

LEMMA ShellStarts == Init => ShellInv
BY NoCommandSound DEF Init, ShellInit, ShellInv

\* What is returned of a command is what happened to it, whichever of its end,
\* its deadline, a signal and the watcher of its context comes first; the model
\* hears of a timeout and of a failed test, and not of the exit code of a tool's
\* command (runShell, runTestCommand, dispatchToolUse).
THEOREM ResultsAreTrue == Spec => []ShellResultIsTrue
<1>1. ShellInv => ShellResultIsTrue
  BY DEF ShellInv, Sound, ShellResultIsTrue
<1> QED BY <1>1, ShellStarts, ShellStep, PTL DEF Spec

-----------------------------------------------------------------------------
(* The tool calls: what they hold at every point.                          *)

Stages == {"idle", "open", "fill", "rename", "remove", "hash", "insert", "read",
           "command"}

\* A call that may still be reported as failed.
Failable == {"open", "fill", "rename", "remove"}

Typed ==
  /\ file \in [Files -> Inodes]
  /\ tmp \in [Files -> Inodes \cup {None}]
  /\ content \in [Inodes -> Contents]
  /\ call \in [Runs -> ToolCall]
  /\ seen \in [Runs -> Reading \cup {None}]
  /\ rows \in Seq(Row)
  /\ dead \subseteq Runs /\ made \in 0..MaxCalls /\ faults \in 0..MaxFaults
  /\ overlapped \subseteq Files /\ lost \subseteq Files /\ refused \subseteq Calls

Shape(c) ==
  /\ c.at \in Failable \cup {"hash", "insert", "read"} => c.path \in Files
  /\ c.at \in {"fill", "read"} => c.fd \in Inodes
  /\ c.at = "insert" => c.before \in Contents
  /\ c.at # "idle" => c.n >= 1

CallsInv == Typed /\ \A r \in Runs : Shape(call[r]) /\ call[r].n =< made

\* Only r's call changes.
Others(r) == \A q \in Runs \ {r} : call'[q] = call[q]

\* r goes to another statement of its call, or of a new one.
Leaves(r, l) ==
  /\ Others(r) /\ call'[r].at = l /\ call'[r].path = call[r].path
  /\ call'[r].n = call[r].n /\ call'[r].fd = call[r].fd

Takes(r, l, f, fd) ==
  /\ Others(r) /\ call'[r].at = l /\ call'[r].path = f
  /\ call'[r].n = call[r].n + 1 /\ call'[r].fd = fd

LEMMA CallChanges ==
  ASSUME Typed, NEW r \in Runs, NEW c \in ToolCall, call' = [call EXCEPT ![r] = c]
  PROVE  call' \in [Runs -> ToolCall] /\ Others(r) /\ call'[r] = c
BY DEF Typed, Others

LEMMA GotoEffect ==
  ASSUME Typed, NEW r \in Runs, NEW l \in Stages, Goto(r, l)
  PROVE  /\ call' \in [Runs -> ToolCall] /\ Leaves(r, l)
         /\ call'[r].before = call[r].before
<1>1. PICK c : c = [call[r] EXCEPT !.at = l]
  OBVIOUS
<1>2. call[r] \in ToolCall
  BY DEF Typed
<1>3. /\ c \in ToolCall /\ c.at = l /\ c.path = call[r].path /\ c.n = call[r].n
      /\ c.fd = call[r].fd /\ c.before = call[r].before
  BY <1>1, <1>2 DEF ToolCall, Stages
<1>4. call' = [call EXCEPT ![r] = c]
  BY <1>1 DEF Goto
<1> QED BY <1>3, <1>4, CallChanges DEF Leaves

LEMMA DispatchEffect ==
  ASSUME CallsInv, NEW r \in Runs, NEW l \in Stages, NEW f \in Files \cup {None},
         NEW fd \in Inodes \cup {None}, Dispatch(r, f, l, fd)
  PROVE  /\ call' \in [Runs -> ToolCall] /\ Takes(r, l, f, fd)
         /\ r \notin dead /\ call[r].at = "idle"
         /\ call'[r].before = None /\ call'[r].n >= 1
         /\ made' \in 0..MaxCalls /\ \A q \in Runs : call'[q].n =< made'
<1>1. PICK n : n = call[r].n + 1
  OBVIOUS
<1>2. /\ call[r] \in ToolCall /\ call[r].n \in 0..MaxCalls /\ call[r].n =< made
      /\ made \in 0..MaxCalls /\ made < MaxCalls /\ made' = made + 1
      /\ MaxCalls \in Nat
  BY WorkspaceAssumption DEF CallsInv, Typed, Dispatch, ToolCall
<1>3. n \in 1..MaxCalls /\ n =< made' /\ made' \in 0..MaxCalls
  BY <1>1, <1>2
<1>4. PICK c : c = [at |-> l, path |-> f, n |-> n, fd |-> fd, before |-> None]
  OBVIOUS
<1>5. c \in ToolCall
  BY <1>3, <1>4 DEF ToolCall, Stages
<1>6. call' = [call EXCEPT ![r] = c]
  BY <1>1, <1>4 DEF Dispatch
<1>7. call' \in [Runs -> ToolCall] /\ Others(r) /\ call'[r] = c
  BY <1>5, <1>6, CallChanges DEF CallsInv
<1>8. \A q \in Runs : call[q].n \in 0..MaxCalls /\ call[q].n =< made
  BY DEF CallsInv, Typed, ToolCall
<1>9. \A q \in Runs : call'[q].n =< made'
  BY <1>2, <1>3, <1>4, <1>7, <1>8 DEF Others
<1> QED BY <1>1, <1>3, <1>4, <1>7, <1>9 DEF Takes, Dispatch, At

\* A step in which r's call goes on, or starts, in good shape.
LEMMA CallGoesOn ==
  ASSUME CallsInv, Typed', NEW r \in Runs, Others(r), Shape(call'[r]),
         made' >= made, call'[r].n =< made'
  PROVE  CallsInv'
<1>1. ASSUME NEW q \in Runs PROVE Shape(call'[q]) /\ call'[q].n =< made'
  <2>1. CASE q = r
    BY <2>1
  <2>2. CASE q # r
    <3>1. call'[q] = call[q] /\ Shape(call[q]) /\ call[q].n =< made
      BY <2>2 DEF Others, CallsInv
    <3>2. call[q].n \in 0..MaxCalls /\ made \in 0..MaxCalls /\ made' \in 0..MaxCalls
      BY DEF CallsInv, Typed, ToolCall
    <3> QED BY <3>1, <3>2, WorkspaceAssumption
  <2> QED BY <2>1, <2>2
<1> QED BY <1>1 DEF CallsInv

\* Goto to a statement that asks for no more than the one before it.
LEMMA GotoShape ==
  ASSUME CallsInv, NEW r \in Runs, NEW l, Leaves(r, l), call[r].at # "idle",
         l \in Failable \cup {"hash", "insert"} => call[r].path \in Files,
         l \notin {"fill", "read", "insert"}, UNCHANGED made, Typed'
  PROVE  CallsInv'
<1>1. Shape(call'[r]) /\ call'[r].n =< made'
  BY DEF Leaves, CallsInv, Shape, Failable
<1>2. made' >= made
  BY WorkspaceAssumption DEF CallsInv, Typed
<1> QED BY <1>1, <1>2, CallGoesOn DEF Leaves

LEMMA NewCallShape ==
  ASSUME CallsInv, NEW r \in Runs, NEW f \in Files \cup {None},
         NEW l \in {"open", "read", "idle", "command"},
         NEW fd \in Inodes \cup {None},
         l \in {"open", "read"} => f \in Files, l = "read" => fd \in Inodes,
         Dispatch(r, f, l, fd),
         UNCHANGED <<file, tmp, content, rows, dead, faults, lost, refused, seen>>,
         overlapped' \subseteq Files
  PROVE  CallsInv'
<1>0. l \in Stages
  BY DEF Stages
<1>1. /\ call' \in [Runs -> ToolCall] /\ Takes(r, l, f, fd) /\ call'[r].n >= 1
      /\ made' \in 0..MaxCalls /\ call'[r].n =< made' /\ made' = made + 1
      /\ made \in 0..MaxCalls
  BY <1>0, DispatchEffect DEF CallsInv, Typed, Dispatch
<1>2. Typed'
  BY <1>1 DEF CallsInv, Typed
<1>3. Shape(call'[r])
  BY <1>1 DEF Shape, Takes, Failable
<1>4. made' >= made
  BY <1>1, WorkspaceAssumption
<1> QED BY <1>1, <1>2, <1>3, <1>4, CallGoesOn DEF Takes

LEMMA IdOfCall ==
  ASSUME CallsInv, NEW r \in Runs, call[r].at # "idle"
  PROVE  Id(r) \in Calls
<1>1. call[r].n \in 0..MaxCalls /\ call[r].n >= 1
  BY DEF CallsInv, Typed, ToolCall, Shape
<1> QED BY <1>1, WorkspaceAssumption DEF Id, Calls

LEMMA StartsTyped ==
  ASSUME CallsInv, NEW r \in Runs,
         WriteFile(r) \/ RefuseWrite(r) \/ ReadFile(r) \/ RunCommand(r)
  PROVE  CallsInv'
<1>1. CASE WriteFile(r)
  <2>1. PICK f \in Files : Dispatch(r, f, "open", None)
    BY <1>1 DEF WriteFile
  <2>2. overlapped' \subseteq Files
    BY <1>1 DEF WriteFile, CallsInv, Typed
  <2> QED BY <1>1, <2>1, <2>2, NewCallShape DEF WriteFile, disk
<1>2. CASE RefuseWrite(r)
  <2>1. overlapped' \subseteq Files
    BY <1>2 DEF RefuseWrite, CallsInv, Typed, history
  <2> QED BY <1>2, <2>1, NewCallShape DEF RefuseWrite, disk, history
<1>3. CASE ReadFile(r)
  <2>1. PICK f \in Files : Dispatch(r, f, "read", file[f])
    BY <1>3 DEF ReadFile
  <2>2. file[f] \in Inodes /\ overlapped' \subseteq Files
    BY <1>3 DEF CallsInv, Typed, ReadFile, history
  <2> QED BY <1>3, <2>1, <2>2, NewCallShape DEF ReadFile, disk, history
<1>4. CASE RunCommand(r)
  <2>1. overlapped' \subseteq Files
    BY <1>4 DEF RunCommand, AloneShell, CallsInv, Typed, history
  <2> QED BY <1>4, <2>1, NewCallShape DEF RunCommand, AloneShell, disk, history
<1> QED BY <1>1, <1>2, <1>3, <1>4

LEMMA FaultTyped ==
  ASSUME CallsInv, Works \/ Fails
  PROVE  faults' \in 0..MaxFaults
BY WorkspaceAssumption DEF CallsInv, Typed, Works, Fails

\* What OpenTmp does, to the temporary file and to the call.
LEMMA OpenTmpEffect ==
  ASSUME CallsInv, NEW r \in Runs, OpenTmp(r)
  PROVE  \/ \E i \in Inodes :
              /\ i = IF tmp[call[r].path] = None THEN Id(r) ELSE tmp[call[r].path]
              /\ tmp' = [tmp EXCEPT ![call[r].path] = i]
              /\ content' = [content EXCEPT ![i] = Empty]
              /\ call' \in [Runs -> ToolCall] /\ Others(r)
              /\ call'[r].at = "fill" /\ call'[r].path = call[r].path
              /\ call'[r].n = call[r].n /\ call'[r].fd = i
              /\ UNCHANGED <<file, refused, faults>>
         \/ ReportError(r) /\ UNCHANGED disk
<1> DEFINE f == call[r].path
<1>1. /\ f \in Files /\ Id(r) \in Inodes /\ tmp[f] \in Inodes \cup {None}
      /\ call[r] \in ToolCall
  <2>1. f \in Files /\ Id(r) \in Calls
    BY IdOfCall DEF CallsInv, Shape, OpenTmp, At, Failable
  <2> QED BY <2>1 DEF CallsInv, Typed, Inodes
<1>2. PICK i \in Inodes : i = IF tmp[f] = None THEN Id(r) ELSE tmp[f]
  BY <1>1
<1>3. CASE /\ tmp' = [tmp EXCEPT ![f] = i]
           /\ content' = [content EXCEPT ![i] = Empty]
           /\ call' = [call EXCEPT ![r].at = "fill", ![r].fd = i]
           /\ UNCHANGED <<file, refused>> /\ Works
  <2>1. PICK c : c = [call[r] EXCEPT !.at = "fill", !.fd = i]
    OBVIOUS
  <2>2. /\ c \in ToolCall /\ c.at = "fill" /\ c.fd = i /\ c.path = f
        /\ c.n = call[r].n
    BY <1>1, <2>1 DEF ToolCall
  <2>3. call' = [call EXCEPT ![r] = c]
    BY <1>3, <2>1
  <2>4. call' \in [Runs -> ToolCall] /\ Others(r) /\ call'[r] = c
    BY <2>2, <2>3, CallChanges DEF CallsInv
  <2> QED BY <1>2, <1>3, <2>2, <2>4 DEF Works
<1>4. CASE ReportError(r) /\ UNCHANGED disk
  BY <1>4
<1> QED BY <1>2, <1>3, <1>4 DEF OpenTmp

\* An error that is reported ends the call.
LEMMA ReportEffect ==
  ASSUME CallsInv, NEW r \in Runs, ReportError(r), call[r].at \in Failable
  PROVE  /\ call' \in [Runs -> ToolCall] /\ Leaves(r, "idle")
         /\ refused' = refused \cup {Id(r)} /\ refused' \subseteq Calls
<1>1. Id(r) \in Calls
  BY IdOfCall DEF Failable
<1>2. Goto(r, "idle") /\ refused' = refused \cup {Id(r)}
  BY DEF ReportError
<1>3. call' \in [Runs -> ToolCall] /\ Leaves(r, "idle")
  BY <1>2, GotoEffect DEF CallsInv, Stages
<1> QED BY <1>1, <1>2, <1>3 DEF CallsInv, Typed

LEMMA WritingTyped ==
  ASSUME CallsInv, NEW r \in Runs, OpenTmp(r) \/ Fill(r) \/ Rename(r) \/ RemoveTmp(r)
  PROVE  CallsInv'
<1>1. /\ call[r].at \in Failable /\ call[r].at # "idle" /\ call[r].path \in Files
      /\ UNCHANGED <<made, seen, rows, dead, overlapped, lost>>
      /\ faults' \in 0..MaxFaults
  BY FaultTyped DEF OpenTmp, Fill, Rename, RemoveTmp, At, Failable, CallsInv, Shape,
     history, Typed, Works
<1>2. {Empty, Torn} \subseteq Contents
  BY DEF Contents
<1>3. ASSUME ReportError(r), file' = file, tmp' \in [Files -> Inodes \cup {None}],
             content' \in [Inodes -> Contents]
      PROVE  CallsInv'
  <2>1. /\ call' \in [Runs -> ToolCall] /\ Leaves(r, "idle")
        /\ refused' \subseteq Calls
    BY <1>1, <1>3, ReportEffect
  <2>2. Typed'
    BY <1>1, <1>3, <2>1 DEF CallsInv, Typed
  <2> QED BY <1>1, <2>1, <2>2, GotoShape DEF Failable
<1>4. ASSUME NEW l \in {"rename", "remove", "hash"}, Goto(r, l), refused' = refused,
             file' \in [Files -> Inodes], tmp' \in [Files -> Inodes \cup {None}],
             content' \in [Inodes -> Contents]
      PROVE  CallsInv'
  <2>1. call' \in [Runs -> ToolCall] /\ Leaves(r, l)
    BY <1>4, GotoEffect DEF CallsInv, Stages
  <2>2. Typed'
    BY <1>1, <1>4, <2>1 DEF CallsInv, Typed
  <2> QED BY <1>1, <2>1, <2>2, GotoShape DEF Failable
<1>5. CASE OpenTmp(r)
  <2>1. CASE ReportError(r) /\ UNCHANGED disk
    BY <1>3, <2>1 DEF disk, CallsInv, Typed
  <2>2. CASE ~(ReportError(r) /\ UNCHANGED disk)
    <3>1. PICK i \in Inodes :
            /\ tmp' = [tmp EXCEPT ![call[r].path] = i]
            /\ content' = [content EXCEPT ![i] = Empty]
            /\ call' \in [Runs -> ToolCall] /\ Others(r)
            /\ call'[r].at = "fill" /\ call'[r].path = call[r].path
            /\ call'[r].n = call[r].n /\ call'[r].fd = i
            /\ UNCHANGED <<file, refused, faults>>
      BY <1>5, <2>2, OpenTmpEffect
    <3>2. Typed'
      BY <1>1, <1>2, <3>1 DEF CallsInv, Typed
    <3>3. Shape(call'[r]) /\ call'[r].n =< made'
      BY <1>1, <3>1 DEF Shape, CallsInv, Failable
    <3>4. made' >= made
      BY <1>1, WorkspaceAssumption DEF CallsInv, Typed
    <3> QED BY <3>1, <3>2, <3>3, <3>4, CallGoesOn
  <2> QED BY <2>1, <2>2
<1>6. CASE Fill(r)
  <2>1. call[r].fd \in Inodes /\ Id(r) \in Contents /\ UNCHANGED <<file, tmp>>
    BY <1>1, <1>6, IdOfCall DEF Fill, At, CallsInv, Shape, Contents
  <2>2. CASE /\ content' = [content EXCEPT ![call[r].fd] = Torn] /\ ReportError(r)
    BY <1>2, <1>3, <2>1, <2>2 DEF CallsInv, Typed
  <2>3. ASSUME NEW c \in Contents, content' = [content EXCEPT ![call[r].fd] = c],
               Goto(r, "rename"), UNCHANGED refused
        PROVE  CallsInv'
    BY <1>4, <2>1, <2>3 DEF CallsInv, Typed
  <2> QED BY <1>2, <1>6, <2>1, <2>2, <2>3 DEF Fill
<1>7. CASE Rename(r)
  <2>1. UNCHANGED <<content, refused>>
    BY <1>7 DEF Rename, history
  <2>2. CASE /\ tmp[call[r].path] # None
             /\ file' = [file EXCEPT ![call[r].path] = tmp[call[r].path]]
             /\ tmp' = [tmp EXCEPT ![call[r].path] = None]
             /\ Goto(r, "hash")
    BY <1>1, <1>4, <2>1, <2>2 DEF CallsInv, Typed
  <2>3. CASE Goto(r, "remove") /\ UNCHANGED <<file, tmp>>
    BY <1>4, <2>1, <2>3 DEF CallsInv, Typed
  <2> QED BY <1>7, <2>2, <2>3 DEF Rename
<1>8. CASE RemoveTmp(r)
  BY <1>1, <1>3, <1>8 DEF RemoveTmp, CallsInv, Typed
<1> QED BY <1>5, <1>6, <1>7, <1>8

LEMMA HashBeforeEffect ==
  ASSUME CallsInv, NEW r \in Runs, HashBefore(r)
  PROVE  /\ call' \in [Runs -> ToolCall] /\ Leaves(r, "insert")
         /\ call'[r].before \in Contents
<1>1. /\ call[r].at = "hash" /\ call[r].path \in Files /\ call[r] \in ToolCall
  BY DEF HashBefore, At, CallsInv, Typed, Shape
<1>2. PICK b \in Contents : b = content[file[call[r].path]]
  BY <1>1 DEF CallsInv, Typed
<1>3. PICK c : c = [call[r] EXCEPT !.at = "insert", !.before = b]
  OBVIOUS
<1>4. /\ c \in ToolCall /\ c.at = "insert" /\ c.path = call[r].path
      /\ c.n = call[r].n /\ c.fd = call[r].fd /\ c.before = b
  BY <1>1, <1>2, <1>3 DEF ToolCall
<1>5. call' = [call EXCEPT ![r] = c]
  BY <1>2, <1>3 DEF HashBefore
<1>6. call' \in [Runs -> ToolCall] /\ Others(r) /\ call'[r] = c
  BY <1>4, <1>5, CallChanges DEF CallsInv
<1> QED BY <1>2, <1>4, <1>6 DEF Leaves

LEMMA RecordingTyped ==
  ASSUME CallsInv, NEW r \in Runs, HashBefore(r) \/ Insert(r) \/ ReadOpened(r)
  PROVE  CallsInv'
<1>1. CASE HashBefore(r)
  <2>1. /\ call[r].at = "hash" /\ call[r].path \in Files /\ call[r].n >= 1
    BY <1>1 DEF HashBefore, At, CallsInv, Shape
  <2>2. /\ call' \in [Runs -> ToolCall] /\ Leaves(r, "insert")
        /\ call'[r].before \in Contents
    BY <1>1, HashBeforeEffect
  <2>3. Typed' /\ UNCHANGED made
    BY <1>1, <2>2 DEF HashBefore, CallsInv, Typed, disk, history
  <2>4. Shape(call'[r])
    BY <2>1, <2>2 DEF Leaves, Shape, Failable
  <2>5. call'[r].n =< made' /\ made' >= made
    BY <2>2, <2>3, WorkspaceAssumption DEF Leaves, CallsInv, Typed
  <2> QED BY <2>2, <2>3, <2>4, <2>5, CallGoesOn DEF Leaves
<1>2. CASE Insert(r)
  <2>1. /\ call[r].at = "insert" /\ call[r].path \in Files
        /\ call[r].before \in Contents /\ Id(r) \in Calls
    BY <1>2, IdOfCall DEF Insert, At, CallsInv, Shape
  <2>2. call' \in [Runs -> ToolCall] /\ Leaves(r, "idle")
    BY <1>2, GotoEffect DEF Insert, CallsInv, Stages
  <2>3. PICK row : row = [path |-> call[r].path, before |-> call[r].before,
                          after |-> Id(r)]
    OBVIOUS
  <2>4. row \in Row
    BY <2>1, <2>3 DEF Row
  <2>5. rows' \in Seq(Row)
    <3>1. rows' = Append(rows, row) \/ rows' = rows
      BY <1>2, <2>3 DEF Insert
    <3> QED BY <2>4, <3>1 DEF CallsInv, Typed
  <2>6. lost' \subseteq Files /\ faults' \in 0..MaxFaults
    BY <1>2, <2>1, FaultTyped DEF Insert, CallsInv, Typed
  <2>7. Typed' /\ UNCHANGED made
    BY <1>2, <2>2, <2>5, <2>6 DEF Insert, CallsInv, Typed, disk
  <2> QED BY <2>1, <2>2, <2>7, GotoShape DEF Failable
<1>3. CASE ReadOpened(r)
  <2>1. call[r].at = "read" /\ call[r].path \in Files /\ call[r].fd \in Inodes
    BY <1>3 DEF ReadOpened, At, CallsInv, Shape
  <2>2. call' \in [Runs -> ToolCall] /\ Leaves(r, "idle")
    BY <1>3, GotoEffect DEF ReadOpened, CallsInv, Stages
  <2>3. PICK reading : reading = [path |-> call[r].path,
                                  content |-> content[call[r].fd]]
    OBVIOUS
  <2>4. reading \in Reading
    BY <2>1, <2>3 DEF Reading, CallsInv, Typed
  <2>5. seen' = [seen EXCEPT ![r] = reading]
    BY <1>3, <2>3 DEF ReadOpened
  <2>6. Typed' /\ UNCHANGED made
    BY <1>3, <2>2, <2>4, <2>5 DEF ReadOpened, CallsInv, Typed, disk, history
  <2> QED BY <2>1, <2>2, <2>6, GotoShape DEF Failable
<1> QED BY <1>1, <1>2, <1>3

LEMMA DieEffect ==
  ASSUME CallsInv, NEW r \in Runs, Die(r)
  PROVE  /\ call' \in [Runs -> ToolCall] /\ Others(r)
         /\ call'[r].at = "idle" /\ call'[r].path = None
         /\ call'[r].fd = None /\ call'[r].n = call[r].n
<1>1. PICK c : c = [NoCall EXCEPT !.n = call[r].n]
  OBVIOUS
<1>2. /\ c.at = "idle" /\ c.path = None /\ c.fd = None /\ c.n = call[r].n
      /\ c \in ToolCall
  BY <1>1 DEF NoCall, ToolCall, CallsInv, Typed
<1> QED BY <1>1, <1>2, CallChanges DEF Die, CallsInv

LEMMA RestTyped ==
  ASSUME CallsInv, NEW r \in Runs,
         Drive(r) \/ CommandDone(r) \/ Outside(r) \/ Die(r)
  PROVE  CallsInv'
<1>1. CASE Drive(r) \/ Outside(r)
  <2>1. UNCHANGED <<file, tmp, content, call, seen, rows, dead, made, faults,
                    overlapped, lost, refused>>
    BY <1>1 DEF Drive, Outside, AloneShell, disk, history
  <2> QED BY <2>1 DEF CallsInv, Typed
<1>2. CASE CommandDone(r)
  <2>1. call[r].at # "idle" /\ UNCHANGED made
    BY <1>2 DEF CommandDone, At
  <2>2. call' \in [Runs -> ToolCall] /\ Leaves(r, "idle")
    BY <1>2, GotoEffect DEF CommandDone, CallsInv, Stages
  <2>3. Typed'
    BY <1>2, <2>2 DEF CommandDone, AloneShell, CallsInv, Typed, disk, history
  <2> QED BY <2>1, <2>2, <2>3, GotoShape DEF Failable
<1>3. CASE Die(r)
  <2>1. /\ call' \in [Runs -> ToolCall] /\ Others(r)
        /\ call'[r].at = "idle" /\ call'[r].n = call[r].n
    BY <1>3, DieEffect
  <2>2. lost' \subseteq Files
    <3>1. call[r].at \in {"hash", "insert"} => call[r].path \in Files
      BY DEF CallsInv, Shape
    <3> QED BY <1>3, <3>1 DEF Die, CallsInv, Typed
  <2>3. Typed' /\ UNCHANGED made
    BY <1>3, <2>1, <2>2 DEF Die, CallsInv, Typed, disk
  <2>4. Shape(call'[r]) /\ call'[r].n =< made' /\ made' >= made
    BY <2>1, <2>3, WorkspaceAssumption DEF Shape, CallsInv, Typed, Failable
  <2> QED BY <2>1, <2>3, <2>4, CallGoesOn
<1> QED BY <1>1, <1>2, <1>3

LEMMA CallsStart == Init => CallsInv
<1> SUFFICES ASSUME Init PROVE CallsInv
  OBVIOUS
<1>1. NoCall \in ToolCall /\ Shape(NoCall) /\ NoCall.n = 0
  BY WorkspaceAssumption DEF NoCall, ToolCall, Shape, Failable
<1>2. /\ call \in [Runs -> ToolCall] /\ \A r \in Runs : call[r] = NoCall
  BY <1>1 DEF Init
<1>3. /\ made \in 0..MaxCalls /\ made = 0 /\ faults \in 0..MaxFaults /\ dead \subseteq Runs
      /\ overlapped \subseteq Files /\ lost \subseteq Files /\ refused \subseteq Calls
  BY WorkspaceAssumption DEF Init
<1>4. /\ file \in [Files -> Inodes] /\ tmp \in [Files -> Inodes \cup {None}]
      /\ content \in [Inodes -> Contents] /\ rows \in Seq(Row)
      /\ seen \in [Runs -> Reading \cup {None}]
  BY DEF Init, Inodes, Contents
<1>5. \A r \in Runs : Shape(call[r]) /\ call[r].n =< made
  BY <1>1, <1>2, <1>3
<1> QED BY <1>2, <1>3, <1>4, <1>5 DEF CallsInv, Typed

LEMMA CallsStep == CallsInv /\ [Next]_vars => CallsInv'
<1> SUFFICES ASSUME CallsInv, [Next]_vars PROVE CallsInv'
  OBVIOUS
<1>1. CASE UNCHANGED vars
  BY <1>1 DEF vars, disk, history, CallsInv, Typed
<1>2. ASSUME NEW r \in Runs,
             \/ WriteFile(r) \/ RefuseWrite(r) \/ Write(r)
             \/ ReadFile(r) \/ ReadOpened(r)
             \/ RunCommand(r) \/ Drive(r) \/ CommandDone(r)
             \/ Outside(r) \/ Die(r)
      PROVE  CallsInv'
  BY <1>2, StartsTyped, WritingTyped, RecordingTyped, RestTyped DEF Write
<1> QED BY <1>1, <1>2 DEF Next

\* Every variable of the tools, their calls, the files they work on and the
\* commands they start stays in its type.
THEOREM TypeCorrect == Spec => []TypeOK
<1>1. CallsInv /\ ShellInv => TypeOK
  BY DEF CallsInv, Typed, ShellInv, TypeOK
<1> QED BY <1>1, CallsStart, CallsStep, ShellStarts, ShellStep, PTL DEF Spec

-----------------------------------------------------------------------------
(* Whose inode is whose.                                                   *)

\* i is the file f, its temporary file, or what a call on f has opened.
Of(f, i) ==
  i = file[f] \/ i = tmp[f] \/ \E r \in Runs : call[r].path = f /\ call[r].fd = i

\* Two files have no inode in common, and the one a call is about to make is
\* nobody's.
InodesInv ==
  /\ \A f, g \in Files, i \in Inodes : Of(f, i) /\ Of(g, i) => f = g
  /\ \A f \in Files, r \in Runs, n \in 1..MaxCalls :
       Of(f, <<r, n>>) => n =< call[r].n /\ (call[r].at = "open" => n # call[r].n)

\* A step of r that gives a file no inode but the one that r is making for it.
LEMMA InodesStay ==
  ASSUME CallsInv, CallsInv', InodesInv, NEW r \in Runs, Others(r),
         \/ call'[r].n = call[r].n /\ call'[r].at # "open"
         \/ call'[r].n = call[r].n + 1,
         \A f \in Files, i \in Inodes : Of(f, i)' =>
           \/ Of(f, i)
           \/ /\ call[r].at = "open" /\ call[r].path = f /\ i = Id(r)
              /\ call'[r].n = call[r].n
  PROVE  InodesInv'
<1>1. \A q \in Runs : call[q].n \in 0..MaxCalls /\ call'[q].n \in 0..MaxCalls
  BY DEF CallsInv, Typed, ToolCall
<1>2. ASSUME call[r].at = "open", NEW f \in Files PROVE ~Of(f, Id(r))
  <2>1. call[r].n \in 1..MaxCalls
    BY <1>1, <1>2, WorkspaceAssumption DEF CallsInv, Shape
  <2> QED BY <1>2, <2>1 DEF InodesInv, Id
<1>3. ASSUME NEW f \in Files, NEW g \in Files, NEW i \in Inodes, Of(f, i)', Of(g, i)'
      PROVE  f = g
  BY <1>2, <1>3 DEF InodesInv
<1>4. ASSUME NEW f \in Files, NEW q \in Runs, NEW n \in 1..MaxCalls, Of(f, <<q, n>>)'
      PROVE  n =< call'[q].n /\ (call'[q].at = "open" => n # call'[q].n)
  <2>0. <<q, n>> \in Inodes
    BY DEF Inodes, Calls
  <2>1. CASE Of(f, <<q, n>>)
    <3>1. n =< call[q].n /\ (call[q].at = "open" => n # call[q].n)
      BY <2>1 DEF InodesInv
    <3>2. CASE q = r
      BY <1>1, <3>1, <3>2, WorkspaceAssumption
    <3>3. CASE q # r
      BY <3>1, <3>3 DEF Others
    <3> QED BY <3>2, <3>3
  <2>2. CASE <<q, n>> = Id(r) /\ call[r].at = "open" /\ call'[r].n = call[r].n
    BY <1>1, <2>2, WorkspaceAssumption DEF Id
  <2> QED BY <1>4, <2>0, <2>1, <2>2
<1> QED BY <1>3, <1>4 DEF InodesInv

\* New calls, and calls that end or go on, give nothing away.
LEMMA StartsInodes ==
  ASSUME CallsInv, CallsInv', InodesInv, NEW r \in Runs, NEW f \in Files \cup {None},
         NEW l \in Stages, NEW fd \in Inodes \cup {None}, Dispatch(r, f, l, fd),
         fd # None => f \in Files /\ fd = file[f], UNCHANGED <<file, tmp>>
  PROVE  InodesInv'
<1>1. Takes(r, l, f, fd)
  BY DispatchEffect
<1>2. \A g \in Files, i \in Inodes : Of(g, i)' => Of(g, i)
  BY <1>1, WorkspaceAssumption DEF Of, Takes, Others
<1> QED BY <1>1, <1>2, InodesStay DEF Takes

LEMMA LeavesInodes ==
  ASSUME CallsInv, CallsInv', InodesInv, NEW r \in Runs, NEW l, l # "open",
         Leaves(r, l), file' = file, \A f \in Files : tmp'[f] \in {tmp[f], None}
  PROVE  InodesInv'
<1>1. \A g \in Files, i \in Inodes : Of(g, i)' => Of(g, i)
  BY WorkspaceAssumption DEF Of, Leaves, Others
<1> QED BY <1>1, InodesStay DEF Leaves

LEMMA StartsInodesInv ==
  ASSUME CallsInv, CallsInv', InodesInv, NEW r \in Runs,
         WriteFile(r) \/ RefuseWrite(r) \/ ReadFile(r) \/ RunCommand(r)
  PROVE  InodesInv'
<1>1. CASE WriteFile(r)
  BY <1>1, StartsInodes DEF WriteFile, disk, Stages
<1>2. CASE RefuseWrite(r)
  BY <1>2, StartsInodes DEF RefuseWrite, disk, Stages
<1>3. CASE ReadFile(r)
  <2>1. PICK f \in Files : Dispatch(r, f, "read", file[f])
    BY <1>3 DEF ReadFile
  <2>2. file[f] \in Inodes
    BY DEF CallsInv, Typed
  <2> QED BY <1>3, <2>1, <2>2, StartsInodes DEF ReadFile, disk, Stages
<1>4. CASE RunCommand(r)
  BY <1>4, StartsInodes DEF RunCommand, AloneShell, disk, Stages
<1> QED BY <1>1, <1>2, <1>3, <1>4

LEMMA WritingInodesInv ==
  ASSUME CallsInv, CallsInv', InodesInv, NEW r \in Runs,
         OpenTmp(r) \/ Fill(r) \/ Rename(r) \/ RemoveTmp(r)
  PROVE  InodesInv'
<1>1. call[r].at \in Failable /\ call[r].path \in Files
  BY DEF OpenTmp, Fill, Rename, RemoveTmp, At, Failable, CallsInv, Shape
<1>2. tmp \in [Files -> Inodes \cup {None}] /\ file \in [Files -> Inodes]
  BY DEF CallsInv, Typed
<1>3. ASSUME ReportError(r), file' = file, \A f \in Files : tmp'[f] \in {tmp[f], None}
      PROVE  InodesInv'
  BY <1>1, <1>3, ReportEffect, LeavesInodes
<1>4. CASE OpenTmp(r)
  <2>1. CASE ReportError(r) /\ UNCHANGED disk
    BY <1>3, <2>1 DEF disk
  <2>2. CASE ~(ReportError(r) /\ UNCHANGED disk)
    <3>1. PICK i \in Inodes :
            /\ i = IF tmp[call[r].path] = None THEN Id(r) ELSE tmp[call[r].path]
            /\ tmp' = [tmp EXCEPT ![call[r].path] = i]
            /\ Others(r) /\ call'[r].at = "fill" /\ call'[r].path = call[r].path
            /\ call'[r].n = call[r].n /\ call'[r].fd = i /\ file' = file
      BY <1>4, <2>2, OpenTmpEffect
    <3>2. \A g \in Files, j \in Inodes : Of(g, j)' =>
            Of(g, j) \/ (g = call[r].path /\ j = i)
      BY <1>1, <1>2, <3>1 DEF Of, Others
    <3>3. Of(call[r].path, i) \/ i = Id(r)
      BY <3>1 DEF Of
    <3>4. call[r].at = "open"
      BY <1>4 DEF OpenTmp, At
    <3> QED BY <3>1, <3>2, <3>3, <3>4, InodesStay
  <2> QED BY <2>1, <2>2
<1>5. CASE Fill(r)
  <2>1. CASE ReportError(r)
    BY <1>3, <1>5, <2>1 DEF Fill
  <2>2. CASE Goto(r, "rename")
    BY <1>5, <2>2, GotoEffect, LeavesInodes DEF Fill, CallsInv, Stages
  <2> QED BY <1>5, <2>1, <2>2 DEF Fill
<1>6. CASE Rename(r)
  <2>1. CASE /\ tmp[call[r].path] # None
             /\ file' = [file EXCEPT ![call[r].path] = tmp[call[r].path]]
             /\ tmp' = [tmp EXCEPT ![call[r].path] = None]
             /\ Goto(r, "hash")
    <3>1. Leaves(r, "hash")
      BY <2>1, GotoEffect DEF CallsInv, Stages
    <3>2. \A g \in Files, j \in Inodes : Of(g, j)' => Of(g, j)
      BY <1>1, <1>2, <2>1, <3>1, WorkspaceAssumption DEF Of, Leaves, Others
    <3> QED BY <3>1, <3>2, InodesStay DEF Leaves
  <2>2. CASE Goto(r, "remove") /\ UNCHANGED <<file, tmp>>
    BY <2>2, GotoEffect, LeavesInodes DEF CallsInv, Stages
  <2> QED BY <1>6, <2>1, <2>2 DEF Rename
<1>7. CASE RemoveTmp(r)
  BY <1>1, <1>2, <1>3, <1>7 DEF RemoveTmp
<1> QED BY <1>4, <1>5, <1>6, <1>7

LEMMA RestInodesInv ==
  ASSUME CallsInv, CallsInv', InodesInv, NEW r \in Runs,
         \/ HashBefore(r) \/ Insert(r) \/ ReadOpened(r)
         \/ Drive(r) \/ CommandDone(r) \/ Outside(r) \/ Die(r)
  PROVE  InodesInv'
<1>1. CASE HashBefore(r)
  <2>1. Leaves(r, "insert") /\ UNCHANGED <<file, tmp>>
    BY <1>1, HashBeforeEffect DEF HashBefore, disk
  <2> QED BY <2>1, LeavesInodes
<1>2. CASE Insert(r) \/ ReadOpened(r) \/ CommandDone(r)
  <2>1. Goto(r, "idle") /\ UNCHANGED <<file, tmp>>
    BY <1>2 DEF Insert, ReadOpened, CommandDone, AloneShell, disk
  <2> QED BY <2>1, GotoEffect, LeavesInodes DEF CallsInv, Stages
<1>3. CASE Drive(r) \/ Outside(r)
  BY <1>3 DEF Drive, Outside, AloneShell, disk, InodesInv, Of
<1>4. CASE Die(r)
  <2>1. /\ Others(r) /\ call'[r].at = "idle" /\ call'[r].path = None
        /\ call'[r].n = call[r].n /\ UNCHANGED <<file, tmp>>
    BY <1>4, DieEffect DEF Die, disk
  <2>2. None \notin Files
    BY WorkspaceAssumption DEF Inodes
  <2>3. \A g \in Files, j \in Inodes : Of(g, j)' => Of(g, j)
    BY <2>1, <2>2 DEF Of, Others
  <2> QED BY <2>1, <2>3, InodesStay
<1> QED BY <1>1, <1>2, <1>3, <1>4

LEMMA InodesStart == Init => InodesInv
<1> SUFFICES ASSUME Init PROVE InodesInv
  OBVIOUS
<1>1. \A r \in Runs : call[r].path = None /\ call[r].n = 0 /\ call[r].at = "idle"
  BY DEF Init, NoCall
<1>2. None \notin Files /\ Files \cap Calls = {}
  BY WorkspaceAssumption DEF Inodes
<1>3. \A f \in Files, i \in Inodes : Of(f, i) => i = f
  BY <1>1, <1>2, WorkspaceAssumption DEF Init, Of
<1>4. \A f \in Files, r \in Runs, n \in 1..MaxCalls : ~Of(f, <<r, n>>)
  BY <1>2, <1>3 DEF Calls, Inodes
<1> QED BY <1>3, <1>4 DEF InodesInv

-----------------------------------------------------------------------------
(* Versions of a file.                                                     *)

\* No call that may still be reported as failed, or is still to come, has
\* written c.
Settled(c) ==
  \A r \in Runs, n \in 1..MaxCalls : c = <<r, n>> =>
    n =< call[r].n /\ (call[r].at \in Failable => n # call[r].n)

Good(f, c) == Whole(f, c) /\ Settled(c)

\* Only calls that are over have been reported as failed.
RefusedInv ==
  \A r \in Runs, n \in 1..MaxCalls : <<r, n>> \in refused =>
    n =< call[r].n /\ (n = call[r].n => call[r].at = "idle")

\* A file that one call writes at a time: the inode under its own name, and
\* those that readers have opened, hold whole versions, and the writer has
\* another one to itself until it renames it.
Tidy(f) ==
  /\ \A r, q \in Runs : Writing(r, f) /\ Writing(q, f) => r = q
  /\ tmp[f] # file[f] /\ Good(f, content[file[f]])
  /\ \A r \in Runs : call[r].path = f =>
       /\ call[r].at = "read" =>
            call[r].fd # tmp[f] /\ Good(f, content[call[r].fd])
       /\ call[r].at = "fill" =>
            call[r].fd = tmp[f] /\ content[call[r].fd] = Empty
       /\ call[r].at = "rename" => tmp[f] # None /\ content[tmp[f]] = Id(r)
       /\ call[r].at \in {"hash", "insert"} => content[file[f]] = Id(r)

SeenInv ==
  \A r \in Runs : seen[r] # None /\ seen[r].path \notin overlapped =>
    Good(seen[r].path, seen[r].content)

VersionsInv ==
  /\ RefusedInv /\ SeenInv
  /\ \A f \in Files \ overlapped : Tidy(f)

\* What every step of r keeps to: a call that starts has a new number, one that
\* has been renamed or is over is not failable again, and only the call that
\* is reported as failed is refused.
Regular(r) ==
  /\ Others(r)
  /\ \/ call'[r].n = call[r].n + 1 /\ refused' = refused /\ call[r].at = "idle"
     \/ /\ call'[r].n = call[r].n
        /\ call'[r].at \in Failable => call[r].at \in Failable
        /\ call[r].at = "idle" => call'[r].at = "idle"
        /\ \/ refused' = refused
           \/ /\ refused' = refused \cup {Id(r)}
              /\ call[r].at \in Failable /\ call'[r].at = "idle"

LEMMA CallNumbers ==
  ASSUME CallsInv
  PROVE  \A r \in Runs : call[r].n \in Int /\ (call[r].at # "idle" => call[r].n \in 1..MaxCalls)
<1> SUFFICES ASSUME NEW r \in Runs
             PROVE  call[r].n \in Int /\ (call[r].at # "idle" => call[r].n \in 1..MaxCalls)
  OBVIOUS
<1>1. call[r].n \in 0..MaxCalls /\ (call[r].at # "idle" => call[r].n >= 1)
  BY DEF CallsInv, Typed, ToolCall, Shape
<1> QED BY <1>1, WorkspaceAssumption

LEMMA GoodStays ==
  ASSUME CallsInv, NEW r \in Runs, Regular(r), NEW f, NEW c, Good(f, c)
  PROVE  Good(f, c)'
<1>1. c \notin refused' \/ c \in refused
  <2>1. CASE refused' = refused \cup {Id(r)} /\ call[r].at \in Failable
    <3>1. call[r].n \in 1..MaxCalls
      BY <2>1, CallNumbers DEF Failable
    <3>2. c # Id(r)
      BY <2>1, <3>1 DEF Good, Settled, Id
    <3> QED BY <2>1, <3>2
  <2> QED BY <2>1 DEF Regular
<1>2. ASSUME NEW q \in Runs, NEW n \in 1..MaxCalls, c = <<q, n>>
      PROVE  n =< call'[q].n /\ (call'[q].at \in Failable => n # call'[q].n)
  <2>1. n =< call[q].n /\ (call[q].at \in Failable => n # call[q].n)
    BY <1>2 DEF Good, Settled
  <2>2. CASE q = r
    <3>1. call[r].n \in Int
      BY CallNumbers
    <3> QED BY <2>1, <2>2, <3>1, WorkspaceAssumption DEF Regular
  <2>3. CASE q # r
    BY <2>1, <2>3 DEF Regular, Others
  <2> QED BY <2>2, <2>3
<1>3. Whole(f, c)'
  BY <1>1 DEF Good, Whole
<1> QED BY <1>2, <1>3 DEF Good, Settled

LEMMA RefusedStays ==
  ASSUME CallsInv, NEW r \in Runs, Regular(r), RefusedInv
  PROVE  RefusedInv'
<1> SUFFICES ASSUME NEW q \in Runs, NEW n \in 1..MaxCalls, <<q, n>> \in refused'
             PROVE  n =< call'[q].n /\ (n = call'[q].n => call'[q].at = "idle")
  BY DEF RefusedInv
<1>1. call[q].n \in Int /\ call[r].n \in Int
  BY CallNumbers
<1>2. CASE <<q, n>> \in refused
  <2>1. n =< call[q].n /\ (n = call[q].n => call[q].at = "idle")
    BY <1>2 DEF RefusedInv
  <2>2. CASE q = r
    BY <1>1, <2>1, <2>2 DEF Regular
  <2>3. CASE q # r
    BY <2>1, <2>3 DEF Regular, Others
  <2> QED BY <2>2, <2>3
<1>3. CASE <<q, n>> \notin refused
  <2>1. <<q, n>> = Id(r) /\ call'[r].n = call[r].n /\ call'[r].at = "idle"
    BY <1>3 DEF Regular
  <2> QED BY <1>1, <2>1 DEF Id
<1> QED BY <1>2, <1>3

\* The same of a content that is named by where it is.
LEMMA GoodThere ==
  ASSUME NEW f, NEW c, Good(f, c)'
  PROVE  /\ content'[file'[f]] = c => Good(f, content[file[f]])'
         /\ \A q \in Runs :
              content'[call'[q].fd] = c => Good(f, content[call[q].fd])'
BY DEF Good, Whole, Settled

\* A step of r that leaves alone what the readers of f see, and that only r
\* can notice if it touches the temporary file.
LEMMA TidyStays ==
  ASSUME CallsInv, NEW r \in Runs, Regular(r), NEW f \in Files, Tidy(f),
         file'[f] = file[f],
         \A i \in Inodes : Of(f, i) /\ i # tmp[f] => content'[i] = content[i],
         \/ /\ tmp'[f] = tmp[f]
            /\ tmp[f] # None => content'[tmp[f]] = content[tmp[f]]
         \/ Writing(r, f) /\ tmp'[f] \in {tmp[f], None},
         call'[r].path = f =>
           \/ call'[r].at \in {"idle", "command"}
           \/ call'[r].at = "remove" /\ Writing(r, f)
           \/ call'[r].at = "read" /\ call'[r].fd = file[f]
  PROVE  Tidy(f)'
<1>0. /\ file[f] \in Inodes /\ tmp[f] \in Inodes \cup {None} /\ None \notin Inodes
  BY WorkspaceAssumption DEF CallsInv, Typed
<1>1. \A q \in Runs : Writing(q, f)' => Writing(q, f)
  BY DEF Writing, Regular, Others
<1>2. content'[file[f]] = content[file[f]]
  BY <1>0 DEF Tidy, Of
<1>3. tmp'[f] # file'[f] /\ Good(f, content[file[f]])'
  <2>1. PICK c : c = content[file[f]]
    OBVIOUS
  <2>2. Good(f, c)
    BY <2>1 DEF Tidy
  <2>3. Good(f, c)'
    BY <2>2, GoodStays
  <2>4. tmp'[f] # file'[f]
    BY <1>0 DEF Tidy
  <2> QED BY <1>2, <2>1, <2>3, <2>4, GoodThere
<1>3a. ASSUME call'[r].fd = file[f] PROVE Good(f, content[call[r].fd])'
  <2>1. PICK c : c = content[file[f]]
    OBVIOUS
  <2>2. Good(f, c)
    BY <2>1 DEF Tidy
  <2>3. Good(f, c)'
    BY <2>2, GoodStays
  <2> QED BY <1>2, <1>3a, <2>1, <2>3, GoodThere
<1>4. ASSUME NEW q \in Runs, call'[q].path = f
      PROVE  /\ call'[q].at = "read" =>
                  call'[q].fd # tmp'[f] /\ Good(f, content[call[q].fd])'
             /\ call'[q].at = "fill" =>
                  call'[q].fd = tmp'[f] /\ content'[call'[q].fd] = Empty
             /\ call'[q].at = "rename" => tmp'[f] # None /\ content'[tmp'[f]] = Id(q)'
             /\ call'[q].at \in {"hash", "insert"} => content'[file'[f]] = Id(q)'
  <2>1. CASE q = r
    BY <1>3, <1>3a, <1>4, <2>1
  <2>2. CASE q # r
    <3>1. call'[q] = call[q] /\ Id(q)' = Id(q) /\ call[q].path = f
      BY <1>4, <2>2 DEF Regular, Others, Id
    <3>2. ASSUME call[q].at = "read"
          PROVE  call[q].fd # tmp'[f] /\ Good(f, content[call[q].fd])'
      <4>1. /\ call[q].fd \in Inodes /\ call[q].fd # tmp[f]
            /\ Good(f, content[call[q].fd])
        BY <3>1, <3>2 DEF CallsInv, Shape, Tidy
      <4>2. Of(f, call[q].fd)
        BY <3>1 DEF Of
      <4>3. content'[call[q].fd] = content[call[q].fd]
        BY <4>1, <4>2
      <4>4. PICK c : c = content[call[q].fd]
        OBVIOUS
      <4>5. Good(f, c)'
        BY <4>1, <4>4, GoodStays
      <4> QED BY <1>0, <3>1, <4>1, <4>3, <4>4, <4>5, GoodThere
    <3>3. ASSUME call[q].at \in {"fill", "rename"}
          PROVE  tmp'[f] = tmp[f] /\ (tmp[f] # None => content'[tmp[f]] = content[tmp[f]])
      <4>1. ~Writing(r, f)
        BY <2>2, <3>1, <3>3 DEF Tidy, Writing
      <4> QED BY <4>1
    <3>4. call[q].at = "fill" => call[q].fd # None
      BY <1>0 DEF CallsInv, Shape
    <3> QED BY <1>2, <3>1, <3>2, <3>3, <3>4 DEF Tidy
  <2> QED BY <2>1, <2>2
<1> QED BY <1>1, <1>3, <1>4 DEF Tidy

\* A step of the only writer of f.
LEMMA TidyStep ==
  ASSUME CallsInv, NEW r \in Runs, Regular(r), NEW f \in Files, Tidy(f),
         \A q \in Runs \ {r} :
           /\ ~Writing(q, f)
           /\ call[q].path = f /\ call[q].at = "read" =>
                content'[call[q].fd] = content[call[q].fd] /\ call[q].fd # tmp'[f],
         tmp'[f] # file'[f], Good(f, content[file[f]])',
         call'[r].path = f, call'[r].at # "read",
         call'[r].at = "fill" =>
           call'[r].fd = tmp'[f] /\ content'[call'[r].fd] = Empty,
         call'[r].at = "rename" => tmp'[f] # None /\ content'[tmp'[f]] = Id(r)',
         call'[r].at \in {"hash", "insert"} => content'[file'[f]] = Id(r)'
  PROVE  Tidy(f)'
<1>1. ASSUME NEW q \in Runs, NEW s \in Runs, Writing(q, f)', Writing(s, f)'
      PROVE  q = s
  <2>1. \A t \in Runs \ {r} : ~Writing(t, f)'
    BY DEF Regular, Others, Writing
  <2> QED BY <1>1, <2>1
<1>2. ASSUME NEW q \in Runs, call'[q].path = f
      PROVE  /\ call'[q].at = "read" =>
                  call'[q].fd # tmp'[f] /\ Good(f, content[call[q].fd])'
             /\ call'[q].at = "fill" =>
                  call'[q].fd = tmp'[f] /\ content'[call'[q].fd] = Empty
             /\ call'[q].at = "rename" => tmp'[f] # None /\ content'[tmp'[f]] = Id(q)'
             /\ call'[q].at \in {"hash", "insert"} => content'[file'[f]] = Id(q)'
  <2>1. CASE q = r
    BY <2>1
  <2>2. CASE q # r
    <3>1. call'[q] = call[q] /\ call[q].path = f
      BY <1>2, <2>2 DEF Regular, Others
    <3>2. call[q].at \notin {"fill", "rename", "hash", "insert"}
      BY <2>2, <3>1 DEF Writing
    <3>3. ASSUME call[q].at = "read"
          PROVE  call[q].fd # tmp'[f] /\ Good(f, content[call[q].fd])'
      <4>1. PICK c : c = content[call[q].fd]
        OBVIOUS
      <4>2. Good(f, c)
        BY <3>1, <3>3, <4>1 DEF Tidy
      <4>3. Good(f, c)'
        BY <4>2, GoodStays
      <4> QED BY <2>2, <3>1, <3>3, <4>1, <4>3, GoodThere
    <3> QED BY <3>1, <3>2, <3>3
  <2> QED BY <2>1, <2>2
<1> QED BY <1>1, <1>2 DEF Tidy

\* What one step is, for the versions.
LEMMA TakesRegular ==
  ASSUME CallsInv, NEW r \in Runs, NEW l, NEW f, NEW fd, Takes(r, l, f, fd),
         call[r].at = "idle", refused' = refused
  PROVE  Regular(r)
BY DEF Takes, Regular

LEMMA LeavesRegular ==
  ASSUME CallsInv, NEW r \in Runs, NEW l, Leaves(r, l), call[r].at # "idle",
         l \in Failable => call[r].at \in Failable,
         \/ refused' = refused
         \/ refused' = refused \cup {Id(r)} /\ call[r].at \in Failable /\ l = "idle"
  PROVE  Regular(r)
BY DEF Leaves, Regular

\* A version that nobody has reported as failed, or is going to.
LEMMA NewVersion ==
  ASSUME CallsInv, VersionsInv, NEW r \in Runs, NEW f, call[r].at = "rename",
         Others(r), call'[r].n = call[r].n, call'[r].at = "hash", refused' = refused
  PROVE  Good(f, Id(r))'
<1>1. call[r].n \in 1..MaxCalls
  BY CallNumbers
<1>2. Id(r) \in Calls \ refused
  BY <1>1 DEF Id, Calls, VersionsInv, RefusedInv
<1>3. Id(r)' = Id(r)
  BY DEF Id
<1>4. ASSUME NEW q \in Runs, NEW n \in 1..MaxCalls, Id(r) = <<q, n>>
      PROVE  n =< call'[q].n /\ (call'[q].at \in Failable => n # call'[q].n)
  <2>1. q = r /\ n = call[r].n
    BY <1>4 DEF Id
  <2> QED BY <1>1, <2>1 DEF Failable
<1> QED BY <1>2, <1>3, <1>4 DEF Good, Whole, Settled

LEMMA SeenStays ==
  ASSUME CallsInv, SeenInv, NEW r \in Runs, Regular(r), UNCHANGED seen,
         overlapped \subseteq overlapped'
  PROVE  SeenInv'
<1> SUFFICES ASSUME NEW q \in Runs, seen'[q] # None, seen'[q].path \notin overlapped'
             PROVE  Good(seen[q].path, seen[q].content)'
  BY DEF SeenInv
<1>1. PICK f, c : f = seen[q].path /\ c = seen[q].content
  OBVIOUS
<1>2. Good(f, c)
  BY <1>1 DEF SeenInv
<1>3. Good(f, c)'
  BY <1>2, GoodStays
<1> QED BY <1>1, <1>3 DEF Good, Whole, Settled

\* Steps that leave the disk alone and end at rest.
LEMMA QuietVersions ==
  ASSUME CallsInv, VersionsInv, NEW r \in Runs, Regular(r),
         UNCHANGED <<file, tmp, content, overlapped, seen>>,
         call'[r].at \in {"idle", "command"}
  PROVE  VersionsInv'
<1>1. RefusedInv' /\ SeenInv'
  BY RefusedStays, SeenStays DEF VersionsInv
<1>2. ASSUME NEW f \in Files \ overlapped' PROVE Tidy(f)'
  BY TidyStays DEF VersionsInv
<1> QED BY <1>1, <1>2 DEF VersionsInv

LEMMA FileKept ==
  ASSUME CallsInv, NEW r \in Runs, Regular(r), NEW f \in Files, Tidy(f),
         content'[file'[f]] = content[file[f]]
  PROVE  Good(f, content[file[f]])'
<1>1. PICK c : c = content[file[f]]
  OBVIOUS
<1>2. Good(f, c)
  BY <1>1 DEF Tidy
<1>3. Good(f, c)'
  BY <1>2, GoodStays
<1> QED BY <1>1, <1>3, GoodThere

LEMMA WriteFileVersions ==
  ASSUME CallsInv, VersionsInv, NEW r \in Runs, WriteFile(r)
  PROVE  VersionsInv'
<1>1. PICK f \in Files :
        /\ Dispatch(r, f, "open", None)
        /\ overlapped' = IF \E q \in Runs : Writing(q, f)
                           THEN overlapped \cup {f} ELSE overlapped
  BY DEF WriteFile
<1>2. /\ Takes(r, "open", f, None) /\ call[r].at = "idle"
      /\ UNCHANGED <<file, tmp, content, seen, refused>>
  BY <1>1, DispatchEffect DEF WriteFile, disk, Stages
<1>3. Regular(r) /\ overlapped \subseteq overlapped'
  BY <1>1, <1>2, TakesRegular
<1>4. RefusedInv' /\ SeenInv'
  BY <1>2, <1>3, RefusedStays, SeenStays DEF VersionsInv
<1>5. call'[r].at = "open" /\ call'[r].path = f
  BY <1>2 DEF Takes
<1>6. ASSUME NEW g \in Files \ overlapped' PROVE Tidy(g)'
  <2>1. Tidy(g)
    BY <1>3, <1>6 DEF VersionsInv
  <2>2. CASE g # f
    BY <1>2, <1>3, <1>5, <2>1, <2>2, TidyStays
  <2>3. CASE g = f
    <3>1. \A q \in Runs : ~Writing(q, g)
      BY <1>1, <1>6, <2>3
    <3>2. tmp'[g] # file'[g] /\ Good(g, content[file[g]])'
      BY <1>2, <1>3, <2>1, FileKept DEF Tidy
    <3>3. \A q \in Runs : call[q].path = g /\ call[q].at = "read" =>
            content'[call[q].fd] = content[call[q].fd] /\ call[q].fd # tmp'[g]
      BY <1>2, <2>1 DEF Tidy
    <3> QED BY <1>3, <1>5, <2>1, <2>3, <3>1, <3>2, <3>3, TidyStep
  <2> QED BY <2>2, <2>3
<1> QED BY <1>4, <1>6 DEF VersionsInv

LEMMA ReadFileVersions ==
  ASSUME CallsInv, VersionsInv, NEW r \in Runs, ReadFile(r)
  PROVE  VersionsInv'
<1>1. PICK f \in Files : Dispatch(r, f, "read", file[f])
  BY DEF ReadFile
<1>2. /\ Takes(r, "read", f, file[f]) /\ call[r].at = "idle"
      /\ UNCHANGED <<file, tmp, content, seen, refused, overlapped>>
  BY <1>1, DispatchEffect DEF ReadFile, disk, history, Stages, CallsInv, Typed
<1>3. Regular(r)
  BY <1>2, TakesRegular
<1>4. RefusedInv' /\ SeenInv'
  BY <1>2, <1>3, RefusedStays, SeenStays DEF VersionsInv
<1>5. call'[r].at = "read" /\ call'[r].path = f /\ call'[r].fd = file[f]
  BY <1>2 DEF Takes
<1>6. ASSUME NEW g \in Files \ overlapped' PROVE Tidy(g)'
  <2>1. Tidy(g)
    BY <1>2, <1>6 DEF VersionsInv
  <2>2. call'[r].path = g => call'[r].at = "read" /\ call'[r].fd = file[g]
    BY <1>5
  <2> QED BY <1>2, <1>3, <2>1, <2>2, TidyStays
<1> QED BY <1>4, <1>6 DEF VersionsInv

\* An inode that r has open, or is about to open, is of no other file.
LEMMA InodeApart ==
  ASSUME CallsInv, InodesInv, NEW r \in Runs, NEW f \in Files, NEW i \in Inodes,
         call[r].path = f,
         \/ Of(f, i)
         \/ call[r].at = "open" /\ i = Id(r)
  PROVE  /\ \A g \in Files \ {f} : ~Of(g, i)
         /\ call[r].at = "open" /\ i = Id(r) => ~Of(f, i)
<1>1. CASE Of(f, i) /\ ~(call[r].at = "open" /\ i = Id(r))
  BY <1>1 DEF InodesInv
<1>2. CASE call[r].at = "open" /\ i = Id(r)
  <2>1. call[r].n \in 1..MaxCalls
    BY <1>2, CallNumbers
  <2> QED BY <1>2, <2>1 DEF InodesInv, Id
<1> QED BY <1>1, <1>2

\* A step of r that changes one inode, which is not another file's, and the two
\* names of f at most.
LEMMA OtherFiles ==
  ASSUME CallsInv, VersionsInv, NEW r \in Runs, Regular(r), NEW f \in Files,
         call'[r].path = f, NEW i, \A g \in Files \ {f} : ~Of(g, i),
         \A j \in Inodes \ {i} : content'[j] = content[j],
         \A g \in Files \ {f} : file'[g] = file[g] /\ tmp'[g] = tmp[g],
         UNCHANGED <<overlapped, seen>>,
         f \notin overlapped => Tidy(f)'
  PROVE  VersionsInv'
<1>1. RefusedInv' /\ SeenInv'
  BY RefusedStays, SeenStays DEF VersionsInv
<1>2. ASSUME NEW g \in Files \ overlapped' PROVE Tidy(g)'
  <2>1. CASE g = f
    BY <2>1
  <2>2. CASE g # f
    <3>1. Tidy(g) /\ ~Of(g, i) /\ file'[g] = file[g] /\ tmp'[g] = tmp[g]
      BY <2>2 DEF VersionsInv
    <3>2. \A j \in Inodes : Of(g, j) => content'[j] = content[j]
      BY <3>1
    <3>3. tmp[g] # None => content'[tmp[g]] = content[tmp[g]]
      BY <3>2 DEF Of, CallsInv, Typed
    <3> QED BY <2>2, <3>1, <3>2, <3>3, TidyStays
  <2> QED BY <2>1, <2>2
<1> QED BY <1>1, <1>2 DEF VersionsInv

\* An error that is reported before the rename, or after it failed.
LEMMA ReportVersions ==
  ASSUME CallsInv, InodesInv, VersionsInv, NEW r \in Runs, NEW f \in Files,
         call[r].path = f, call[r].at \in Failable, ReportError(r),
         UNCHANGED <<file, overlapped, seen>>,
         \/ UNCHANGED <<tmp, content>>
         \/ tmp' = [tmp EXCEPT ![f] = None] /\ UNCHANGED content
         \/ /\ call[r].at = "fill" /\ UNCHANGED tmp
            /\ content' = [content EXCEPT ![call[r].fd] = Torn]
  PROVE  VersionsInv'
<1>1. Leaves(r, "idle") /\ refused' = refused \cup {Id(r)}
  BY ReportEffect
<1>2. Regular(r) /\ call'[r].path = f /\ call'[r].at = "idle"
  BY <1>1, LeavesRegular DEF Leaves, Failable
<1>3. tmp \in [Files -> Inodes \cup {None}] /\ content \in [Inodes -> Contents]
  BY DEF CallsInv, Typed
<1>4. PICK i : i = call[r].fd
  OBVIOUS
<1>5. CASE UNCHANGED <<tmp, content>>
  BY <1>2, <1>5, QuietVersions
<1>6. CASE tmp' = [tmp EXCEPT ![f] = None] /\ UNCHANGED content
  <2>1. f \notin overlapped => Tidy(f)'
    <3>1. SUFFICES ASSUME f \notin overlapped PROVE Tidy(f)'
      OBVIOUS
    <3>2. Tidy(f) /\ Writing(r, f)
      BY <3>1 DEF VersionsInv, Writing, Failable
    <3> QED BY <1>2, <1>3, <1>6, <3>2, TidyStays
  <2>2. ASSUME NEW g \in Files \ overlapped' PROVE Tidy(g)'
    <3>1. CASE g = f
      BY <2>1, <3>1
    <3>2. CASE g # f
      BY <1>2, <1>3, <1>6, <3>2, TidyStays DEF VersionsInv
    <3> QED BY <3>1, <3>2
  <2> QED BY <1>2, <2>2, RefusedStays, SeenStays DEF VersionsInv
<1>7. CASE /\ call[r].at = "fill" /\ UNCHANGED tmp
           /\ content' = [content EXCEPT ![call[r].fd] = Torn]
  <2>1. i \in Inodes /\ Of(f, i)
    BY <1>4, <1>7 DEF CallsInv, Shape, Of
  <2>2. \A g \in Files \ {f} : ~Of(g, i)
    BY <2>1, InodeApart
  <2>3. \A j \in Inodes \ {i} : content'[j] = content[j]
    BY <1>3, <1>4, <1>7
  <2>4. f \notin overlapped => Tidy(f)'
    <3>1. SUFFICES ASSUME f \notin overlapped PROVE Tidy(f)'
      OBVIOUS
    <3>2. Tidy(f) /\ Writing(r, f) /\ i = tmp[f]
      BY <1>4, <1>7, <3>1 DEF VersionsInv, Writing, Tidy
    <3> QED BY <1>2, <1>7, <2>3, <3>2, TidyStays
  <2> QED BY <1>2, <1>7, <2>2, <2>3, <2>4, OtherFiles
<1> QED BY <1>5, <1>6, <1>7

LEMMA OpenTmpVersions ==
  ASSUME CallsInv, InodesInv, VersionsInv, NEW r \in Runs, OpenTmp(r)
  PROVE  VersionsInv'
<1>1. PICK f \in Files : f = call[r].path
  BY DEF OpenTmp, At, CallsInv, Shape, Failable
<1>2. /\ call[r].at = "open" /\ UNCHANGED <<overlapped, seen>>
      /\ tmp \in [Files -> Inodes \cup {None}] /\ content \in [Inodes -> Contents]
      /\ file \in [Files -> Inodes]
  BY DEF OpenTmp, At, CallsInv, Typed
<1>3. CASE ReportError(r) /\ UNCHANGED disk
  BY <1>1, <1>2, <1>3, ReportVersions DEF Failable, disk
<1>4. CASE ~(ReportError(r) /\ UNCHANGED disk)
  <2>1. PICK i \in Inodes :
          /\ i = IF tmp[f] = None THEN Id(r) ELSE tmp[f]
          /\ tmp' = [tmp EXCEPT ![f] = i]
          /\ content' = [content EXCEPT ![i] = Empty]
          /\ Others(r) /\ call'[r].at = "fill" /\ call'[r].path = f
          /\ call'[r].n = call[r].n /\ call'[r].fd = i
          /\ UNCHANGED <<file, refused>>
    BY <1>1, <1>4, OpenTmpEffect
  <2>2. Regular(r)
    BY <1>2, <2>1 DEF Regular, Failable
  <2>3. (Of(f, i) /\ i = tmp[f]) \/ i = Id(r)
    BY <2>1 DEF Of
  <2>4. \A g \in Files \ {f} : ~Of(g, i)
    BY <1>1, <1>2, <2>3, InodeApart
  <2>5. \A j \in Inodes \ {i} : content'[j] = content[j]
    BY <1>2, <2>1
  <2>6. f \notin overlapped => Tidy(f)'
    <3>1. SUFFICES ASSUME f \notin overlapped PROVE Tidy(f)'
      OBVIOUS
    <3>2. Tidy(f) /\ \A q \in Runs \ {r} : ~Writing(q, f)
      BY <1>1, <1>2, <3>1 DEF VersionsInv, Tidy, Writing
    <3>3. \A q \in Runs : call[q].path = f /\ call[q].at = "read" =>
            call[q].fd \in Inodes /\ Of(f, call[q].fd) /\ call[q].fd # tmp[f]
      BY <3>2 DEF CallsInv, Shape, Of, Tidy
    <3>4. /\ file[f] # i
          /\ \A q \in Runs : call[q].path = f /\ call[q].at = "read" => call[q].fd # i
      <4>1. CASE i = tmp[f]
        BY <3>2, <3>3, <4>1 DEF Tidy
      <4>2. CASE i # tmp[f]
        <5>1. ~Of(f, i)
          BY <1>1, <1>2, <2>3, <4>2, InodeApart
        <5> QED BY <3>3, <5>1 DEF Of
      <4> QED BY <4>1, <4>2
    <3>5. tmp'[f] = i /\ content'[i] = Empty /\ file[f] \in Inodes
      BY <1>2, <2>1
    <3>6. Good(f, content[file[f]])'
      BY <2>1, <2>2, <2>5, <3>2, <3>4, <3>5, FileKept
    <3> QED BY <2>1, <2>2, <2>5, <3>2, <3>3, <3>4, <3>5, <3>6, TidyStep
  <2> QED BY <1>2, <2>1, <2>2, <2>4, <2>5, <2>6, OtherFiles
<1> QED BY <1>3, <1>4

LEMMA FillVersions ==
  ASSUME CallsInv, InodesInv, VersionsInv, NEW r \in Runs, Fill(r)
  PROVE  VersionsInv'
<1>1. PICK f \in Files, i \in Inodes : f = call[r].path /\ i = call[r].fd
  BY DEF Fill, At, CallsInv, Shape, Failable
<1>2. /\ call[r].at = "fill" /\ UNCHANGED <<file, tmp, overlapped, seen>>
      /\ tmp \in [Files -> Inodes \cup {None}] /\ content \in [Inodes -> Contents]
      /\ file \in [Files -> Inodes]
  BY DEF Fill, At, CallsInv, Typed
<1>3. CASE content' = [content EXCEPT ![call[r].fd] = Torn] /\ ReportError(r)
  BY <1>1, <1>2, <1>3, ReportVersions DEF Failable
<1>4. ASSUME NEW c, content' = [content EXCEPT ![call[r].fd] = c],
             Goto(r, "rename"), UNCHANGED refused,
             c = Id(r) \/ content[call[r].fd] # Empty
      PROVE  VersionsInv'
  <2>1. Leaves(r, "rename")
    BY <1>4, GotoEffect DEF CallsInv, Stages
  <2>2. Regular(r) /\ call'[r].path = f /\ call'[r].at = "rename" /\ Id(r)' = Id(r)
    BY <1>1, <1>2, <1>4, <2>1, LeavesRegular DEF Leaves, Failable, Id
  <2>3. Of(f, i)
    BY <1>1 DEF Of
  <2>4. \A g \in Files \ {f} : ~Of(g, i)
    BY <1>1, <2>3, InodeApart
  <2>5. content'[i] = c /\ \A j \in Inodes \ {i} : content'[j] = content[j]
    BY <1>1, <1>2, <1>4
  <2>6. f \notin overlapped => Tidy(f)'
    <3>1. SUFFICES ASSUME f \notin overlapped PROVE Tidy(f)'
      OBVIOUS
    <3>2. Tidy(f) /\ \A q \in Runs \ {r} : ~Writing(q, f)
      BY <1>1, <1>2, <3>1 DEF VersionsInv, Tidy, Writing
    <3>3. i = tmp[f] /\ c = Id(r) /\ i # file[f] /\ i # None
      BY <1>1, <1>2, <1>4, <3>2, WorkspaceAssumption DEF Tidy
    <3>4. \A q \in Runs : call[q].path = f /\ call[q].at = "read" =>
            call[q].fd \in Inodes /\ call[q].fd # i
      BY <3>2, <3>3 DEF CallsInv, Shape, Tidy
    <3>5. file[f] \in Inodes
      BY <1>2
    <3>6. Good(f, content[file[f]])'
      BY <1>2, <2>2, <2>5, <3>2, <3>3, <3>5, FileKept
    <3> QED BY <1>2, <2>2, <2>5, <3>2, <3>3, <3>4, <3>6, TidyStep
  <2> QED BY <1>2, <2>2, <2>4, <2>5, <2>6, OtherFiles
<1> QED BY <1>3, <1>4 DEF Fill

LEMMA RenameVersions ==
  ASSUME CallsInv, InodesInv, VersionsInv, NEW r \in Runs, Rename(r)
  PROVE  VersionsInv'
<1>1. PICK f \in Files : f = call[r].path
  BY DEF Rename, At, CallsInv, Shape, Failable
<1>2. /\ call[r].at = "rename" /\ UNCHANGED <<content, overlapped, seen, refused>>
      /\ tmp \in [Files -> Inodes \cup {None}] /\ content \in [Inodes -> Contents]
      /\ file \in [Files -> Inodes]
  BY DEF Rename, At, CallsInv, Typed, history
<1>3. CASE /\ tmp[f] # None
           /\ file' = [file EXCEPT ![f] = tmp[f]]
           /\ tmp' = [tmp EXCEPT ![f] = None]
           /\ Goto(r, "hash")
  <2>1. Leaves(r, "hash")
    BY <1>3, GotoEffect DEF CallsInv, Stages
  <2>2. Regular(r) /\ call'[r].path = f /\ call'[r].at = "hash" /\ Id(r)' = Id(r)
    BY <1>1, <1>2, <2>1, LeavesRegular DEF Leaves, Failable, Id
  <2>3. /\ file'[f] = tmp[f] /\ tmp'[f] = None
        /\ \A g \in Files \ {f} : file'[g] = file[g] /\ tmp'[g] = tmp[g]
    BY <1>2, <1>3
  <2>4. ASSUME f \notin overlapped PROVE Tidy(f)'
    <3>1. Tidy(f) /\ \A q \in Runs \ {r} : ~Writing(q, f)
      BY <1>1, <1>2, <2>4 DEF VersionsInv, Tidy, Writing
    <3>2. content'[file'[f]] = Id(r)
      BY <1>1, <1>2, <2>3, <3>1 DEF Tidy
    <3>3. Good(f, content[file[f]])'
      <4>1. PICK c : c = Id(r)
        OBVIOUS
      <4>2. Good(f, Id(r))'
        BY <1>2, <2>1, <2>2, NewVersion DEF Leaves
      <4>3. Good(f, c)'
        BY <2>2, <4>1, <4>2 DEF Good, Whole, Settled
      <4> QED BY <3>2, <4>1, <4>3, GoodThere
    <3>4. \A q \in Runs : call[q].at = "read" => call[q].fd # None
      BY WorkspaceAssumption DEF CallsInv, Shape
    <3>5. tmp'[f] # file'[f]
      BY <1>3, <2>3
    <3> QED BY <1>2, <2>2, <2>3, <3>1, <3>2, <3>3, <3>4, <3>5, TidyStep
  <2>5. ASSUME NEW g \in Files \ overlapped' PROVE Tidy(g)'
    <3>1. CASE g = f
      BY <1>2, <2>4, <3>1
    <3>2. CASE g # f
      BY <1>2, <2>2, <2>3, <3>2, TidyStays DEF VersionsInv
    <3> QED BY <3>1, <3>2
  <2> QED BY <1>2, <2>2, <2>5, RefusedStays, SeenStays DEF VersionsInv
<1>4. CASE Goto(r, "remove") /\ UNCHANGED <<file, tmp>>
  <2>1. Leaves(r, "remove")
    BY <1>4, GotoEffect DEF CallsInv, Stages
  <2>2. Regular(r) /\ call'[r].path = f /\ call'[r].at = "remove" /\ Writing(r, f)
    BY <1>1, <1>2, <2>1, LeavesRegular DEF Leaves, Failable, Writing
  <2>3. ASSUME NEW g \in Files \ overlapped' PROVE Tidy(g)'
    BY <1>2, <1>4, <2>2, TidyStays DEF VersionsInv
  <2> QED BY <1>2, <2>2, <2>3, RefusedStays, SeenStays DEF VersionsInv
<1> QED BY <1>1, <1>3, <1>4 DEF Rename

LEMMA RemoveVersions ==
  ASSUME CallsInv, InodesInv, VersionsInv, NEW r \in Runs, RemoveTmp(r)
  PROVE  VersionsInv'
<1>1. PICK f \in Files : f = call[r].path
  BY DEF RemoveTmp, At, CallsInv, Shape, Failable
<1> QED BY <1>1, ReportVersions DEF RemoveTmp, At, Failable

LEMMA HashBeforeVersions ==
  ASSUME CallsInv, VersionsInv, NEW r \in Runs, HashBefore(r)
  PROVE  VersionsInv'
<1>1. PICK f \in Files : f = call[r].path
  BY DEF HashBefore, At, CallsInv, Shape
<1>2. /\ call[r].at = "hash" /\ Leaves(r, "insert")
      /\ UNCHANGED <<file, tmp, content, overlapped, seen, refused>>
  BY HashBeforeEffect DEF HashBefore, At, disk, history
<1>3. Regular(r) /\ call'[r].path = f /\ call'[r].at = "insert" /\ Id(r)' = Id(r)
  BY <1>1, <1>2, LeavesRegular DEF Leaves, Failable, Id
<1>4. ASSUME NEW g \in Files \ overlapped' PROVE Tidy(g)'
  <2>1. Tidy(g)
    BY <1>2, <1>4 DEF VersionsInv
  <2>2. CASE g = f
    <3>1. \A q \in Runs \ {r} : ~Writing(q, f)
      BY <1>1, <1>2, <2>1, <2>2 DEF Tidy, Writing
    <3>2. content[file[f]] = Id(r)
      BY <1>1, <1>2, <2>1, <2>2 DEF Tidy
    <3>3. Good(f, content[file[f]])' /\ tmp'[f] # file'[f]
      BY <1>2, <1>3, <2>1, <2>2, FileKept DEF Tidy
    <3>4. \A q \in Runs : call[q].path = f /\ call[q].at = "read" =>
            call[q].fd # tmp[f]
      BY <2>1, <2>2 DEF Tidy
    <3> QED BY <1>2, <1>3, <2>1, <2>2, <3>1, <3>2, <3>3, <3>4, TidyStep
  <2>3. CASE g # f
    BY <1>2, <1>3, <2>1, <2>3, TidyStays
  <2> QED BY <2>2, <2>3
<1> QED BY <1>2, <1>3, <1>4, RefusedStays, SeenStays DEF VersionsInv

\* The other steps; a reader gets what the inode it opened holds now.
LEMMA RestVersions ==
  ASSUME CallsInv, VersionsInv, NEW r \in Runs,
         \/ RefuseWrite(r) \/ RunCommand(r) \/ CommandDone(r) \/ Insert(r)
         \/ ReadOpened(r) \/ Drive(r) \/ Outside(r) \/ Die(r)
  PROVE  VersionsInv'
<1>1. CASE RefuseWrite(r) \/ RunCommand(r)
  <2>1. PICK l \in {"idle", "command"} : Dispatch(r, None, l, None)
    BY <1>1 DEF RefuseWrite, RunCommand
  <2>2. UNCHANGED <<file, tmp, content, overlapped, seen, refused>>
    BY <1>1 DEF RefuseWrite, RunCommand, AloneShell, disk, history
  <2>3. Takes(r, l, None, None) /\ call[r].at = "idle"
    BY <2>1, DispatchEffect DEF Stages
  <2> QED BY <2>2, <2>3, TakesRegular, QuietVersions DEF Takes
<1>2. CASE CommandDone(r) \/ Insert(r)
  <2>1. /\ call[r].at # "idle" /\ Goto(r, "idle")
        /\ UNCHANGED <<file, tmp, content, overlapped, seen, refused>>
    BY <1>2 DEF CommandDone, Insert, At, AloneShell, disk, history
  <2>2. Leaves(r, "idle")
    BY <2>1, GotoEffect DEF CallsInv, Stages
  <2>3. Regular(r) /\ call'[r].at = "idle"
    BY <2>1, <2>2, LeavesRegular DEF Leaves, Failable
  <2> QED BY <2>1, <2>3, QuietVersions
<1>3. CASE ReadOpened(r)
  <2>1. /\ call[r].at = "read" /\ Goto(r, "idle")
        /\ seen' = [seen EXCEPT ![r] =
                      [path |-> call[r].path, content |-> content[call[r].fd]]]
        /\ UNCHANGED <<file, tmp, content, overlapped, refused>>
    BY <1>3 DEF ReadOpened, At, disk, history
  <2>2. Leaves(r, "idle")
    BY <2>1, GotoEffect DEF CallsInv, Stages
  <2>3. Regular(r) /\ call'[r].at = "idle"
    BY <2>1, <2>2, LeavesRegular DEF Leaves, Failable
  <2>4. ASSUME NEW f \in Files \ overlapped' PROVE Tidy(f)'
    BY <2>1, <2>3, <2>4, TidyStays DEF VersionsInv
  <2>5. ASSUME NEW q \in Runs, seen'[q] # None, seen'[q].path \notin overlapped'
        PROVE  Good(seen[q].path, seen[q].content)'
    <3>1. PICK f, c : f = seen'[q].path /\ c = seen'[q].content
      OBVIOUS
    <3>2. Good(f, c)
      <4>1. CASE q = r
        <5>1. f = call[r].path /\ c = content[call[r].fd]
          BY <2>1, <3>1, <4>1 DEF CallsInv, Typed
        <5>2. f \in Files \ overlapped
          BY <2>1, <2>5, <3>1, <5>1 DEF CallsInv, Shape
        <5> QED BY <2>1, <5>1, <5>2 DEF VersionsInv, Tidy
      <4>2. CASE q # r
        <5>1. seen'[q] = seen[q]
          BY <2>1, <4>2 DEF CallsInv, Typed
        <5> QED BY <2>1, <2>5, <3>1, <5>1 DEF VersionsInv, SeenInv
      <4> QED BY <4>1, <4>2
    <3>3. Good(f, c)'
      BY <2>3, <3>2, GoodStays
    <3> QED BY <3>1, <3>3 DEF Good, Whole, Settled
  <2> QED BY <2>3, <2>4, <2>5, RefusedStays DEF VersionsInv, SeenInv
<1>4. CASE Drive(r) \/ Outside(r)
  <2>1. UNCHANGED <<file, tmp, content, call, overlapped, seen, refused>>
    BY <1>4 DEF Drive, Outside, AloneShell, disk, history
  <2> QED BY <2>1 DEF VersionsInv, RefusedInv, SeenInv, Tidy, Good, Whole, Settled,
             Writing, Id
<1>5. CASE Die(r)
  <2>1. /\ Others(r) /\ call'[r].at = "idle" /\ call'[r].n = call[r].n
        /\ UNCHANGED <<file, tmp, content, overlapped, seen, refused>>
    BY <1>5, DieEffect DEF Die, disk
  <2>2. Regular(r)
    BY <2>1 DEF Regular, Failable
  <2> QED BY <2>1, <2>2, QuietVersions
<1> QED BY <1>1, <1>2, <1>3, <1>4, <1>5

LEMMA VersionsStart == Init => VersionsInv
<1> SUFFICES ASSUME Init PROVE VersionsInv
  OBVIOUS
<1>1. Files \cap Calls = {} /\ None \notin Files
  BY WorkspaceAssumption DEF Inodes
<1>2. \A f \in Files, r \in Runs, n \in 1..MaxCalls : f # <<r, n>>
  BY <1>1 DEF Calls
<1>3. \A r \in Runs : call[r].path = None /\ call[r].at = "idle"
  BY DEF Init, NoCall
<1>4. ASSUME NEW f \in Files PROVE Tidy(f)
  <2>1. content[file[f]] = f /\ tmp[f] # file[f]
    BY <1>1 DEF Init, Inodes
  <2>2. Good(f, content[file[f]])
    BY <1>2, <2>1 DEF Good, Whole, Settled
  <2> QED BY <1>1, <1>3, <2>1, <2>2 DEF Tidy, Writing
<1>5. RefusedInv /\ SeenInv
  BY DEF Init, RefusedInv, SeenInv
<1> QED BY <1>4, <1>5 DEF VersionsInv

LEMMA VersionsStep ==
  CallsInv /\ InodesInv /\ VersionsInv /\ [Next]_vars => InodesInv' /\ VersionsInv'
<1> SUFFICES ASSUME CallsInv, InodesInv, VersionsInv, [Next]_vars
             PROVE  InodesInv' /\ VersionsInv'
  OBVIOUS
<1>1. CASE UNCHANGED vars
  BY SMTT(30), <1>1 DEF vars, disk, history, InodesInv, Of, VersionsInv, RefusedInv, SeenInv,
     Tidy, Good, Whole, Settled, Writing, Id
<1>2. ASSUME NEW r \in Runs,
             \/ WriteFile(r) \/ RefuseWrite(r) \/ Write(r)
             \/ ReadFile(r) \/ ReadOpened(r)
             \/ RunCommand(r) \/ Drive(r) \/ CommandDone(r)
             \/ Outside(r) \/ Die(r)
      PROVE  InodesInv' /\ VersionsInv'
  <2>1. CallsInv'
    BY CallsStep
  <2>2. InodesInv'
    BY <1>2, <2>1, StartsInodesInv, WritingInodesInv, RestInodesInv DEF Write
  <2>3. VersionsInv'
    BY <1>2, WriteFileVersions, ReadFileVersions, OpenTmpVersions, FillVersions,
       RenameVersions, RemoveVersions, HashBeforeVersions, RestVersions DEF Write
  <2> QED BY <2>2, <2>3
<1> QED BY <1>1, <1>2 DEF Next

\* However many runs work on the files, fail, or die in the middle of a write, a
\* file that no two of them write at once, and what a reader has opened of it,
\* is the first version or one that a write not reported as failed has asked for
\* (writeFile: "Atomic write: write to temp file, then rename").
THEOREM AlwaysWholeVersions == Spec => []WholeVersions
<1>1. CallsInv /\ VersionsInv => WholeVersions
  BY DEF VersionsInv, SeenInv, Tidy, Good, WholeVersions
<1> QED BY <1>1, CallsStart, CallsStep, InodesStart, VersionsStart, VersionsStep,
           PTL DEF Spec

-----------------------------------------------------------------------------
(* The rows.                                                               *)

\* A call between its rename and its row.
Owing(r, f) == call[r].path = f /\ call[r].at \in {"hash", "insert"}

HistoryInv ==
  \A f \in Files \ (overlapped \cup lost) :
    (\A r \in Runs : ~Owing(r, f)) => Recorded(f, content[file[f]])

\* The files as the next tool call finds them.
FilesKept == \A f \in Files \ overlapped : content'[file'[f]] = content[file[f]]

LEMMA HistoryStays ==
  ASSUME HistoryInv, NEW r \in Runs, Others(r), rows' = rows,
         overlapped \subseteq overlapped', lost \subseteq lost', FilesKept,
         \A f \in Files : Owing(r, f) => Owing(r, f)' \/ f \in lost'
  PROVE  HistoryInv'
<1> SUFFICES ASSUME NEW f \in Files \ (overlapped' \cup lost'),
                    \A q \in Runs : ~Owing(q, f)'
             PROVE  Recorded(f, content[file[f]])'
  BY DEF HistoryInv
<1>1. ASSUME NEW q \in Runs PROVE ~Owing(q, f)
  <2>1. CASE q = r
    BY <2>1
  <2>2. CASE q # r
    BY <2>2 DEF Others, Owing
  <2> QED BY <2>1, <2>2
<1>2. Recorded(f, content[file[f]])
  BY <1>1 DEF HistoryInv
<1>3. content'[file'[f]] = content[file[f]]
  BY DEF FilesKept
<1> QED BY <1>2, <1>3 DEF Recorded

\* An inode that is opened for writing, or written to, is not one that has the
\* name of a file.
LEMMA WritingKeepsFiles ==
  ASSUME CallsInv, InodesInv, VersionsInv, NEW r \in Runs, OpenTmp(r) \/ Fill(r)
  PROVE  FilesKept
<1>1. PICK h \in Files : h = call[r].path
  BY DEF OpenTmp, Fill, At, CallsInv, Shape, Failable
<1>2. /\ file' = file /\ content \in [Inodes -> Contents] /\ file \in [Files -> Inodes]
      /\ Writing(r, h)
  BY <1>1, OpenTmpEffect DEF OpenTmp, Fill, At, Writing, CallsInv, Typed, disk
<1>3. ASSUME NEW i \in Inodes, \A j \in Inodes \ {i} : content'[j] = content[j],
             \A g \in Files \ {h} : ~Of(g, i),
             h \notin overlapped => file[h] # i
      PROVE  FilesKept
  <2>1. \A f \in Files \ overlapped : file[f] # i
    BY <1>3 DEF Of
  <2> QED BY <1>2, <1>3, <2>1 DEF FilesKept
<1>4. CASE OpenTmp(r)
  <2>1. CASE ReportError(r) /\ UNCHANGED disk
    BY <2>1 DEF disk, FilesKept
  <2>2. CASE ~(ReportError(r) /\ UNCHANGED disk)
    <3>1. PICK i \in Inodes :
            /\ i = IF tmp[h] = None THEN Id(r) ELSE tmp[h]
            /\ content' = [content EXCEPT ![i] = Empty]
      BY <1>1, <1>4, <2>2, OpenTmpEffect
    <3>2. (Of(h, i) /\ i = tmp[h]) \/ (call[r].at = "open" /\ i = Id(r))
      BY <1>4, <3>1 DEF Of, OpenTmp, At
    <3>3. \A g \in Files \ {h} : ~Of(g, i)
      BY <1>1, <3>2, InodeApart
    <3>4. ASSUME h \notin overlapped PROVE file[h] # i
      <4>1. CASE Of(h, i) /\ i = tmp[h]
        BY <3>4, <4>1 DEF VersionsInv, Tidy
      <4>2. CASE call[r].at = "open" /\ i = Id(r)
        <5>1. ~Of(h, i)
          BY <1>1, <4>2, InodeApart
        <5> QED BY <5>1 DEF Of
      <4> QED BY <3>2, <4>1, <4>2
    <3>5. \A j \in Inodes \ {i} : content'[j] = content[j]
      BY <1>2, <3>1
    <3> QED BY <1>3, <3>3, <3>4, <3>5
  <2> QED BY <2>1, <2>2
<1>5. CASE Fill(r)
  <2>1. PICK i \in Inodes : i = call[r].fd
    BY <1>5 DEF Fill, At, CallsInv, Shape
  <2>2. \A j \in Inodes \ {i} : content'[j] = content[j]
    BY <1>2, <1>5, <2>1 DEF Fill
  <2>3. \A g \in Files \ {h} : ~Of(g, i)
    <3>1. Of(h, i)
      BY <1>1, <2>1 DEF Of
    <3> QED BY <1>1, <3>1, InodeApart
  <2>4. h \notin overlapped => file[h] # i
    BY <1>1, <1>5, <2>1 DEF VersionsInv, Tidy, Fill, At
  <2> QED BY <1>3, <2>2, <2>3, <2>4
<1> QED BY <1>4, <1>5

\* Up to the rename, nothing is owed and nothing has happened.
LEMMA WritingHistory ==
  ASSUME CallsInv, InodesInv, VersionsInv, HistoryInv, NEW r \in Runs,
         OpenTmp(r) \/ Fill(r) \/ RemoveTmp(r)
  PROVE  HistoryInv'
<1>1. /\ UNCHANGED <<rows, overlapped, lost>> /\ call[r].at \in Failable
  BY DEF OpenTmp, Fill, RemoveTmp, At, Failable
<1>2. \A f \in Files : ~Owing(r, f)
  BY <1>1 DEF Owing, Failable
<1>3. Others(r)
  <2>1. CASE OpenTmp(r)
    BY <1>1, <2>1, OpenTmpEffect, ReportEffect DEF Leaves
  <2>2. CASE Fill(r) /\ Goto(r, "rename")
    BY <2>2, GotoEffect DEF CallsInv, Stages, Leaves
  <2>3. CASE (Fill(r) \/ RemoveTmp(r)) /\ ReportError(r)
    BY <1>1, <2>3, ReportEffect DEF Leaves
  <2> QED BY <2>1, <2>2, <2>3 DEF Fill, RemoveTmp
<1>4. FilesKept
  <2>1. CASE RemoveTmp(r)
    BY <2>1 DEF RemoveTmp, FilesKept
  <2> QED BY <2>1, WritingKeepsFiles
<1> QED BY <1>1, <1>2, <1>3, <1>4, HistoryStays

LEMMA RenameHistory ==
  ASSUME CallsInv, HistoryInv, NEW r \in Runs, Rename(r)
  PROVE  HistoryInv'
<1>1. /\ UNCHANGED <<rows, overlapped, lost, content>> /\ call[r].at = "rename"
      /\ tmp \in [Files -> Inodes \cup {None}] /\ file \in [Files -> Inodes]
  BY DEF Rename, At, history, CallsInv, Typed
<1>2. CASE Goto(r, "remove") /\ UNCHANGED file
  <2>1. Others(r)
    BY <1>2, GotoEffect DEF CallsInv, Stages, Leaves
  <2>2. \A f \in Files : ~Owing(r, f)
    BY <1>1 DEF Owing
  <2> QED BY <1>1, <1>2, <2>1, <2>2, HistoryStays DEF FilesKept
<1>3. CASE /\ file' = [file EXCEPT ![call[r].path] = tmp[call[r].path]]
           /\ Goto(r, "hash")
  <2>1. Leaves(r, "hash")
    BY <1>3, GotoEffect DEF CallsInv, Stages
  <2>2. ASSUME NEW f \in Files \ (overlapped' \cup lost'),
               \A q \in Runs : ~Owing(q, f)'
        PROVE  Recorded(f, content[file[f]])'
    <3>1. f # call[r].path
      BY <2>1, <2>2 DEF Leaves, Owing
    <3>2. \A q \in Runs : ~Owing(q, f)
      BY <1>1, <2>1, <2>2 DEF Leaves, Others, Owing
    <3>3. Recorded(f, content[file[f]])
      BY <1>1, <3>2 DEF HistoryInv
    <3>4. content'[file'[f]] = content[file[f]]
      BY <1>1, <1>3, <3>1
    <3> QED BY <1>1, <3>3, <3>4 DEF Recorded
  <2> QED BY <2>2 DEF HistoryInv
<1> QED BY <1>2, <1>3 DEF Rename

\* A row is the newest of its file, and changes nothing for the others.
LEMMA RowAppended ==
  ASSUME NEW row \in Row, rows \in Seq(Row), rows' = Append(rows, row), NEW f, NEW c
  PROVE  /\ row.path = f /\ row.after = c => Recorded(f, c)'
         /\ row.path # f /\ Recorded(f, c) => Recorded(f, c)'
<1>1. /\ DOMAIN rows = 1..Len(rows) /\ Len(rows) \in Nat
      /\ DOMAIN rows' = 1..(Len(rows) + 1)
      /\ rows'[Len(rows) + 1] = row /\ \A i \in 1..Len(rows) : rows'[i] = rows[i]
  OBVIOUS
<1>2. PICK last \in Nat : last = Len(rows) + 1
  BY <1>1
<1>3. /\ last \in DOMAIN rows' /\ rows'[last] = row
      /\ \A j \in DOMAIN rows' : ~(j > last)
      /\ \A j \in DOMAIN rows' : j = last \/ j \in DOMAIN rows
      /\ \A i \in DOMAIN rows : i \in DOMAIN rows' /\ rows'[i] = rows[i]
  BY <1>1, <1>2
<1>4. ASSUME row.path = f, row.after = c PROVE Recorded(f, c)'
  BY <1>3, <1>4 DEF Recorded
<1>5. ASSUME row.path # f, Recorded(f, c) PROVE Recorded(f, c)'
  BY <1>3, <1>5 DEF Recorded
<1> QED BY <1>4, <1>5

LEMMA InsertHistory ==
  ASSUME CallsInv, VersionsInv, HistoryInv, NEW r \in Runs, Insert(r)
  PROVE  HistoryInv'
<1>1. PICK h \in Files : h = call[r].path
  BY DEF Insert, At, CallsInv, Shape
<1>2. /\ call[r].at = "insert" /\ Goto(r, "idle")
      /\ UNCHANGED <<file, content, overlapped>>
  BY DEF Insert, At, disk
<1>3. Leaves(r, "idle")
  BY <1>2, GotoEffect DEF CallsInv, Stages
<1>4. CASE lost' = lost \cup {h} /\ UNCHANGED rows
  <2>1. \A f \in Files : Owing(r, f) => f \in lost'
    BY <1>1, <1>4 DEF Owing
  <2> QED BY <1>2, <1>3, <1>4, <2>1, HistoryStays DEF Leaves, FilesKept
<1>5. CASE /\ rows' = Append(rows, [path |-> h, before |-> call[r].before,
                                   after |-> Id(r)])
           /\ lost' = lost \ {h}
  <2>1. PICK row : row = [path |-> h, before |-> call[r].before, after |-> Id(r)]
    OBVIOUS
  <2>2. call[r].before \in Contents /\ Id(r) \in Calls
    BY <1>2, IdOfCall DEF CallsInv, Shape
  <2>3. row \in Row /\ row.path = h /\ row.after = Id(r) /\ rows \in Seq(Row)
    BY <2>1, <2>2 DEF Row, CallsInv, Typed
  <2>4. rows' = Append(rows, row)
    BY <1>5, <2>1
  <2>5. ASSUME NEW f \in Files \ (overlapped' \cup lost'),
               \A q \in Runs : ~Owing(q, f)'
        PROVE  Recorded(f, content[file[f]])'
    <3>1. PICK c : c = content[file[f]]
      OBVIOUS
    <3>2. Recorded(f, c)'
      <4>1. CASE f = h
        <5>1. c = Id(r)
          BY <1>1, <1>2, <2>5, <3>1, <4>1 DEF VersionsInv, Tidy
        <5> QED BY <2>3, <2>4, <4>1, <5>1, RowAppended
      <4>2. CASE f # h
        <5>1. \A q \in Runs : ~Owing(q, f)
          BY <1>1, <1>3, <2>5, <4>2 DEF Leaves, Others, Owing
        <5>2. f \notin overlapped \cup lost
          BY <1>2, <1>5, <2>5, <4>2
        <5>3. Recorded(f, c)
          BY <3>1, <5>1, <5>2 DEF HistoryInv
        <5> QED BY <2>3, <2>4, <4>2, <5>3, RowAppended
      <4> QED BY <4>1, <4>2
    <3> QED BY <1>2, <3>1, <3>2 DEF Recorded
  <2> QED BY <2>5 DEF HistoryInv
<1> QED BY <1>1, <1>4, <1>5 DEF Insert

\* The other steps owe as much as before, or count the row as lost.
LEMMA RestHistory ==
  ASSUME CallsInv, HistoryInv, NEW r \in Runs,
         \/ WriteFile(r) \/ RefuseWrite(r) \/ ReadFile(r) \/ RunCommand(r)
         \/ HashBefore(r) \/ ReadOpened(r) \/ CommandDone(r)
         \/ Drive(r) \/ Outside(r) \/ Die(r)
  PROVE  HistoryInv'
<1>1. UNCHANGED <<file, content, rows>>
  BY DEF WriteFile, RefuseWrite, ReadFile, RunCommand, HashBefore, ReadOpened,
     CommandDone, Drive, Outside, Die, AloneShell, disk
<1>2. FilesKept
  BY <1>1 DEF FilesKept
<1>3. CASE \/ WriteFile(r) \/ RefuseWrite(r) \/ ReadFile(r) \/ RunCommand(r)
  <2>1. PICK f \in Files \cup {None}, l \in Stages, fd \in Inodes \cup {None} :
          Dispatch(r, f, l, fd)
    BY <1>3 DEF WriteFile, RefuseWrite, ReadFile, RunCommand, Stages, CallsInv, Typed
  <2>2. Others(r) /\ call[r].at = "idle"
    BY <2>1, DispatchEffect DEF Takes
  <2>3. lost' = lost /\ overlapped \subseteq overlapped'
    BY <1>3 DEF WriteFile, RefuseWrite, ReadFile, RunCommand, AloneShell, history
  <2>4. \A g \in Files : ~Owing(r, g)
    BY <2>2 DEF Owing
  <2> QED BY <1>1, <1>2, <2>2, <2>3, <2>4, HistoryStays
<1>4. CASE HashBefore(r)
  <2>1. Leaves(r, "insert") /\ UNCHANGED <<lost, overlapped>>
    BY <1>4, HashBeforeEffect DEF HashBefore, history
  <2>2. \A f \in Files : Owing(r, f) => Owing(r, f)'
    BY <2>1 DEF Owing, Leaves
  <2> QED BY <1>1, <1>2, <2>1, <2>2, HistoryStays DEF Leaves
<1>5. CASE ReadOpened(r) \/ CommandDone(r)
  <2>1. /\ Goto(r, "idle") /\ UNCHANGED <<lost, overlapped>>
        /\ call[r].at \in {"read", "command"}
    BY <1>5 DEF ReadOpened, CommandDone, AloneShell, history, At
  <2>2. Others(r) /\ \A f \in Files : ~Owing(r, f)
    BY <2>1, GotoEffect DEF Owing, CallsInv, Stages, Leaves
  <2> QED BY <1>1, <1>2, <2>1, <2>2, HistoryStays
<1>6. CASE Drive(r) \/ Outside(r)
  <2>1. UNCHANGED <<call, lost, overlapped>>
    BY <1>6 DEF Drive, Outside, AloneShell, history
  <2>2. Others(r) /\ \A f \in Files : Owing(r, f) => Owing(r, f)'
    BY <2>1 DEF Others, Owing
  <2> QED BY <1>1, <1>2, <2>1, <2>2, HistoryStays
<1>7. CASE Die(r)
  <2>1. Others(r) /\ overlapped' = overlapped /\ lost \subseteq lost'
    BY <1>7, DieEffect DEF Die
  <2>2. \A f \in Files : Owing(r, f) => f \in lost'
    BY <1>7 DEF Die, Owing
  <2> QED BY <1>1, <1>2, <2>1, <2>2, HistoryStays
<1> QED BY <1>3, <1>4, <1>5, <1>6, <1>7

LEMMA HistoryStarts == Init => HistoryInv
<1> SUFFICES ASSUME Init PROVE HistoryInv
  OBVIOUS
<1>1. \A f \in Files : content[file[f]] = f
  BY DEF Init, Inodes
<1> QED BY <1>1 DEF Init, HistoryInv, Recorded

\* Whichever runs wrote a file and died or failed to record it: when no write of
\* it is under way, was lost or overlapped another, its newest row has the hash
\* of what it holds (recordFileWrite).
THEOREM HistoryAlwaysReplays == Spec => []HistoryReplays
<1>1. CallsInv /\ InodesInv /\ VersionsInv /\ HistoryInv /\ [Next]_vars => HistoryInv'
  <2> SUFFICES ASSUME CallsInv, InodesInv, VersionsInv, HistoryInv, [Next]_vars
               PROVE  HistoryInv'
    OBVIOUS
  <2>1. CASE UNCHANGED vars
    BY <2>1 DEF vars, disk, history, HistoryInv, Owing, Recorded
  <2>2. ASSUME NEW r \in Runs,
               \/ WriteFile(r) \/ RefuseWrite(r) \/ Write(r)
               \/ ReadFile(r) \/ ReadOpened(r)
               \/ RunCommand(r) \/ Drive(r) \/ CommandDone(r)
               \/ Outside(r) \/ Die(r)
        PROVE  HistoryInv'
    BY <2>2, WritingHistory, RenameHistory, InsertHistory, RestHistory DEF Write
  <2> QED BY <2>1, <2>2 DEF Next
<1>2. HistoryInv => HistoryReplays
  BY DEF HistoryInv, HistoryReplays, Owing, Writing
<1> QED BY <1>1, <1>2, CallsStart, CallsStep, InodesStart, VersionsStart, VersionsStep,
           HistoryStarts, PTL DEF Spec

-----------------------------------------------------------------------------
(***************************************************************************)
(* The blast radius, for any workspaces, specs and module names, and       *)
(* whatever the constants say about the text of paths.  Only a path or a   *)
(* pattern of no component at all is excluded.                             *)
(***************************************************************************)

\* An import that was dealt with has an edge to one of the nodes it may resolve
\* to, unless there are none or it may resolve to its own file; and there is no
\* edge for any other reason.
Resolved(f, imp) ==
  \/ Candidates(imp) = {} \/ f \in Candidates(imp)
  \/ \E to \in Candidates(imp) : <<f, to>> \in edges

Edge(f, to) == \E imp \in ws[f].imports : to \in Candidates(imp)

AllResolved ==
  at \in {"resolve", "report", "done"} =>
    \A f \in nodes : \A imp \in ws[f].imports :
      <<f, imp>> \in unresolved \/ Resolved(f, imp)

EdgesMeant == \A f, to \in nodes : <<f, to>> \in edges => Edge(f, to)

GraphInv ==
  /\ ws \in Workspaces /\ files \in Specs
  /\ nodes \subseteq DOMAIN ws
  /\ at \in {"report", "done"} => unresolved = {}
  /\ at \in {"validate", "build"} => unresolved = {} /\ edges = {}
  /\ \A u \in unresolved : u[2] \in ws[u[1]].imports
  /\ AllResolved /\ EdgesMeant

\* The report is what the graph says of the files the spec names.
ReportInv ==
  at = "done" =>
    LET direct    == expandGlobs(files)
        importers == findImporters(direct)
        importees == findImportees(direct)
    IN  report = [direct    |-> direct,
                  importers |-> importers \ direct,
                  importees |-> importees \ direct,
                  tests     |-> findRelevantTests(direct \cup importers \cup importees)]

BlastInv == GraphInv /\ ReportInv

LEMMA BlastInitial == BlastInit => BlastInv
<1> SUFFICES ASSUME BlastInit PROVE BlastInv
  OBVIOUS
<1>1. /\ ws \in Workspaces /\ files \in Specs
      /\ nodes = {} /\ unresolved = {} /\ edges = {} /\ at \in {"validate", "build"}
  BY DEF BlastInit
<1> QED
  BY <1>1 DEF BlastInv, GraphInv, AllResolved, EdgesMeant, ReportInv

\* The graph's operators see only the nodes, the edges and the imports.
LEMMA GraphStays ==
  ASSUME UNCHANGED <<ws, files, moduleName, nodes, edges, unresolved>>, GraphInv,
         at' \in {"resolve", "report", "done"} => at \in {"resolve", "report", "done"},
         at' \in {"report", "done"} => unresolved = {},
         at' \in {"validate", "build"} => at \in {"validate", "build"}
  PROVE  GraphInv'
<1>1. /\ ws' \in Workspaces /\ files' \in Specs
      /\ nodes' \subseteq DOMAIN ws'
      /\ at' \in {"report", "done"} => unresolved' = {}
      /\ at' \in {"validate", "build"} => unresolved' = {} /\ edges' = {}
      /\ \A u \in unresolved' : u[2] \in ws'[u[1]].imports
  BY DEF GraphInv
<1>c. \A imp : Candidates(imp)' = Candidates(imp)
  BY DEF Candidates, Suffix
<1>r. \A f, imp : Resolved(f, imp)' <=> Resolved(f, imp)
  BY <1>c DEF Resolved
<1>e. \A f, to : Edge(f, to)' <=> Edge(f, to)
  BY <1>c DEF Edge
<1>2. AllResolved'
  BY <1>r DEF GraphInv, AllResolved
<1>3. EdgesMeant'
  BY <1>e DEF GraphInv, EdgesMeant
<1> QED
  BY <1>1, <1>2, <1>3 DEF GraphInv

LEMMA BuildGraph == GraphInv /\ Build => GraphInv'
<1> SUFFICES ASSUME GraphInv, Build PROVE GraphInv'
  OBVIOUS
<1>1. /\ at = "build" /\ at' = "resolve" /\ UNCHANGED <<ws, files, moduleName, edges>>
      /\ nodes' \subseteq DOMAIN ws
      /\ unresolved' = UNION {{f} \X ws[f].imports : f \in nodes'}
  BY DEF Build
<1>2. edges' = {} /\ ws' \in Workspaces /\ files' \in Specs
  BY <1>1 DEF GraphInv
<1>3. AllResolved'
  <2>1. \A f \in nodes' : \A imp \in ws'[f].imports : <<f, imp>> \in unresolved'
    BY <1>1
  <2> QED
    BY <2>1 DEF AllResolved, Resolved
<1>4. \A u \in unresolved' : u[2] \in ws'[u[1]].imports
  BY <1>1
<1>5. EdgesMeant'
  BY <1>2 DEF EdgesMeant
<1> QED
  BY <1>1, <1>2, <1>3, <1>4, <1>5 DEF GraphInv

\* The import taken gets its edge or needs none; of the others nothing is lost.
LEMMA AddImportEdgeGraph == GraphInv /\ AddImportEdge => GraphInv'
<1> SUFFICES ASSUME GraphInv, AddImportEdge PROVE GraphInv'
  OBVIOUS
<1>1. at = "resolve" /\ UNCHANGED <<ws, files, moduleName, at, nodes, report>>
  BY DEF AddImportEdge
<1>2. PICK u \in unresolved :
        /\ unresolved' = unresolved \ {u}
        /\ \/ \E to \in Candidates(u[2]) \ {u[1]} : edges' = edges \cup {<<u[1], to>>}
           \/ /\ Candidates(u[2]) = {} \/ u[1] \in Candidates(u[2])
              /\ UNCHANGED edges
  BY DEF AddImportEdge
<1>c. \A imp : Candidates(imp)' = Candidates(imp)
  BY <1>1 DEF Candidates, Suffix
<1>3. u[2] \in ws[u[1]].imports
  BY <1>2 DEF GraphInv
<1>4. edges \subseteq edges'
  BY <1>2
<1>5. \A f \in nodes : \A imp \in ws[f].imports :
        <<f, imp>> \in unresolved' \/ Resolved(f, imp)'
  <2> SUFFICES ASSUME NEW f \in nodes, NEW imp \in ws[f].imports, <<f, imp>> \notin unresolved'
               PROVE  Resolved(f, imp)'
    OBVIOUS
  <2>1. CASE <<f, imp>> = u
    BY <1>2, <1>c, <2>1 DEF Resolved
  <2>2. CASE <<f, imp>> # u
    <3>1. Resolved(f, imp)
      BY <1>1, <1>2, <2>2 DEF GraphInv, AllResolved
    <3> QED
      BY <1>4, <1>c, <3>1 DEF Resolved
  <2> QED
    BY <2>1, <2>2
<1>6. \A f, to \in nodes : <<f, to>> \in edges' => Edge(f, to)'
  <2> SUFFICES ASSUME NEW f \in nodes, NEW to \in nodes, <<f, to>> \in edges'
               PROVE  Edge(f, to)'
    OBVIOUS
  <2>1. CASE <<f, to>> \in edges
    BY <1>1, <1>c, <2>1 DEF GraphInv, EdgesMeant, Edge
  <2>2. CASE <<f, to>> \notin edges
    <3>1. f = u[1] /\ to \in Candidates(u[2])
      BY <1>2, <2>2
    <3> QED
      BY <1>1, <1>3, <1>c, <3>1 DEF Edge
  <2> QED
    BY <2>1, <2>2
<1>7. /\ ws' \in Workspaces /\ files' \in Specs
      /\ nodes' \subseteq DOMAIN ws'
      /\ \A v \in unresolved' : v[2] \in ws'[v[1]].imports
  BY <1>1, <1>2 DEF GraphInv
<1>8. AllResolved'
  BY <1>1, <1>5 DEF AllResolved, Resolved, Candidates
<1>9. EdgesMeant'
  BY <1>1, <1>6 DEF EdgesMeant, Edge, Candidates
<1>10. at' = "resolve"
  BY <1>1
<1> QED
  BY <1>7, <1>8, <1>9, <1>10 DEF GraphInv

LEMMA BlastInductive == BlastInv /\ [BlastNext]_blastVars => BlastInv'
<1> SUFFICES ASSUME BlastInv, [BlastNext]_blastVars PROVE BlastInv'
  OBVIOUS
<1> USE DEF BlastInv
<1>1. CASE Validate
  <2>1. at = "validate" /\ at' \in {"build", "invalid"}
    BY <1>1 DEF Validate
  <2>2. GraphInv'
    BY <1>1, <2>1, GraphStays DEF Validate
  <2> QED
    BY <2>1, <2>2 DEF ReportInv
<1>2. CASE Build
  <2>1. at' = "resolve"
    BY <1>2 DEF Build
  <2> QED
    BY <1>2, <2>1, BuildGraph DEF ReportInv
<1>3. CASE AddImportEdge
  <2>1. at' = "resolve"
    BY <1>3 DEF AddImportEdge
  <2> QED
    BY <1>3, <2>1, AddImportEdgeGraph DEF ReportInv
<1>4. CASE Built
  <2>1. at = "resolve" /\ at' = "report" /\ unresolved = {}
    BY <1>4 DEF Built
  <2>2. GraphInv'
    BY <1>4, <2>1, GraphStays DEF Built
  <2> QED
    BY <2>1, <2>2 DEF ReportInv
<1>5. CASE ComputeBlastRadius
  <2>1. at = "report" /\ at' = "done" /\ UNCHANGED <<ws, files, moduleName, nodes, unresolved, edges>>
    BY <1>5 DEF ComputeBlastRadius
  <2>2. unresolved = {}
    BY <2>1 DEF GraphInv
  <2>3. GraphInv'
    BY <2>1, <2>2, GraphStays
  <2>4. ReportInv'
    BY <1>5, <2>1 DEF ReportInv, ComputeBlastRadius, expandGlobs,
       findImporters, findImportees, findRelevantTests
  <2> QED
    BY <2>3, <2>4
<1>6. CASE UNCHANGED blastVars
  <2>1. UNCHANGED <<ws, files, moduleName, at, nodes, unresolved, edges, report>>
    BY <1>6 DEF blastVars
  <2>2. GraphInv'
    BY <2>1, GraphStays DEF GraphInv
  <2>3. ReportInv'
    BY <2>1 DEF ReportInv, expandGlobs,
       findImporters, findImportees, findRelevantTests
  <2> QED
    BY <2>2, <2>3
<1> QED
  BY <1>1, <1>2, <1>3, <1>4, <1>5, <1>6 DEF BlastNext

LEMMA BlastAlways == BlastSpec => []BlastInv
BY BlastInitial, BlastInductive, PTL DEF BlastSpec

\* An import that can lead only to certain files other than its own has an edge
\* to one of them by the time of the report.
LEMMA LeadsTo ==
  ASSUME GraphInv, at = "done", NEW f \in nodes, NEW among, f \notin among,
         NEW c \in Targets(f), c # {}, c \subseteq among
  PROVE  \E to \in among : <<f, to>> \in edges
<1>1. PICK imp \in ws[f].imports : c = Candidates(imp)
  BY DEF Targets
<1>2. Resolved(f, imp)
  BY DEF GraphInv, AllResolved
<1> QED
  BY <1>1, <1>2 DEF Resolved

\* The importers reported are right in every build, whichever of the nodes an
\* ambiguous import resolved to (AddImportEdge, ComputeBlastRadius).
THEOREM ImportersAlwaysFound == BlastSpec => []ImportersAreFound
<1>1. BlastInv => ImportersAreFound
  <2> SUFFICES ASSUME BlastInv, at = "done", NEW f \in nodes \ report.direct
               PROVE  /\ (\E c \in Targets(f) : c # {} /\ c \subseteq report.direct) =>
                            f \in report.importers
                      /\ f \in report.importers =>
                            \E c \in Targets(f) : c \cap report.direct # {}
    BY DEF ImportersAreFound
  <2>1. /\ report.direct = expandGlobs(files)
        /\ report.importers = findImporters(report.direct) \ report.direct
    BY DEF BlastInv, ReportInv
  <2>2. report.direct \subseteq nodes
    BY <2>1 DEF expandGlobs
  <2>3. ASSUME NEW c \in Targets(f), c # {}, c \subseteq report.direct
        PROVE  f \in report.importers
    <3>1. \E to \in report.direct : <<f, to>> \in edges
      BY <2>3, LeadsTo DEF BlastInv
    <3> QED
      BY <2>1, <3>1 DEF findImporters
  <2>4. ASSUME f \in report.importers
        PROVE  \E c \in Targets(f) : c \cap report.direct # {}
    <3>1. PICK d \in report.direct : <<f, d>> \in edges
      BY <2>1, <2>4 DEF findImporters
    <3>2. PICK imp \in ws[f].imports : d \in Candidates(imp)
      BY <2>2, <3>1 DEF BlastInv, GraphInv, EdgesMeant, Edge
    <3> QED
      BY <3>1, <3>2 DEF Targets
  <2> QED
    BY <2>3, <2>4
<1> QED
  BY <1>1, BlastAlways, PTL

\* A file is named by the end of a pattern, never by a directory above it.
LEMMA NamedAtTheEnd ==
  ASSUME NEW n \in Seq(STRING) \ {<<>>}, NEW p \in Seq(STRING) \ {<<>>},
         Match(p, n) \/ HasSuffix(n, p)
  PROVE  Last(p) \in {Last(n), AnyName} \/ (Len(p) = 1 /\ <<Last(n), Last(p)>> \in EndsWith)
<1>1. /\ Len(n) \in Nat \ {0} /\ DOMAIN n = 1..Len(n)
      /\ Len(p) \in Nat \ {0} /\ DOMAIN p = 1..Len(p)
  OBVIOUS
<1>2. CASE Match(p, n)
  <2>1. p[Len(n)] \in {n[Len(n)], AnyName} /\ Len(p) = Len(n)
    BY <1>1, <1>2 DEF Match
  <2> QED
    BY <2>1 DEF Last
<1>3. CASE HasSuffix(n, p)
  <2> DEFINE k == Len(n) - Len(p)
  <2>1. /\ <<n[k + 1], p[1]>> \in EndsWith
        /\ \A i \in 2..Len(p) : p[i] = n[k + i]
    BY <1>3 DEF HasSuffix
  <2>2. k + Len(p) = Len(n)
    BY <1>1
  <2>3. CASE Len(p) = 1
    BY <2>1, <2>2, <2>3 DEF Last
  <2>4. CASE Len(p) # 1
    <3>1. Len(p) \in 2..Len(p)
      BY <1>1, <2>4
    <3>2. p[Len(p)] = n[k + Len(p)]
      BY <2>1, <3>1
    <3> QED
      BY <2>2, <3>2 DEF Last
  <2> QED
    BY <2>3, <2>4
<1> QED
  BY <1>2, <1>3

\* A parsed file that a pattern names and that made it valid is reported, and so
\* are its tests, and no other file is, for any reading of the text of paths
\* (Rule 9, expandGlobs).
THEOREM NamedFilesAlwaysCovered == BlastSpec => []NamedFilesAreCovered
<1>1. BlastInv => NamedFilesAreCovered
  <2> DEFINE named == {n \in nodes : \E p \in files : Clean(p) = p /\ n \in Glob(p)}
             tests == {t \in nodes : /\ Last(t) \in Tests
                                     /\ \/ t \in named
                                        \/ \E c \in Targets(t) : c # {} /\ c \subseteq named}
  <2> SUFFICES ASSUME BlastInv, at = "done"
               PROVE  /\ named \subseteq report.direct
                      /\ tests \subseteq report.tests
                      /\ \A n \in report.direct : \E p \in files :
                           \/ Last(p) \in {Last(n), AnyName}
                           \/ Len(p) = 1 /\ <<Last(n), Last(p)>> \in EndsWith
                      /\ UNION Range(report) \subseteq DOMAIN ws
    BY DEF NamedFilesAreCovered
  <2> DEFINE direct == expandGlobs(files)
             importers == findImporters(direct)
             importees == findImportees(direct)
  <2>1. report = [direct    |-> direct,
                  importers |-> importers \ direct,
                  importees |-> importees \ direct,
                  tests     |-> findRelevantTests(direct \cup importers \cup importees)]
    BY DEF BlastInv, ReportInv
  <2>2. named \subseteq direct
    BY DEF Glob, expandGlobs
  <2>3. tests \subseteq findRelevantTests(direct \cup importers \cup importees)
    <3> SUFFICES ASSUME NEW t \in tests
                 PROVE  t \in findRelevantTests(direct \cup importers \cup importees)
      OBVIOUS
    <3>1. CASE t \in named
      BY <2>2, <3>1 DEF findRelevantTests
    <3>2. CASE t \notin named
      <4>1. PICK c \in Targets(t) : c # {} /\ c \subseteq named
        BY <3>2
      <4>2. \E n \in named : <<t, n>> \in edges
        BY <3>2, <4>1, LeadsTo DEF BlastInv
      <4> QED
        BY <2>2, <4>2 DEF findRelevantTests
    <3> QED
      BY <3>1, <3>2
  <2>4. /\ direct \subseteq nodes /\ importers \subseteq nodes /\ importees \subseteq nodes
        /\ findRelevantTests(direct \cup importers \cup importees) \subseteq nodes
    BY DEF expandGlobs, findImporters, findImportees,
           findRelevantTests
  <2>5. nodes \subseteq DOMAIN ws
    BY DEF BlastInv, GraphInv
  <2>7. \A n \in direct : \E p \in files :
          Last(p) \in {Last(n), AnyName} \/ (Len(p) = 1 /\ <<Last(n), Last(p)>> \in EndsWith)
    <3> SUFFICES ASSUME NEW n \in direct
                 PROVE  \E p \in files :
                          \/ Last(p) \in {Last(n), AnyName}
                          \/ Len(p) = 1 /\ <<Last(n), Last(p)>> \in EndsWith
      OBVIOUS
    <3>1. PICK p \in files : Match(p, n) \/ HasSuffix(n, p)
      BY DEF expandGlobs
    <3>2. n \in Seq(STRING) \ {<<>>} /\ p \in Seq(STRING) \ {<<>>}
      BY <2>4, <2>5, <3>1, BlastAssumption DEF BlastInv, GraphInv
    <3>3. Last(p) \in {Last(n), AnyName} \/ (Len(p) = 1 /\ <<Last(n), Last(p)>> \in EndsWith)
      BY <3>1, <3>2, NamedAtTheEnd
    <3> QED
      BY <3>3
  <2> HIDE DEF named, tests, direct, importers, importees
  <2>6. UNION Range(report) \subseteq DOMAIN ws
    BY <2>1, <2>4, <2>5 DEF Range
  <2> QED
    BY <2>1, <2>2, <2>3, <2>6, <2>7
<1> QED
  BY <1>1, BlastAlways, PTL
=============================================================================
