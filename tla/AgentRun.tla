------------------------------ MODULE AgentRun ------------------------------
(***************************************************************************)
(* One `aetronyx run`: Engine.Run creates the run, Runner.Run drives it    *)
(* through blast radius, planning and the iterate/verify loop.  Every      *)
(* statement that touches the database, the audit log, the workspace, the  *)
(* model or a test command is a step of its own, so that SIGINT, the wall  *)
(* clock and a crash may fall between any two of them.                     *)
(*                                                                         *)
(* A database or audit write succeeds only under a context that is not     *)
(* cancelled; with a live context it may still fail (disk full, busy).     *)
(***************************************************************************)
EXTENDS Integers, Sequences, FiniteSets

CONSTANTS Specs,      \* the spec files run: [deps, contracts, iters, timed]
          MaxBlocks,  \* bound: tool_use blocks in one model response
          MaxFaults   \* bound: writes that fail although the context is live

SpecFile == [deps      : BOOLEAN,     \* dependencies.files is not empty
             contracts : Nat,         \* number of test_contracts
             iters     : Int,         \* budget.max_iterations, 0 when unset
             timed     : BOOLEAN]     \* budget.max_wall_time_minutes is set

ASSUME AgentRunAssumption ==
  /\ Specs # {} /\ Specs \subseteq SpecFile
  /\ MaxBlocks \in Nat
  /\ MaxFaults \in Nat

VARIABLES
  spec,      \* the parsed spec, fixed for the run
  pc,        \* the statement about to execute
  cancelled, \* ctx.Err() # nil: a signal arrived after NotifyContext
  late,      \* time.Now() is after the deadline
  faults,    \* writes that failed under a live context
  iter,      \* loop variable of phaseIterate; 0 while planning
  todo,      \* tool_use blocks of this response not yet dispatched
  tool,      \* what the block being dispatched did
  cmd,       \* test contracts run in this verification
  failed,    \* whether one of them failed
  results,   \* history: every contract run, [iter, cmd, pass]
  outcome,   \* the status passed to terminate
  row,       \* the runs row
  iters,     \* iteration rows: iter_number |-> status
  log,       \* audit events in the order they were emitted
  writes,    \* workspace writes made: <<iteration, block>>
  changes,   \* file_changes rows: <<iteration, block>>
  spent,     \* model responses paid for
  ret        \* what Engine.Run returned

control == <<cmd, failed, results, outcome, todo, tool>>
files   == <<writes, changes>>
record  == <<row, iters>>
vars    == <<spec, pc, cancelled, late, faults, iter, control, record, log,
             files, spent, ret>>

Terminal == {"completed", "failed", "cancelled", "halted_max_iters",
             "halted_max_time"}
Working  == {"created", "blast_radius", "planning", "iterating", "verifying"}

\* run.go hands budget.max_iterations to agent.New, which turns 0 into 1;
\* a negative budget reaches the loop as it is.
MaxIterations == IF spec.iters = 0 THEN 1 ELSE spec.iters

NoRow == [status |-> "absent", cost |-> 0, completedAt |-> FALSE,
          reason |-> "none"]

Init ==
  /\ spec \in Specs
  /\ pc = "create_run"
  /\ cancelled = FALSE /\ late = FALSE /\ faults = 0
  /\ iter = 0 /\ todo = 0 /\ tool = "none" /\ cmd = 0 /\ failed = FALSE
  /\ results = {}
  /\ outcome = "none"
  /\ row = NoRow
  /\ iters = [n \in {} |-> "none"]
  /\ log = <<>>
  /\ writes = {} /\ changes = {}
  /\ spent = 0
  /\ ret = "none"

-----------------------------------------------------------------------------
(* Steps are built from these.                                             *)

At(l) == pc = l
Goto(l) == pc' = l

\* An ExecContext that reaches the database, and one that returns an error.
Persists == ~cancelled /\ UNCHANGED faults
Refused  == \/ cancelled /\ UNCHANGED faults
            \/ ~cancelled /\ faults < MaxFaults /\ faults' = faults + 1

Event(type) == [type |-> type, iter |-> iter]

\* `_ = audit.Emit(...)`: the caller goes on whether or not it is recorded.
Emit(type) ==
  \/ Persists /\ log' = Append(log, Event(type))
  \/ Refused  /\ UNCHANGED log

\* UpdateRunStatus: any status over any other.
UpdateRunStatus(status) == Persists /\ row' = [row EXCEPT !.status = status]

Fixed == UNCHANGED <<spec, cancelled, late>>

\* A step that only emits a best-effort event.
Report(from, type, to) ==
  /\ At(from) /\ Emit(type) /\ Goto(to)
  /\ Fixed
  /\ UNCHANGED <<iter, control, record, files, spent, ret>>

\* Mutant of MustMove: the error is dropped and the run goes on.
MustMoveUnchecked(from, status, to) ==
  /\ At(from) /\ Goto(to)
  /\ UpdateRunStatus(status) \/ (Refused /\ UNCHANGED row)
  /\ Fixed
  /\ UNCHANGED <<iter, control, iters, log, files, spent, ret>>

\* A step that sets the run's status and cannot go on without it.
MustMove(from, status, to) ==
  /\ At(from)
  /\ \/ UpdateRunStatus(status) /\ Goto(to)
     \/ Refused /\ UNCHANGED row /\ Goto("fail")
  /\ Fixed
  /\ UNCHANGED <<iter, control, iters, log, files, spent, ret>>

\* `_ = UpdateRunStatus(...)` on the way out: the result is dropped.
TryMove(from, status, to) ==
  /\ At(from) /\ Goto(to)
  /\ UpdateRunStatus(status) \/ (Refused /\ UNCHANGED row)
  /\ Fixed
  /\ UNCHANGED <<iter, control, iters, log, files, spent, ret>>

\* A branch on memory alone.
Branch(from, to) ==
  /\ At(from) /\ Goto(to)
  /\ Fixed
  /\ UNCHANGED <<faults, iter, control, record, log, files, spent, ret>>

\* Engine.Run's result reaches the command.
Return(value) == ret' = value /\ Goto("done")

-----------------------------------------------------------------------------
(* Engine.createRun                                                        *)

CreateRun ==
  /\ At("create_run")
  /\ \/ /\ Persists
        /\ row' = [row EXCEPT !.status = "created"]
        /\ Goto("emit_created") /\ UNCHANGED ret
     \/ Refused /\ UNCHANGED row /\ Return("error")
  /\ Fixed
  /\ UNCHANGED <<iter, control, iters, log, files, spent>>

EmitCreated ==
  /\ At("emit_created")
  /\ \/ /\ Persists /\ log' = Append(log, Event("run.created"))
        /\ Goto("blast") /\ UNCHANGED ret
     \/ Refused /\ UNCHANGED log /\ Return("error")
  /\ Fixed
  /\ UNCHANGED <<iter, control, record, files, spent>>

-----------------------------------------------------------------------------
(* Runner.phaseBlastRadius                                                 *)

SkipBlastRadius == ~spec.deps /\ Branch("blast", "before_planning")
EnterBlastRadius == spec.deps /\ MustMove("blast", "blast_radius", "build")
BuildGraph == Branch("build", "emit_blast") \/ Branch("build", "fail")
EmitBlastRadius ==
  Report("emit_blast", "blast_radius.computed", "before_planning")

CheckBeforePlanning ==
  Branch("before_planning", IF cancelled THEN "cancel" ELSE "planning")

-----------------------------------------------------------------------------
(* Runner.phasePlanning                                                    *)

EnterPlanning == MustMove("planning", "planning", "emit_started")

EmitStarted ==
  /\ At("emit_started")
  /\ \/ Persists /\ log' = Append(log, Event("run.started")) /\ Goto("plan_request")
     \/ Refused /\ UNCHANGED log /\ Goto("fail")
  /\ Fixed
  /\ UNCHANGED <<iter, control, record, files, spent, ret>>

PlanRequest == Report("plan_request", "llm.request", "plan_llm")

\* adapter.Complete: the request runs under ctx, so a cancelled one is an error.
PlanAnswered ==
  /\ At("plan_llm") /\ ~cancelled /\ Goto("plan_response")
  /\ spent' = spent + 1
  /\ Fixed
  /\ UNCHANGED <<faults, iter, control, record, log, files, ret>>
PlanRefused == Branch("plan_llm", "fail")

PlanResponse == Report("plan_response", "llm.response", "plan_iteration")
PlanIteration == Report("plan_iteration", "iteration.started", "before_iterate")

CheckBeforeIterate ==
  /\ At("before_iterate")
  /\ Goto(IF cancelled THEN "cancel" ELSE "loop")
  /\ iter' = IF cancelled THEN iter ELSE 1
  /\ Fixed
  /\ UNCHANGED <<faults, control, record, log, files, spent, ret>>

-----------------------------------------------------------------------------
(* Runner.phaseIterate                                                     *)

\* Mutants of InBudget: one iteration short, one too many.
InBudgetShort == iter < MaxIterations
InBudgetLong == iter <= MaxIterations + 1

InBudget == iter <= MaxIterations

Finish(status) ==
  /\ outcome' = status /\ Goto("complete_run")
  /\ UNCHANGED <<cmd, failed, results, todo, tool>>

LoopEnds ==
  /\ At("loop") /\ ~InBudget
  /\ Finish("halted_max_iters")
  /\ Fixed
  /\ UNCHANGED <<faults, iter, record, log, files, spent, ret>>

LoopHaltsOnTime == InBudget /\ late /\ Branch("loop", "halt_time")
LoopCancels == InBudget /\ ~late /\ cancelled /\ Branch("loop", "cancel")
LoopIterates == InBudget /\ ~late /\ ~cancelled /\ Branch("loop", "iterate")

-----------------------------------------------------------------------------
(* Runner.runOneIteration                                                  *)

EnterIterating == MustMove("iterate", "iterating", "create_iteration")

\* UNIQUE(run_id, iter_number) refuses a number that is taken.
CreateIteration ==
  /\ At("create_iteration")
  /\ \/ /\ Persists /\ iter \notin DOMAIN iters
        /\ iters' = [n \in DOMAIN iters \cup {iter} |->
                       IF n = iter THEN "running" ELSE iters[n]]
        /\ Goto("emit_iteration")
     \/ /\ Refused \/ (iter \in DOMAIN iters /\ UNCHANGED faults)
        /\ UNCHANGED iters /\ Goto("fail")
  /\ Fixed
  /\ UNCHANGED <<iter, control, row, log, files, spent, ret>>

EmitIteration == Report("emit_iteration", "iteration.started", "iter_request")
IterRequest == Report("iter_request", "llm.request", "iter_llm")

IterAnswered ==
  /\ At("iter_llm") /\ ~cancelled /\ Goto("iter_response")
  /\ todo' \in 0..MaxBlocks
  /\ spent' = spent + 1
  /\ Fixed
  /\ UNCHANGED <<faults, iter, cmd, failed, results, outcome, tool, record, log, files, ret>>
IterRefused == Branch("iter_llm", "fail")

IterResponse == Report("iter_response", "llm.response", "update_cost")

\* UpdateRunCost replaces the total by this response's cost.
UpdateRunCost ==
  /\ At("update_cost") /\ Goto("tools")
  /\ \/ Persists /\ row' = [row EXCEPT !.cost = 1]
     \/ Refused /\ UNCHANGED row
  /\ Fixed
  /\ UNCHANGED <<iter, control, iters, log, files, spent, ret>>

\* Mutant of NextTool: the loop runs past the last block.
NextToolPastEnd == Report("tools", "tool.call", "dispatch")

NextTool == todo > 0 /\ Report("tools", "tool.call", "dispatch")
NoMoreTools == todo = 0 /\ Branch("tools", "complete_iteration")

BlockDone == todo' = todo - 1 /\ tool' = "none"

\* json.Unmarshal of the input fails: an error goes back to the model.
BadToolInput ==
  /\ At("dispatch") /\ BlockDone /\ Goto("tools")
  /\ Fixed
  /\ UNCHANGED <<faults, iter, cmd, failed, results, outcome, record, log, files, spent, ret>>

\* ToolDispatcher.Dispatch; a file is written whatever the context.
Dispatch ==
  /\ At("dispatch") /\ Goto("tool_result")
  /\ tool' \in {"wrote", "read", "other"}
  /\ writes' = IF tool' = "wrote" THEN writes \cup {<<iter, todo>>} ELSE writes
  /\ Fixed
  /\ UNCHANGED <<faults, iter, cmd, failed, results, outcome, todo, record, log, changes,
                 spent, ret>>

\* Mutant of ToolResult: recordFileWrite is not called.
ToolResultUnrecorded == Report("tool_result", "tool.result", "tool_done")

ToolResult ==
  Report("tool_result", "tool.result",
         CASE tool = "wrote" -> "file_write"
           [] tool = "read"  -> "file_read"
           [] OTHER          -> "tool_done")

FileRead == Report("file_read", "file.read", "tool_done")
FileWrite == Report("file_write", "file.write", "insert_change")

InsertFileChange ==
  /\ At("insert_change") /\ Goto("tool_done")
  /\ \/ Persists /\ changes' = changes \cup {<<iter, todo>>}
     \/ Refused /\ UNCHANGED changes
  /\ Fixed
  /\ UNCHANGED <<iter, control, record, log, writes, spent, ret>>

ToolDone ==
  /\ At("tool_done") /\ BlockDone /\ Goto("tools")
  /\ Fixed
  /\ UNCHANGED <<faults, iter, cmd, failed, results, outcome, record, log, files, spent, ret>>

CompleteIteration ==
  /\ At("complete_iteration") /\ Goto("emit_completed")
  /\ \/ Persists /\ iters' = [iters EXCEPT ![iter] = "completed"]
     \/ Refused /\ UNCHANGED iters
  /\ Fixed
  /\ UNCHANGED <<iter, control, row, log, files, spent, ret>>

EmitCompleted == Report("emit_completed", "iteration.completed", "verify")

-----------------------------------------------------------------------------
(* Runner.phaseVerify, and the end of the loop body                        *)

NothingToVerify ==
  /\ At("verify") /\ spec.contracts = 0
  /\ Finish("completed")
  /\ Fixed
  /\ UNCHANGED <<faults, iter, record, log, files, spent, ret>>

EnterVerifying ==
  /\ At("verify") /\ spec.contracts > 0 /\ Goto("test")
  /\ UpdateRunStatus("verifying") \/ (Refused /\ UNCHANGED row)
  /\ cmd' = 0 /\ failed' = FALSE
  /\ Fixed
  /\ UNCHANGED <<iter, todo, tool, outcome, results, iters, log, files, spent, ret>>

\* Mutants of RunTestCommand: the last contract alone decides; the loop does
\* not advance.
RunTestCommandLastWins ==
  /\ At("test") /\ cmd < spec.contracts /\ Goto("test")
  /\ cmd' = cmd + 1
  /\ \E pass \in BOOLEAN :
       /\ pass => ~cancelled
       /\ failed' = ~pass
       /\ results' = results \cup {[iter |-> iter, cmd |-> cmd + 1, pass |-> pass]}
  /\ Fixed
  /\ UNCHANGED <<faults, iter, todo, tool, outcome, record, log, files, spent, ret>>
RunTestCommandStuck ==
  /\ At("test") /\ cmd < spec.contracts /\ failed' \in BOOLEAN
  /\ Fixed
  /\ UNCHANGED <<pc, faults, iter, todo, tool, outcome, cmd, results, record,
                 log, files, spent, ret>>

\* exec.CommandContext: a cancelled context kills the command, a failure.
RunTestCommand ==
  /\ At("test") /\ cmd < spec.contracts /\ Goto("test")
  /\ cmd' = cmd + 1
  /\ \E pass \in BOOLEAN :
       /\ pass => ~cancelled
       /\ failed' = (failed \/ ~pass)
       /\ results' = results \cup {[iter |-> iter, cmd |-> cmd + 1, pass |-> pass]}
  /\ Fixed
  /\ UNCHANGED <<faults, iter, todo, tool, outcome, record, log, files, spent, ret>>

Passed ==
  /\ At("test") /\ cmd = spec.contracts /\ ~failed
  /\ Finish("completed")
  /\ Fixed
  /\ UNCHANGED <<faults, iter, record, log, files, spent, ret>>

NotPassed ==
  /\ At("test") /\ cmd = spec.contracts /\ failed
  /\ iter' = iter + 1 /\ Goto("loop")
  /\ Fixed
  /\ UNCHANGED <<faults, control, record, log, files, spent, ret>>

-----------------------------------------------------------------------------
(* Runner.terminate, fail, cancel, haltTime                                *)

CompleteRun ==
  /\ At("complete_run") /\ Goto("emit_terminal")
  /\ \/ /\ Persists
        /\ row' = [status |-> outcome, cost |-> 0, completedAt |-> TRUE,
                   reason |-> outcome]
     \/ Refused /\ UNCHANGED row
  /\ Fixed
  /\ UNCHANGED <<iter, control, iters, log, files, spent, ret>>

\* The last event, then Engine.Run returns `value`.
ReportAndReturn(from, type, value) ==
  /\ At(from) /\ Emit(type) /\ Return(value)
  /\ Fixed
  /\ UNCHANGED <<iter, control, record, files, spent>>

\* Mutant of TerminalEvent: the switch has no case for completed.
TerminalEventFailed(status) == "run.failed"

TerminalEvent(status) ==
  IF status = "completed" THEN "run.completed" ELSE "run.failed"

\* Mutant of EmitTerminal: phaseIterate goes on after terminate.
EmitTerminalNoReturn ==
  Report("emit_terminal", TerminalEvent(outcome), "loop")

EmitTerminal == ReportAndReturn("emit_terminal", TerminalEvent(outcome), "nil")

Fail == TryMove("fail", "failed", "emit_failed")
EmitFailed == ReportAndReturn("emit_failed", "run.failed", "error")

Cancel == TryMove("cancel", "cancelled", "emit_cancelled")
EmitCancelled == ReportAndReturn("emit_cancelled", "run.cancelled", "canceled")

HaltTime ==
  /\ At("halt_time") /\ Return("nil")
  /\ UpdateRunStatus("halted_max_time") \/ (Refused /\ UNCHANGED row)
  /\ Fixed
  /\ UNCHANGED <<iter, control, iters, log, files, spent>>

-----------------------------------------------------------------------------
(* What happens to the process from outside                                *)

Over == pc \in {"done", "crashed"}
Handled == ~Over /\ pc \notin {"create_run", "emit_created"}

\* SIGINT or SIGTERM once NotifyContext is in place (Runner.Run).
Signal ==
  /\ Handled /\ ~cancelled /\ cancelled' = TRUE
  /\ UNCHANGED <<spec, pc, late, faults, iter, control, record, log, files,
                 spent, ret>>

\* The deadline is set when phaseIterate starts, and passes at any time after.
Deadline ==
  /\ spec.timed /\ iter > 0 /\ ~Over /\ ~late /\ late' = TRUE
  /\ UNCHANGED <<spec, pc, cancelled, faults, iter, control, record, log, files,
                 spent, ret>>

\* The process dies: SIGKILL, power, or SIGINT before NotifyContext.
Crash ==
  /\ ~Over /\ Goto("crashed")
  /\ Fixed
  /\ UNCHANGED <<faults, iter, control, record, log, files, spent, ret>>

-----------------------------------------------------------------------------
Create    == CreateRun \/ EmitCreated
BlastRadius == SkipBlastRadius \/ EnterBlastRadius \/ BuildGraph \/ EmitBlastRadius
Plan      == \/ CheckBeforePlanning \/ EnterPlanning \/ EmitStarted
             \/ PlanRequest \/ PlanAnswered \/ PlanRefused
             \/ PlanResponse \/ PlanIteration \/ CheckBeforeIterate
Loop      == LoopEnds \/ LoopHaltsOnTime \/ LoopCancels \/ LoopIterates
Iterate   == \/ EnterIterating \/ CreateIteration \/ EmitIteration \/ IterRequest
             \/ IterAnswered \/ IterRefused \/ IterResponse \/ UpdateRunCost
             \/ CompleteIteration \/ EmitCompleted
Tools     == \/ NextTool \/ NoMoreTools \/ BadToolInput \/ Dispatch \/ ToolResult
             \/ FileRead \/ FileWrite \/ InsertFileChange \/ ToolDone
Verify    == \/ NothingToVerify \/ EnterVerifying \/ RunTestCommand
             \/ Passed \/ NotPassed
Terminate == \/ CompleteRun \/ EmitTerminal \/ Fail \/ EmitFailed
             \/ Cancel \/ EmitCancelled \/ HaltTime

Step == Create \/ BlastRadius \/ Plan \/ Loop \/ Iterate \/ Tools \/ Verify \/ Terminate
Next == Step \/ Signal \/ Deadline \/ Crash

Spec == Init /\ [][Next]_vars

\* The process is scheduled, the model answers or errs, test commands end.
FairSpec == Spec /\ WF_vars(Step)

-----------------------------------------------------------------------------
(* Properties                                                              *)

TerminalEvents == {"run.completed", "run.failed", "run.cancelled"}
EventTypes == TerminalEvents \cup
  {"run.created", "run.started", "blast_radius.computed", "llm.request",
   "llm.response", "iteration.started", "iteration.completed", "tool.call",
   "tool.result", "file.read", "file.write"}
Labels == {"create_run", "emit_created", "blast", "build", "emit_blast",
  "before_planning", "planning", "emit_started", "plan_request", "plan_llm",
  "plan_response", "plan_iteration", "before_iterate", "loop", "iterate",
  "create_iteration", "emit_iteration", "iter_request", "iter_llm",
  "iter_response", "update_cost", "tools", "dispatch", "tool_result",
  "file_read", "file_write", "insert_change", "tool_done",
  "complete_iteration", "emit_completed", "verify", "test", "complete_run",
  "emit_terminal", "fail", "emit_failed", "cancel", "emit_cancelled",
  "halt_time", "done", "crashed"}

EventRecord == [type : EventTypes, iter : Nat]
Row == [status : Working \cup Terminal \cup {"absent"}, cost : 0..1,
        completedAt : BOOLEAN, reason : {"none", "completed", "halted_max_iters"}]

\* Every variable stays within the values its Go type and the schema give it.
TypeOK ==
  /\ spec \in Specs
  /\ pc \in Labels
  /\ cancelled \in BOOLEAN /\ late \in BOOLEAN
  /\ faults \in 0..MaxFaults
  /\ iter \in Nat /\ todo \in 0..MaxBlocks
  /\ tool \in {"none", "wrote", "read", "other"}
  /\ cmd \in Nat /\ failed \in BOOLEAN
  /\ results \subseteq [iter : Nat, cmd : Nat, pass : BOOLEAN]
  /\ outcome \in {"none", "completed", "halted_max_iters"}
  /\ row \in Row
  /\ DOMAIN iters \subseteq Nat
  /\ iters \in [DOMAIN iters -> {"running", "completed"}]
  /\ log \in Seq(EventRecord)
  /\ writes \subseteq Nat \X Nat /\ changes \subseteq Nat \X Nat
  /\ spent \in Nat
  /\ ret \in {"none", "nil", "error", "canceled"}

\* No write has been lost so far.
NoLoss == faults = 0 /\ ~cancelled

\* A run is recorded as completed only after every test contract passed in its
\* last iteration, the one whose row is the newest (phaseVerify, terminate).
CompletedMeansVerified ==
  row.status = "completed" =>
    /\ iter >= 1 /\ DOMAIN iters = 1..iter
    /\ \A c \in 1..spec.contracts :
         /\ [iter |-> iter, cmd |-> c, pass |-> TRUE] \in results
         /\ [iter |-> iter, cmd |-> c, pass |-> FALSE] \notin results

\* halted_max_iters is recorded only when every permitted iteration was made
\* and each of them had a failing contract (phaseIterate's loop).
HaltedMeansExhausted ==
  row.status = "halted_max_iters" =>
    /\ DOMAIN iters = 1..MaxIterations
    /\ \A n \in 1..MaxIterations :
         \E r \in results : r.iter = n /\ ~r.pass

\* Iteration rows are numbered 1, 2, ... without a gap, within the budget, only
\* the current one may still be running unless a write was lost, and what is
\* spent on the model is bounded by them and the planning call, whatever fails
\* (phaseIterate's loop is all that bounds it).
WithinBudget ==
  /\ DOMAIN iters \in {1..(iter - 1), 1..iter}
  /\ \A n \in DOMAIN iters : n <= MaxIterations
  /\ NoLoss => \A n \in DOMAIN iters : iters[n] = "running" => n = iter
  /\ spent <= 1 + Cardinality(DOMAIN iters)

\* The terminal audit event is the last of the run's log, so there is one at
\* most, whichever writes were lost (terminate, fail, cancel return at once).
TerminalEventIsLast ==
  \A i \in DOMAIN log : log[i].type \in TerminalEvents => i = Len(log)

\* When no write was lost, a returned run has a terminal row, and its last
\* event tells the same story (haltTime emits none).
RecordsAgree ==
  pc = "done" /\ NoLoss =>
    /\ row.status \in {"completed", "failed", "halted_max_iters",
                       "halted_max_time"}
    /\ (ret = "error") <=> (row.status = "failed")
    /\ row.status # "halted_max_time" =>
         /\ log[Len(log)].type \in {"run.completed", "run.failed"}
         /\ log[Len(log)].type = "run.completed" <=> row.status = "completed"

\* Every file_changes row is of a write that was made, in an iteration that has
\* a row; and a write without its file_changes row is the one being dispatched,
\* unless a write was lost (dispatchToolUse, recordFileWrite).
FileHistoryIsFaithful ==
  /\ changes \subseteq writes
  /\ \A w \in changes : w[1] \in DOMAIN iters
  /\ NoLoss /\ ~Over => \A w \in writes \ changes : w = <<iter, todo>> /\ tool = "wrote"

\* The run as the database shows it behaves as RunLifecycle promises.
Lifecycle == INSTANCE RunLifecycle
  WITH status <- row.status, limit <- MaxIterations,
       begun <- DOMAIN iters, over <- Over
ImplementsLifecycle == Lifecycle!Spec

\* The run returns (or the process dies): no failure leaves it looping.
Returns == <>Over

\* loop.go:205: "cancel transitions the run to StateCancelled and emits
\* run.cancelled."  The context it writes with is the cancelled one.
CancelIsRecorded == ret = "canceled" => row.status = "cancelled"
=============================================================================
