--------------------------- MODULE AgentRunProofs ---------------------------
(***************************************************************************)
(* Safety of AgentRun for every set of spec files, every number of blocks  *)
(* and every number of failing writes: how its loop runs and ends, what    *)
(* its records say, and that it implements RunLifecycle.                   *)
(***************************************************************************)
EXTENDS AgentRun, FiniteSetTheorems, TLAPS

-----------------------------------------------------------------------------
(* The inductive invariant.                                                *)

\* Before phaseIterate.
Planning == {"create_run", "emit_created", "blast", "build", "emit_blast",
  "before_planning", "planning", "emit_started", "plan_request", "plan_llm",
  "plan_response", "plan_iteration", "before_iterate"}
\* In iteration `iter`: before its row exists, and after.
Opening == {"iterate", "create_iteration"}
InIteration == {"emit_iteration", "iter_request", "iter_llm",
  "iter_response", "update_cost", "tools", "dispatch", "tool_result",
  "file_read", "file_write", "insert_change", "tool_done",
  "complete_iteration", "emit_completed", "verify"}
Leaving == {"fail", "emit_failed", "cancel", "emit_cancelled", "halt_time",
            "done", "crashed", "complete_run", "emit_terminal"}

FailedIn(n) == \E r \in results : r.iter = n /\ ~r.pass

\* What `outcome` stands for when terminate is called.
Verified ==
  /\ iter >= 1 /\ DOMAIN iters = 1..iter
  /\ \A c \in 1..spec.contracts :
       /\ [iter |-> iter, cmd |-> c, pass |-> TRUE] \in results
       /\ [iter |-> iter, cmd |-> c, pass |-> FALSE] \notin results
Exhausted ==
  /\ DOMAIN iters = 1..MaxIterations
  /\ \A n \in 1..MaxIterations : FailedIn(n)

\* A block is being dispatched only while there is one, and terminate is called
\* with a status.
InBlock == {"dispatch", "tool_result", "file_read", "file_write",
            "insert_change", "tool_done"}
ControlInv ==
  /\ pc \in InBlock => todo > 0
  /\ pc = "complete_run" => outcome # "none"

\* Where the loop stands: iter, its budget and the rows there are.
LoopInv ==
  /\ pc \in Planning => iter = 0
  /\ pc \in {"loop", "test"} \cup Opening \cup InIteration => iter >= 1
  /\ pc = "loop" => iter = 1 \/ iter <= MaxIterations + 1
  /\ pc \in Opening \cup InIteration \cup {"test"} => iter <= MaxIterations
  /\ pc \in Planning \cup {"loop"} \cup Opening => DOMAIN iters = 1..(iter - 1)
  /\ pc \in InIteration \cup {"test"} => DOMAIN iters = 1..iter
  /\ DOMAIN iters \in {1..(iter - 1), 1..iter}
  /\ \A n \in DOMAIN iters : n <= MaxIterations

\* What the test results say about the iterations made.
ResultsInv ==
  /\ \A r \in results : r.iter <= iter
  /\ pc \in Planning \cup Opening \cup InIteration \cup {"loop"} =>
       \A r \in results : r.iter < iter
  /\ \A n \in 1..(iter - 1) : FailedIn(n)
  /\ pc = "test" =>
       /\ cmd <= spec.contracts
       /\ failed => FailedIn(iter)
       /\ ~failed =>
            /\ \A c \in 1..cmd : [iter |-> iter, cmd |-> c, pass |-> TRUE] \in results
            /\ \A r \in results : r.iter = iter => r.pass

\* terminate is called with a status that is earned, and nothing follows it.
OutcomeInv ==
  /\ outcome # "none" => pc \in {"complete_run", "emit_terminal", "done", "crashed"}
  /\ outcome = "completed" => Verified
  /\ outcome = "halted_max_iters" => Exhausted

\* Which terminal status the row may have, and where.
StatusInv ==
  /\ row.status \in Terminal =>
       pc \in {"emit_terminal", "emit_failed", "emit_cancelled", "done", "crashed"}
  /\ row.status \in {"completed", "halted_max_iters"} => row.status = outcome

LogInv ==
  \A i \in DOMAIN log :
    log[i].type \in TerminalEvents => i = Len(log) /\ Over

IInv == TypeOK /\ ControlInv /\ LoopInv /\ ResultsInv /\ OutcomeInv /\ StatusInv /\ LogInv

-----------------------------------------------------------------------------
(* Type correctness: the shapes of step first, then every action.          *)

LEMMA EmitType ==
  ASSUME TypeOK, NEW type \in EventTypes, Emit(type)
  PROVE  log' \in Seq(EventRecord) /\ faults' \in 0..MaxFaults
<1> DEFINE e == Event(type)
<1>1. e \in EventRecord
  BY DEF TypeOK, Event, EventRecord
<1>2. log \in Seq(EventRecord)
  BY DEF TypeOK
<1>3. log' = log \/ log' = Append(log, e)
  BY DEF Emit
<1>4. log' \in Seq(EventRecord)
  <2> HIDE DEF e, EventRecord
  <2> QED BY <1>1, <1>2, <1>3
<1>5. faults' \in 0..MaxFaults
  BY AgentRunAssumption DEF TypeOK, Emit, Persists, Refused
<1> QED BY <1>4, <1>5

LEMMA ReportType ==
  ASSUME TypeOK, NEW from, NEW type \in EventTypes, NEW to \in Labels,
         Report(from, type, to)
  PROVE  TypeOK'
<1>1. log' \in Seq(EventRecord) /\ faults' \in 0..MaxFaults
  BY EmitType DEF Report
<1> QED
  BY <1>1 DEF TypeOK, Report, Goto, Fixed, control, record, files

LEMMA UpdateRunStatusType ==
  ASSUME TypeOK, NEW status \in Working \cup Terminal,
         UpdateRunStatus(status) \/ (Refused /\ UNCHANGED row)
  PROVE  row' \in Row /\ faults' \in 0..MaxFaults
<1>1. row' \in Row
  BY DEF TypeOK, UpdateRunStatus, Row
<1>2. faults' \in 0..MaxFaults
  BY AgentRunAssumption DEF TypeOK, UpdateRunStatus, Persists, Refused
<1> QED BY <1>1, <1>2

LEMMA MustMoveType ==
  ASSUME TypeOK, NEW from, NEW status \in Working \cup Terminal,
         NEW to \in Labels, MustMove(from, status, to)
  PROVE  TypeOK'
<1>1. row' \in Row /\ faults' \in 0..MaxFaults
  BY UpdateRunStatusType DEF MustMove
<1> QED
  BY <1>1 DEF TypeOK, MustMove, Goto, Fixed, control, files, Labels

LEMMA TryMoveType ==
  ASSUME TypeOK, NEW from, NEW status \in Working \cup Terminal,
         NEW to \in Labels, TryMove(from, status, to)
  PROVE  TypeOK'
<1>1. row' \in Row /\ faults' \in 0..MaxFaults
  BY UpdateRunStatusType DEF TryMove
<1> QED
  BY <1>1 DEF TypeOK, TryMove, Goto, Fixed, control, files

LEMMA BranchType ==
  ASSUME TypeOK, NEW from, NEW to \in Labels, Branch(from, to)
  PROVE  TypeOK'
  BY DEF TypeOK, Branch, Goto, Fixed, control, record, files

LEMMA ReportAndReturnType ==
  ASSUME TypeOK, NEW from, NEW type \in EventTypes,
         NEW value \in {"nil", "error", "canceled"},
         ReportAndReturn(from, type, value)
  PROVE  TypeOK'
<1>1. log' \in Seq(EventRecord) /\ faults' \in 0..MaxFaults
  BY EmitType DEF ReportAndReturn
<1> QED
  BY <1>1 DEF TypeOK, ReportAndReturn, Return, Goto, Fixed, control, record,
     files, Labels

\* Every event type and label the actions name is in its set.
LEMMA CreateType == TypeOK /\ Create => TypeOK'
<1> SUFFICES ASSUME TypeOK, Create PROVE TypeOK'
  OBVIOUS
<1>1. CASE CreateRun
  <2>1. row' \in Row /\ faults' \in 0..MaxFaults
    BY <1>1, AgentRunAssumption
       DEF CreateRun, TypeOK, Row, Working, Persists, Refused
  <2> QED
    BY SMTT(30), <1>1, <2>1 DEF CreateRun, TypeOK, Return, Goto, Fixed, control, files, Labels
<1>2. CASE EmitCreated
  <2>1. EmitCreated => Emit("run.created")
    BY DEF EmitCreated, Emit
  <2>2. log' \in Seq(EventRecord) /\ faults' \in 0..MaxFaults
    BY <1>2, <2>1, EmitType DEF EventTypes
  <2> QED
    BY <1>2, <2>2
       DEF EmitCreated, TypeOK, Return, Goto, Fixed, control, record, files, Labels
<1> QED BY <1>1, <1>2 DEF Create

LEMMA BlastRadiusType == TypeOK /\ BlastRadius => TypeOK'
<1> USE DEF Labels, EventTypes, Working
<1>1. TypeOK /\ SkipBlastRadius => TypeOK'
  BY BranchType DEF SkipBlastRadius
<1>2. TypeOK /\ EnterBlastRadius => TypeOK'
  BY MustMoveType DEF EnterBlastRadius
<1>3. TypeOK /\ BuildGraph => TypeOK'
  BY BranchType DEF BuildGraph
<1>4. TypeOK /\ EmitBlastRadius => TypeOK'
  BY ReportType DEF EmitBlastRadius
<1> QED BY <1>1, <1>2, <1>3, <1>4 DEF BlastRadius

LEMMA PlanType == TypeOK /\ Plan => TypeOK'
<1> USE DEF Labels, EventTypes, Working
<1>1. TypeOK /\ CheckBeforePlanning => TypeOK'
  BY BranchType DEF CheckBeforePlanning
<1>2. TypeOK /\ EnterPlanning => TypeOK'
  BY MustMoveType DEF EnterPlanning
<1>3. ASSUME TypeOK, EmitStarted PROVE TypeOK'
  <2>1. Emit("run.started")
    BY <1>3 DEF EmitStarted, Emit
  <2>2. log' \in Seq(EventRecord) /\ faults' \in 0..MaxFaults
    BY <1>3, <2>1, EmitType
  <2> QED
    BY <1>3, <2>2 DEF EmitStarted, TypeOK, Goto, Fixed, control, record, files
<1>4. TypeOK /\ PlanRequest => TypeOK'
  BY ReportType DEF PlanRequest
<1>5. TypeOK /\ PlanAnswered => TypeOK'
  BY SMTT(30) DEF PlanAnswered, TypeOK, Goto, Fixed, control, record, files
<1>6. TypeOK /\ PlanRefused => TypeOK'
  BY BranchType DEF PlanRefused
<1>7. TypeOK /\ PlanResponse => TypeOK'
  BY ReportType DEF PlanResponse
<1>8. TypeOK /\ PlanIteration => TypeOK'
  BY ReportType DEF PlanIteration
<1>9. TypeOK /\ CheckBeforeIterate => TypeOK'
  BY DEF CheckBeforeIterate, TypeOK, Goto, Fixed, control, record, files
<1> QED
  BY <1>1, <1>2, <1>3, <1>4, <1>5, <1>6, <1>7, <1>8, <1>9 DEF Plan

LEMMA LoopType == TypeOK /\ Loop => TypeOK'
<1> USE DEF Labels
<1>1. TypeOK /\ LoopEnds => TypeOK'
  BY DEF LoopEnds, Finish, TypeOK, Goto, Fixed, control, record, files
<1>2. TypeOK /\ LoopHaltsOnTime => TypeOK'
  BY BranchType DEF LoopHaltsOnTime
<1>3. TypeOK /\ LoopCancels => TypeOK'
  BY BranchType DEF LoopCancels
<1>4. TypeOK /\ LoopIterates => TypeOK'
  BY BranchType DEF LoopIterates
<1> QED BY <1>1, <1>2, <1>3, <1>4 DEF Loop

LEMMA IterateType == TypeOK /\ Iterate => TypeOK'
<1> USE DEF Labels, EventTypes, Working
<1>1. TypeOK /\ EnterIterating => TypeOK'
  BY MustMoveType DEF EnterIterating
<1>2. ASSUME TypeOK, CreateIteration PROVE TypeOK'
  <2>1. faults' \in 0..MaxFaults
    BY <1>2, AgentRunAssumption DEF CreateIteration, TypeOK, Persists, Refused
  <2>2. DOMAIN iters' \subseteq Nat /\ iters' \in [DOMAIN iters' -> {"running", "completed"}]
    BY <1>2 DEF CreateIteration, TypeOK
  <2> QED
    BY <1>2, <2>1, <2>2 DEF CreateIteration, TypeOK, Goto, Fixed, control, files
<1>3. TypeOK /\ EmitIteration => TypeOK'
  BY ReportType DEF EmitIteration
<1>4. TypeOK /\ IterRequest => TypeOK'
  BY ReportType DEF IterRequest
<1>5. TypeOK /\ IterAnswered => TypeOK'
  BY SMTT(30) DEF IterAnswered, TypeOK, Goto, Fixed, record, files
<1>6. TypeOK /\ IterRefused => TypeOK'
  BY BranchType DEF IterRefused
<1>7. TypeOK /\ IterResponse => TypeOK'
  BY ReportType DEF IterResponse
<1>8. ASSUME TypeOK, UpdateRunCost PROVE TypeOK'
  <2>1. row' \in Row
    BY <1>8 DEF UpdateRunCost, TypeOK, Row
  <2>2. faults' \in 0..MaxFaults
    BY <1>8, AgentRunAssumption DEF UpdateRunCost, TypeOK, Persists, Refused
  <2> QED
    BY <1>8, <2>1, <2>2 DEF UpdateRunCost, TypeOK, Goto, Fixed, control, files
<1>9. ASSUME TypeOK, CompleteIteration PROVE TypeOK'
  <2>1. faults' \in 0..MaxFaults
    BY <1>9, AgentRunAssumption DEF CompleteIteration, TypeOK, Persists, Refused
  <2>2. DOMAIN iters' \subseteq Nat /\ iters' \in [DOMAIN iters' -> {"running", "completed"}]
    BY <1>9 DEF CompleteIteration, TypeOK
  <2> QED
    BY <1>9, <2>1, <2>2 DEF CompleteIteration, TypeOK, Goto, Fixed, control, files
<1>10. TypeOK /\ EmitCompleted => TypeOK'
  BY ReportType DEF EmitCompleted
<1> QED
  BY <1>1, <1>2, <1>3, <1>4, <1>5, <1>6, <1>7, <1>8, <1>9, <1>10 DEF Iterate

LEMMA ToolsType == TypeOK /\ ControlInv /\ Tools => TypeOK'
<1> USE DEF Labels, EventTypes
<1>1. TypeOK /\ NextTool => TypeOK'
  BY ReportType DEF NextTool
<1>2. TypeOK /\ NoMoreTools => TypeOK'
  BY BranchType DEF NoMoreTools
<1>3. TypeOK /\ ControlInv /\ BadToolInput => TypeOK'
  BY AgentRunAssumption, SMTT(30)
     DEF BadToolInput, ControlInv, InBlock, BlockDone, TypeOK, At, Goto, Fixed, record, files
<1>4. ASSUME TypeOK, Dispatch, ControlInv PROVE TypeOK'
  <2>1. writes' \subseteq Nat \X Nat
    BY <1>4 DEF Dispatch, TypeOK
  <2> QED
    BY <1>4, <2>1 DEF Dispatch, TypeOK, Goto, Fixed, record
<1>5. TypeOK /\ ToolResult => TypeOK'
  <2> DEFINE to == CASE tool = "wrote" -> "file_write"
                     [] tool = "read"  -> "file_read"
                     [] OTHER          -> "tool_done"
  <2>1. TypeOK => to \in Labels
    BY DEF TypeOK
  <2>2. ToolResult => Report("tool_result", "tool.result", to)
    BY DEF ToolResult
  <2> HIDE DEF to
  <2> QED BY <2>1, <2>2, ReportType
<1>6. TypeOK /\ FileRead => TypeOK'
  BY ReportType DEF FileRead
<1>7. TypeOK /\ FileWrite => TypeOK'
  BY ReportType DEF FileWrite
<1>8. ASSUME TypeOK, InsertFileChange PROVE TypeOK'
  <2>1. changes' \subseteq Nat \X Nat
    BY <1>8 DEF InsertFileChange, TypeOK
  <2>2. faults' \in 0..MaxFaults
    BY <1>8, AgentRunAssumption DEF InsertFileChange, TypeOK, Persists, Refused
  <2> QED
    BY <1>8, <2>1, <2>2 DEF InsertFileChange, TypeOK, Goto, Fixed, control, record
<1>9. TypeOK /\ ControlInv /\ ToolDone => TypeOK'
  BY AgentRunAssumption, SMTT(30)
     DEF ToolDone, ControlInv, InBlock, BlockDone, TypeOK, At, Goto, Fixed, record, files
<1> QED
  BY <1>1, <1>2, <1>3, <1>4, <1>5, <1>6, <1>7, <1>8, <1>9 DEF Tools

LEMMA VerifyType == TypeOK /\ Verify => TypeOK'
<1> USE DEF Labels
<1>1. TypeOK /\ NothingToVerify => TypeOK'
  BY DEF NothingToVerify, Finish, TypeOK, Goto, Fixed, record, files
<1>2. ASSUME TypeOK, EnterVerifying PROVE TypeOK'
  <2>1. row' \in Row /\ faults' \in 0..MaxFaults
    BY <1>2, UpdateRunStatusType DEF EnterVerifying, Working
  <2> QED
    BY <1>2, <2>1 DEF EnterVerifying, TypeOK, Goto, Fixed, files
<1>3. ASSUME TypeOK, RunTestCommand PROVE TypeOK'
  <2>1. results' \subseteq [iter : Nat, cmd : Nat, pass : BOOLEAN]
    BY <1>3 DEF RunTestCommand, TypeOK
  <2>2. failed' \in BOOLEAN
    BY <1>3 DEF RunTestCommand, TypeOK
  <2> QED
    BY SMTT(30), <1>3, <2>1, <2>2 DEF RunTestCommand, TypeOK, Goto, Fixed, record, files
<1>4. TypeOK /\ Passed => TypeOK'
  BY DEF Passed, Finish, TypeOK, Goto, Fixed, record, files
<1>5. TypeOK /\ NotPassed => TypeOK'
  BY DEF NotPassed, TypeOK, Goto, Fixed, control, record, files
<1> QED BY <1>1, <1>2, <1>3, <1>4, <1>5 DEF Verify

LEMMA TerminateType == TypeOK /\ ControlInv /\ Terminate => TypeOK'
<1> USE DEF Labels, EventTypes, TerminalEvents, Terminal
<1>1. ASSUME TypeOK, CompleteRun, outcome # "none" PROVE TypeOK'
  <2>a. outcome \in {"completed", "halted_max_iters"}
    BY <1>1 DEF TypeOK
  <2>b. row' = row \/ row' = [status |-> outcome, cost |-> 0,
                             completedAt |-> TRUE, reason |-> outcome]
    BY <1>1 DEF CompleteRun
  <2>c. [status |-> outcome, cost |-> 0, completedAt |-> TRUE, reason |-> outcome] \in Row
    <3>1. outcome \in Working \cup Terminal \cup {"absent"}
      BY <2>a
    <3> QED BY <2>a, <3>1 DEF Row
  <2>1. row' \in Row
    BY <1>1, <2>b, <2>c DEF TypeOK
  <2>2. faults' \in 0..MaxFaults
    BY <1>1, AgentRunAssumption DEF CompleteRun, TypeOK, Persists, Refused
  <2> QED
    BY <1>1, <2>1, <2>2 DEF CompleteRun, TypeOK, Goto, Fixed, control, files
<1>2. TypeOK /\ EmitTerminal => TypeOK'
  BY ReportAndReturnType DEF EmitTerminal, TerminalEvent
<1>3. TypeOK /\ Fail => TypeOK'
  BY TryMoveType DEF Fail
<1>4. TypeOK /\ EmitFailed => TypeOK'
  BY ReportAndReturnType DEF EmitFailed
<1>5. TypeOK /\ Cancel => TypeOK'
  BY TryMoveType DEF Cancel
<1>6. TypeOK /\ EmitCancelled => TypeOK'
  BY ReportAndReturnType DEF EmitCancelled
<1>7. ASSUME TypeOK, HaltTime PROVE TypeOK'
  <2>1. row' \in Row /\ faults' \in 0..MaxFaults
    BY <1>7, UpdateRunStatusType DEF HaltTime
  <2> QED
    BY <1>7, <2>1 DEF HaltTime, TypeOK, Return, Goto, Fixed, control, files
<1>8. CompleteRun => pc = "complete_run"
  BY DEF CompleteRun, At
<1> QED
  BY <1>1, <1>2, <1>3, <1>4, <1>5, <1>6, <1>7, <1>8 DEF Terminate, ControlInv

LEMMA OutsideType == TypeOK /\ (Signal \/ Deadline \/ Crash) => TypeOK'
<1>1. TypeOK /\ Signal => TypeOK'
  BY DEF Signal, TypeOK, control, record, files
<1>2. TypeOK /\ Deadline => TypeOK'
  BY DEF Deadline, TypeOK, control, record, files
<1>3. TypeOK /\ Crash => TypeOK'
  BY DEF Crash, TypeOK, Goto, Fixed, control, record, files, Labels
<1> QED BY <1>1, <1>2, <1>3

LEMMA ControlInvStep == TypeOK /\ ControlInv /\ [Next]_vars => ControlInv'
<1> SUFFICES ASSUME TypeOK, ControlInv, [Next]_vars PROVE ControlInv'
  OBVIOUS
<1> USE DEF ControlInv, InBlock, At, Goto, Branch, Report, MustMove, TryMove,
            ReportAndReturn, Return, Finish, control
<1>1. CASE Create
  BY <1>1 DEF Create, CreateRun, EmitCreated
<1>2. CASE BlastRadius
  BY <1>2 DEF BlastRadius, SkipBlastRadius, EnterBlastRadius, BuildGraph, EmitBlastRadius
<1>3. CASE Plan
  BY <1>3 DEF Plan, CheckBeforePlanning, EnterPlanning, EmitStarted, PlanRequest,
     PlanAnswered, PlanRefused, PlanResponse, PlanIteration, CheckBeforeIterate
<1>4. CASE Loop
  BY <1>4 DEF Loop, LoopEnds, LoopHaltsOnTime, LoopCancels, LoopIterates
<1>5. CASE Iterate
  BY <1>5 DEF Iterate, EnterIterating, CreateIteration, EmitIteration, IterRequest,
     IterAnswered, IterRefused, IterResponse, UpdateRunCost, CompleteIteration,
     EmitCompleted
<1>6. CASE Tools
  BY <1>6 DEF Tools, NextTool, NoMoreTools, BadToolInput, Dispatch, ToolResult,
     FileRead, FileWrite, InsertFileChange, ToolDone
<1>7. CASE Verify
  BY <1>7 DEF Verify, NothingToVerify, EnterVerifying, RunTestCommand, Passed, NotPassed
<1>8. CASE Terminate
  BY <1>8 DEF Terminate, CompleteRun, EmitTerminal, Fail, EmitFailed, Cancel,
     EmitCancelled, HaltTime
<1>9. CASE Signal \/ Deadline \/ Crash
  BY <1>9 DEF Signal, Deadline, Crash
<1>10. CASE UNCHANGED vars
  BY <1>10 DEF vars
<1> QED
  BY <1>1, <1>2, <1>3, <1>4, <1>5, <1>6, <1>7, <1>8, <1>9, <1>10 DEF Next, Step

LEMMA TypeStep == TypeOK /\ ControlInv /\ [Next]_vars => TypeOK'
<1>1. TypeOK /\ UNCHANGED vars => TypeOK'
  BY DEF TypeOK, vars, control, record, files
<1> QED
  BY <1>1, CreateType, BlastRadiusType, PlanType, LoopType, IterateType, ToolsType,
     VerifyType, TerminateType, OutsideType DEF Next, Step

LEMMA InitType == Init => TypeOK /\ ControlInv
<1> SUFFICES ASSUME Init PROVE TypeOK /\ ControlInv
  OBVIOUS
<1>1. row \in Row
  BY DEF Init, NoRow, Row
<1>2. DOMAIN iters \subseteq Nat /\ iters \in [DOMAIN iters -> {"running", "completed"}]
  BY DEF Init
<1>3. log \in Seq(EventRecord)
  BY DEF Init
<1>4. pc \in Labels
  BY DEF Init, Labels
<1>5. TypeOK
  <2>1. 0 \in 0..MaxBlocks /\ 0 \in 0..MaxFaults
    BY AgentRunAssumption
  <2>2. faults = 0 /\ todo = 0 /\ iter = 0 /\ cmd = 0 /\ spent = 0 /\ spec \in Specs
        /\ cancelled = FALSE /\ late = FALSE /\ failed = FALSE
        /\ tool = "none" /\ outcome = "none" /\ ret = "none"
    BY DEF Init
  <2>3. results = {} /\ writes = {} /\ changes = {}
    BY DEF Init
  <2> QED BY <1>1, <1>2, <1>3, <1>4, <2>1, <2>2, <2>3 DEF TypeOK
<1>6. ControlInv
  BY DEF Init, ControlInv, InBlock
<1> QED BY <1>5, <1>6

\* The values of every run stay within their types (TypeOK), whatever the spec
\* file, the length of the model's answers and the writes that fail.
THEOREM TypeCorrect == Spec => []TypeOK
<1>1. Init => TypeOK /\ ControlInv
  BY InitType
<1>2. TypeOK /\ ControlInv /\ [Next]_vars => (TypeOK /\ ControlInv)'
  BY TypeStep, ControlInvStep
<1> QED
  BY <1>1, <1>2, PTL DEF Spec

-----------------------------------------------------------------------------
(* The loop: budget and rows.                                              *)

LEMMA LoopInvStep == TypeOK /\ LoopInv /\ [Next]_vars => LoopInv'
<1> SUFFICES ASSUME TypeOK, LoopInv, [Next]_vars PROVE LoopInv'
  OBVIOUS
<1>t. iter \in Nat /\ MaxIterations \in Int /\ DOMAIN iters \subseteq Nat
  BY AgentRunAssumption DEF TypeOK, MaxIterations, SpecFile
<1>m. spec' = spec => MaxIterations' = MaxIterations
  BY DEF MaxIterations
<1> USE <1>t, <1>m DEF LoopInv, Planning, Opening, InIteration, At, Goto, Branch, Report,
            MustMove, TryMove, ReportAndReturn, Return, Finish, Fixed, record
<1>1. CASE Create
  BY <1>1 DEF Create, CreateRun, EmitCreated
<1>2. CASE BlastRadius
  BY <1>2 DEF BlastRadius, SkipBlastRadius, EnterBlastRadius, BuildGraph, EmitBlastRadius
<1>3. CASE Plan
  BY <1>3 DEF Plan, CheckBeforePlanning, EnterPlanning, EmitStarted, PlanRequest,
     PlanAnswered, PlanRefused, PlanResponse, PlanIteration, CheckBeforeIterate
<1>4. CASE Loop
  BY <1>4 DEF Loop, LoopEnds, LoopHaltsOnTime, LoopCancels, LoopIterates, InBudget
<1>5. CASE CreateIteration
  <2>1. pc = "create_iteration" /\ iter' = iter /\ spec' = spec /\ iter >= 1
        /\ iter <= MaxIterations /\ DOMAIN iters = 1..(iter - 1)
    BY <1>5 DEF CreateIteration
  <2>2. CASE pc' = "fail" /\ iters' = iters
    BY <2>1, <2>2
  <2>3. CASE pc' = "emit_iteration" /\ DOMAIN iters' = DOMAIN iters \cup {iter}
    <3>1. DOMAIN iters' = 1..iter
      BY <2>1, <2>3
    <3> QED BY <2>1, <2>3, <3>1
  <2> QED BY <1>5, <2>2, <2>3 DEF CreateIteration
<1>6. CASE CompleteIteration
  BY <1>6 DEF CompleteIteration
<1>7. CASE Iterate /\ ~CreateIteration /\ ~CompleteIteration
  BY <1>7 DEF Iterate, EnterIterating, EmitIteration, IterRequest,
     IterAnswered, IterRefused, IterResponse, UpdateRunCost, EmitCompleted
<1>8. CASE Tools
  BY <1>8 DEF Tools, NextTool, NoMoreTools, BadToolInput, Dispatch, ToolResult,
     FileRead, FileWrite, InsertFileChange, ToolDone
<1>9. CASE Verify
  BY <1>9 DEF Verify, NothingToVerify, EnterVerifying, RunTestCommand, Passed, NotPassed
<1>10. CASE Terminate
  BY <1>10 DEF Terminate, CompleteRun, EmitTerminal, Fail, EmitFailed, Cancel,
     EmitCancelled, HaltTime
<1>11. CASE Signal \/ Deadline \/ Crash
  BY <1>11 DEF Signal, Deadline, Crash
<1>12. CASE UNCHANGED vars
  BY <1>12 DEF vars
<1> QED
  BY <1>1, <1>2, <1>3, <1>4, <1>5, <1>6, <1>7, <1>8, <1>9, <1>10, <1>11, <1>12
     DEF Next, Step

-----------------------------------------------------------------------------
(* What the test results say.                                              *)

\* A step that changes no result and keeps `iter`, and does not enter or leave
\* the verification, changes nothing that ResultsInv says.
LEMMA ResultsQuiet ==
  ASSUME ResultsInv, UNCHANGED <<results, iter>>,
         pc' # "test",
         pc' \in Planning \cup Opening \cup InIteration \cup {"loop"}
           => pc \in Planning \cup Opening \cup InIteration \cup {"loop"}
  PROVE  ResultsInv'
  BY DEF ResultsInv, FailedIn

LEMMA ResultsInvStep == TypeOK /\ LoopInv /\ ResultsInv /\ [Next]_vars => ResultsInv'
<1> SUFFICES ASSUME TypeOK, LoopInv, ResultsInv, [Next]_vars PROVE ResultsInv'
  OBVIOUS
<1>t. /\ iter \in Nat /\ cmd \in Nat /\ failed \in BOOLEAN /\ spec.contracts \in Nat
      /\ results \subseteq [iter : Nat, cmd : Nat, pass : BOOLEAN]
  BY AgentRunAssumption DEF TypeOK, SpecFile
<1> DEFINE Before == Planning \cup Opening \cup InIteration \cup {"loop"}
<1>q. ASSUME UNCHANGED <<results, iter>>, pc' # "test", pc' \in Before => pc \in Before
      PROVE  ResultsInv'
  BY <1>q, ResultsQuiet
<1> USE <1>q DEF Planning, Opening, InIteration, At, Goto, Branch, Report,
            MustMove, TryMove, ReportAndReturn, Return, Finish, control
<1>1. CASE Create
  BY <1>1 DEF Create, CreateRun, EmitCreated
<1>2. CASE BlastRadius
  BY <1>2 DEF BlastRadius, SkipBlastRadius, EnterBlastRadius, BuildGraph, EmitBlastRadius
<1>3. CASE CheckBeforeIterate
  <2>1. /\ pc = "before_iterate" /\ iter = 0 /\ results' = results
        /\ \/ iter' = 0 /\ pc' = "cancel"
           \/ iter' = 1 /\ pc' = "loop"
    BY <1>3 DEF CheckBeforeIterate, LoopInv
  <2>2. results = {}
    BY <2>1, <1>t DEF ResultsInv
  <2> QED BY <2>1, <2>2 DEF ResultsInv, FailedIn
<1>4. CASE Plan /\ ~CheckBeforeIterate
  BY <1>4 DEF Plan, CheckBeforePlanning, EnterPlanning, EmitStarted, PlanRequest,
     PlanAnswered, PlanRefused, PlanResponse, PlanIteration
<1>5. CASE Loop
  BY <1>5 DEF Loop, LoopEnds, LoopHaltsOnTime, LoopCancels, LoopIterates
<1>6. CASE Iterate
  BY <1>6 DEF Iterate, EnterIterating, CreateIteration, EmitIteration, IterRequest,
     IterAnswered, IterRefused, IterResponse, UpdateRunCost, CompleteIteration,
     EmitCompleted
<1>7. CASE Tools
  BY <1>7 DEF Tools, NextTool, NoMoreTools, BadToolInput, Dispatch, ToolResult,
     FileRead, FileWrite, InsertFileChange, ToolDone
<1>8. CASE NothingToVerify \/ Passed
  BY <1>8 DEF NothingToVerify, Passed
<1>9. CASE EnterVerifying
  <2>1. /\ pc = "verify" /\ pc' = "test" /\ cmd' = 0 /\ failed' = FALSE
        /\ spec' = spec /\ iter' = iter /\ results' = results
    BY <1>9 DEF EnterVerifying, Fixed
  <2> QED BY <2>1, <1>t DEF ResultsInv, FailedIn
<1>10. CASE RunTestCommand
  <2>1. /\ pc = "test" /\ pc' = "test" /\ cmd < spec.contracts /\ cmd' = cmd + 1
        /\ spec' = spec /\ iter' = iter
    BY <1>10 DEF RunTestCommand, Fixed
  <2>2. PICK pass \in BOOLEAN :
          /\ failed' = (failed \/ ~pass)
          /\ results' = results \cup {[iter |-> iter, cmd |-> cmd + 1, pass |-> pass]}
    BY <1>10 DEF RunTestCommand
  <2>3. \A r \in results' : r.iter <= iter'
    BY <2>1, <2>2, <1>t DEF ResultsInv
  <2>4. \A n \in Nat : FailedIn(n) => FailedIn(n)'
    BY <2>2 DEF FailedIn
  <2>5. \A n \in 1..(iter' - 1) : FailedIn(n)'
    BY <2>1, <2>4, <1>t DEF ResultsInv
  <2>6. failed' => FailedIn(iter)'
    <3>1. CASE failed
      <4>1. FailedIn(iter)
        BY <3>1, <2>1, <1>t DEF ResultsInv
      <4>2. PICK r \in results : r.iter = iter /\ ~r.pass
        BY <4>1 DEF FailedIn
      <4> QED BY <4>2, <2>1, <2>2 DEF FailedIn
    <3>2. CASE ~pass
      <4> DEFINE r == [iter |-> iter, cmd |-> cmd + 1, pass |-> pass]
      <4>1. r \in results' /\ r.iter = iter /\ ~r.pass
        BY <2>2, <3>2
      <4> HIDE DEF r
      <4> QED BY <4>1, <2>1 DEF FailedIn
    <3> QED BY <3>1, <3>2, <2>2
  <2>7. ASSUME ~failed' PROVE
          /\ \A c \in 1..cmd' : [iter |-> iter', cmd |-> c, pass |-> TRUE] \in results'
          /\ \A r \in results' : r.iter = iter' => r.pass
    <3>1. ~failed /\ pass
      BY <2>7, <2>2, <1>t
    <3>2. ASSUME NEW c \in 1..cmd'
          PROVE  [iter |-> iter', cmd |-> c, pass |-> TRUE] \in results'
      <4>1. CASE c = cmd + 1
        BY <4>1, <3>1, <2>1, <2>2
      <4>2. CASE c \in 1..cmd
        BY <4>2, <3>1, <2>1, <2>2 DEF ResultsInv
      <4> QED BY <4>1, <4>2, <2>1, <1>t
    <3>3. \A r \in results' : r.iter = iter' => r.pass
      BY <3>1, <2>1, <2>2 DEF ResultsInv
    <3> QED BY <3>2, <3>3
  <2>8. cmd' <= spec'.contracts
    BY <2>1, <1>t
  <2> QED
    BY <2>1, <2>3, <2>5, <2>6, <2>7, <2>8 DEF ResultsInv
<1>11. CASE NotPassed
  <2>1. /\ pc = "test" /\ pc' = "loop" /\ failed /\ iter' = iter + 1
        /\ results' = results /\ spec' = spec
    BY <1>11 DEF NotPassed, Fixed
  <2>2. \A n \in 1..iter : FailedIn(n)
    BY <2>1, <1>t DEF ResultsInv
  <2>3. \A n \in 1..(iter' - 1) : FailedIn(n)'
    BY <2>1, <2>2, <1>t DEF FailedIn
  <2> QED BY <2>1, <2>3, <1>t DEF ResultsInv
<1>12. CASE Terminate
  BY <1>12 DEF Terminate, CompleteRun, EmitTerminal, Fail, EmitFailed, Cancel,
     EmitCancelled, HaltTime
<1>13. CASE Signal \/ Deadline
  BY <1>13 DEF Signal, Deadline, ResultsInv, FailedIn
<1>14. CASE Crash
  BY <1>14 DEF Crash
<1>15. CASE UNCHANGED vars
  BY <1>15 DEF vars, ResultsInv, FailedIn
<1> QED
  BY <1>1, <1>2, <1>3, <1>4, <1>5, <1>6, <1>7, <1>8, <1>9, <1>10, <1>11, <1>12,
     <1>13, <1>14, <1>15 DEF Next, Step, Verify

-----------------------------------------------------------------------------
(* The status given to terminate is earned.                                *)

LEMMA OutcomeInvStep ==
  TypeOK /\ LoopInv /\ ResultsInv /\ OutcomeInv /\ [Next]_vars => OutcomeInv'
<1> SUFFICES ASSUME TypeOK, LoopInv, ResultsInv, OutcomeInv, [Next]_vars
             PROVE  OutcomeInv'
  OBVIOUS
<1>t. /\ iter \in Nat /\ cmd \in Nat /\ failed \in BOOLEAN /\ spec.contracts \in Nat
      /\ results \subseteq [iter : Nat, cmd : Nat, pass : BOOLEAN]
      /\ MaxIterations \in Int
  BY AgentRunAssumption DEF TypeOK, SpecFile, MaxIterations
\* Once it is chosen, the outcome and the evidence for it stay.
<1>k. ASSUME UNCHANGED <<spec, iter, iters, results, outcome>>,
             pc' \in {"complete_run", "emit_terminal", "done", "crashed"}
      PROVE  OutcomeInv'
  BY <1>k DEF OutcomeInv, Verified, Exhausted, FailedIn, MaxIterations
\* Before that there is none.
<1>n. ASSUME outcome' = outcome,
             pc \notin {"complete_run", "emit_terminal", "done", "crashed"}
      PROVE  OutcomeInv'
  BY <1>n DEF OutcomeInv
<1> USE DEF At, Goto, Branch, Report, MustMove, TryMove, ReportAndReturn, Return,
            Fixed, control, record
<1>1. CASE Create \/ BlastRadius \/ Plan \/ Iterate \/ Tools
  BY <1>1, <1>n DEF Create, CreateRun, EmitCreated, BlastRadius, SkipBlastRadius,
     EnterBlastRadius, BuildGraph, EmitBlastRadius, Plan, CheckBeforePlanning,
     EnterPlanning, EmitStarted, PlanRequest, PlanAnswered, PlanRefused,
     PlanResponse, PlanIteration, CheckBeforeIterate, Iterate, EnterIterating,
     CreateIteration, EmitIteration, IterRequest, IterAnswered, IterRefused,
     IterResponse, UpdateRunCost, CompleteIteration, EmitCompleted, Tools,
     NextTool, NoMoreTools, BadToolInput, Dispatch, ToolResult, FileRead,
     FileWrite, InsertFileChange, ToolDone
<1>2. CASE LoopEnds
  <2>1. /\ pc = "loop" /\ pc' = "complete_run" /\ outcome' = "halted_max_iters"
        /\ spec' = spec /\ iter' = iter /\ iters' = iters /\ results' = results
        /\ ~(iter <= MaxIterations)
    BY <1>2 DEF LoopEnds, InBudget, Finish
  <2>2. DOMAIN iters = 1..(iter - 1) /\ iter >= 1
        /\ (iter = 1 \/ iter <= MaxIterations + 1)
    BY <2>1 DEF LoopInv
  <2>3. 1..(iter - 1) = 1..MaxIterations
    BY <2>1, <2>2, <1>t
  <2>4. Exhausted
    BY <2>2, <2>3 DEF Exhausted, ResultsInv
  <2> QED BY <2>1, <2>4 DEF OutcomeInv, Exhausted, FailedIn, MaxIterations
<1>3. CASE Loop /\ ~LoopEnds
  BY <1>3, <1>n DEF Loop, LoopHaltsOnTime, LoopCancels, LoopIterates
<1>4. CASE NothingToVerify
  <2>1. /\ pc = "verify" /\ pc' = "complete_run" /\ outcome' = "completed"
        /\ spec' = spec /\ iter' = iter /\ iters' = iters /\ results' = results
        /\ spec.contracts = 0
    BY <1>4 DEF NothingToVerify, Finish
  <2>2. DOMAIN iters = 1..iter /\ iter >= 1
    BY <2>1 DEF LoopInv, InIteration
  <2> QED BY <2>1, <2>2 DEF OutcomeInv, Verified
<1>5. CASE Passed
  <2>1. /\ pc = "test" /\ pc' = "complete_run" /\ outcome' = "completed"
        /\ spec' = spec /\ iter' = iter /\ iters' = iters /\ results' = results
        /\ cmd = spec.contracts /\ ~failed
    BY <1>5 DEF Passed, Finish
  <2>2. DOMAIN iters = 1..iter /\ iter >= 1
    BY <2>1 DEF LoopInv
  <2>3. ASSUME NEW c \in 1..spec.contracts
        PROVE  /\ [iter |-> iter, cmd |-> c, pass |-> TRUE] \in results
               /\ [iter |-> iter, cmd |-> c, pass |-> FALSE] \notin results
    BY <2>1, <2>3 DEF ResultsInv
  <2> QED BY <2>1, <2>2, <2>3 DEF OutcomeInv, Verified
<1>6. CASE EnterVerifying \/ RunTestCommand \/ NotPassed
  BY <1>6, <1>n DEF EnterVerifying, RunTestCommand, NotPassed
<1>7. CASE CompleteRun \/ EmitTerminal
  BY <1>7, <1>k DEF CompleteRun, EmitTerminal
<1>8. CASE Terminate /\ ~CompleteRun /\ ~EmitTerminal
  BY <1>8, <1>n DEF Terminate, Fail, EmitFailed, Cancel, EmitCancelled, HaltTime
<1>9. CASE Crash
  BY <1>9, <1>k DEF Crash
<1>10. CASE Signal \/ Deadline \/ UNCHANGED vars
  BY <1>10 DEF Signal, Deadline, vars, OutcomeInv, Verified, Exhausted, FailedIn,
     MaxIterations
<1> QED
  BY <1>1, <1>2, <1>3, <1>4, <1>5, <1>6, <1>7, <1>8, <1>9, <1>10
     DEF Next, Step, Verify

-----------------------------------------------------------------------------
(* Terminal statuses and where they are written.                           *)

LEMMA StatusInvStep == TypeOK /\ StatusInv /\ [Next]_vars => StatusInv'
<1> SUFFICES ASSUME TypeOK, StatusInv, [Next]_vars PROVE StatusInv'
  OBVIOUS
<1> DEFINE Ended == {"emit_terminal", "emit_failed", "emit_cancelled", "done", "crashed"}
\* A row that is left alone stays as terminal as it was.
<1>a. ASSUME row' = row, outcome' = outcome, pc' \in Ended \/ pc \notin Ended
      PROVE  StatusInv'
  BY <1>a DEF StatusInv
\* A row that goes on with a working status is no concern of StatusInv.
<1>b. ASSUME NEW status \in Working, UpdateRunStatus(status) PROVE StatusInv'
  BY <1>b DEF UpdateRunStatus, StatusInv, Working, Terminal, TypeOK, Row
<1>c. ASSUME NEW status \in {"failed", "cancelled", "halted_max_time"},
             UpdateRunStatus(status), pc' \in Ended
      PROVE  StatusInv'
  BY <1>c DEF UpdateRunStatus, StatusInv, TypeOK, Row
<1>d. ASSUME row' = row, row.status \notin Terminal PROVE StatusInv'
  BY <1>d DEF StatusInv, Terminal
<1> USE DEF At, Goto, Branch, Report, MustMove, TryMove, ReportAndReturn, Return,
            Finish, Fixed, control, record
<1>1. CASE CreateRun
  <2>1. CASE row' = [row EXCEPT !.status = "created"]
    BY <2>1 DEF StatusInv, Terminal, TypeOK, Row
  <2>2. CASE row' = row
    BY <2>2, <1>1, <1>a DEF CreateRun
  <2> QED BY <1>1, <2>1, <2>2 DEF CreateRun
<1>2. CASE EmitCreated
  BY <1>2, <1>a DEF EmitCreated
<1>3. CASE BlastRadius
  BY <1>3, <1>a, <1>b DEF BlastRadius, SkipBlastRadius, EnterBlastRadius, BuildGraph,
     EmitBlastRadius, Working
<1>4. CASE Plan
  BY <1>4, <1>a, <1>b DEF Plan, CheckBeforePlanning, EnterPlanning, EmitStarted,
     PlanRequest, PlanAnswered, PlanRefused, PlanResponse, PlanIteration,
     CheckBeforeIterate, Working
<1>5. CASE Loop
  BY <1>5, <1>d DEF Loop, LoopEnds, LoopHaltsOnTime, LoopCancels, LoopIterates, StatusInv
<1>6. CASE UpdateRunCost
  <2>1. row' = row \/ row' = [row EXCEPT !.cost = 1]
    BY <1>6 DEF UpdateRunCost
  <2>2. pc = "update_cost" /\ outcome' = outcome
    BY <1>6 DEF UpdateRunCost
  <2>3. row.status \notin Terminal
    BY <2>2 DEF StatusInv
  <2>4. row'.status = row.status
    BY <2>1 DEF TypeOK, Row
  <2> QED BY <2>3, <2>4 DEF StatusInv, Terminal
<1>7. CASE Iterate /\ ~UpdateRunCost
  BY <1>7, <1>a, <1>b DEF Iterate, EnterIterating, CreateIteration, EmitIteration,
     IterRequest, IterAnswered, IterRefused, IterResponse, CompleteIteration,
     EmitCompleted, Working
<1>8. CASE Tools
  BY <1>8, <1>a DEF Tools, NextTool, NoMoreTools, BadToolInput, Dispatch, ToolResult,
     FileRead, FileWrite, InsertFileChange, ToolDone
<1>9. CASE EnterVerifying
  BY <1>9, <1>a, <1>b DEF EnterVerifying, Working
<1>10. CASE Verify /\ ~EnterVerifying
  BY <1>10, <1>d DEF Verify, NothingToVerify, RunTestCommand, Passed, NotPassed, StatusInv
<1>11. CASE CompleteRun
  <2>1. CASE row' = [status |-> outcome, cost |-> 0, completedAt |-> TRUE,
                     reason |-> outcome]
    BY <2>1, <1>11 DEF CompleteRun, StatusInv
  <2>2. CASE row' = row
    BY <2>2, <1>11, <1>a DEF CompleteRun
  <2> QED BY <1>11, <2>1, <2>2 DEF CompleteRun
<1>12. CASE Fail \/ Cancel \/ HaltTime
  BY <1>12, <1>a, <1>c DEF Fail, Cancel, HaltTime
<1>13. CASE EmitTerminal \/ EmitFailed \/ EmitCancelled
  BY <1>13, <1>a DEF EmitTerminal, EmitFailed, EmitCancelled
<1>14. CASE Crash
  BY <1>14, <1>a DEF Crash
<1>15. CASE Signal \/ Deadline \/ UNCHANGED vars
  BY <1>15 DEF Signal, Deadline, vars, StatusInv
<1> QED
  BY <1>1, <1>2, <1>3, <1>4, <1>5, <1>6, <1>7, <1>8, <1>9, <1>10, <1>11, <1>12,
     <1>13, <1>14, <1>15 DEF Next, Step, Create, Terminate

-----------------------------------------------------------------------------
(* The terminal event closes the log.                                      *)

\* Before the process is gone, the log has no terminal event; one that is
\* appended as Engine.Run returns is its last.
LEMMA LogAppend ==
  ASSUME TypeOK, LogInv, ~Over, NEW type \in EventTypes,
         log' = log \/ log' = Append(log, Event(type)),
         type \notin TerminalEvents \/ Over'
  PROVE  LogInv'
<1> DEFINE e == Event(type)
<1>1. log \in Seq(EventRecord) /\ e.type = type
  BY DEF TypeOK, Event
<1>2. \A i \in DOMAIN log : log[i].type \notin TerminalEvents
  BY DEF LogInv
<1>3. CASE log' = log
  BY <1>2, <1>3 DEF LogInv
<1>4. CASE log' = Append(log, e)
  <2>1. /\ Len(log') = Len(log) + 1 /\ DOMAIN log' = 1..(Len(log) + 1)
        /\ \A i \in DOMAIN log : log'[i] = log[i]
        /\ log'[Len(log) + 1] = e /\ DOMAIN log = 1..Len(log) /\ Len(log) \in Nat
    <3> HIDE DEF e, EventRecord
    <3> QED BY <1>1, <1>4
  <2>2. \A i \in DOMAIN log' : i \in DOMAIN log \/ i = Len(log')
    BY <2>1
  <2>3. log'[Len(log')].type = type
    BY <1>1, <2>1
  <2>4. \A i \in DOMAIN log' : log'[i].type \in TerminalEvents =>
          i = Len(log') /\ type \in TerminalEvents
    BY <1>2, <2>1, <2>2, <2>3
  <2> QED BY <2>4 DEF LogInv
<1> QED BY <1>3, <1>4

LEMMA EmitAppends ==
  ASSUME NEW type, Emit(type) PROVE log' = log \/ log' = Append(log, Event(type))
  BY DEF Emit

LEMMA LogInvStep == TypeOK /\ LogInv /\ [Next]_vars => LogInv'
<1> SUFFICES ASSUME TypeOK, LogInv, [Next]_vars PROVE LogInv'
  OBVIOUS
\* A step that appends nothing, of a process that is still there.
<1>q. ASSUME log' = log, ~Over PROVE LogInv'
  BY <1>q DEF LogInv
<1>r. ASSUME NEW from \in Labels \ {"done", "crashed"}, NEW to,
             NEW type \in EventTypes \ TerminalEvents, Report(from, type, to)
      PROVE  LogInv'
  BY <1>r, EmitAppends, LogAppend DEF Report, At, Over
<1>f. ASSUME NEW from \in Labels \ {"done", "crashed"},
             NEW type \in EventTypes, NEW value, ReportAndReturn(from, type, value)
      PROVE  LogInv'
  BY <1>f, EmitAppends, LogAppend DEF ReportAndReturn, At, Over, Return, Goto
<1> USE DEF Labels, EventTypes, TerminalEvents, At, Branch, MustMove, TryMove
<1>1. CASE Create
  <2>1. CASE CreateRun
    BY <2>1, <1>q DEF CreateRun, Over
  <2>2. CASE EmitCreated
    BY <2>2, LogAppend DEF EmitCreated, Over
  <2> QED BY <1>1, <2>1, <2>2 DEF Create
<1>2. CASE EmitBlastRadius
  BY <1>2, <1>r DEF EmitBlastRadius
<1>3. CASE BlastRadius /\ ~EmitBlastRadius
  BY <1>3, <1>q DEF BlastRadius, SkipBlastRadius, EnterBlastRadius, BuildGraph, Over
<1>4. CASE EmitStarted
  BY <1>4, LogAppend DEF EmitStarted, Over
<1>5. CASE PlanRequest \/ PlanResponse \/ PlanIteration
  BY <1>5, <1>r DEF PlanRequest, PlanResponse, PlanIteration
<1>6. CASE \/ CheckBeforePlanning \/ EnterPlanning \/ PlanAnswered \/ PlanRefused
           \/ CheckBeforeIterate
  BY <1>6, <1>q DEF CheckBeforePlanning, EnterPlanning, PlanAnswered, PlanRefused,
     CheckBeforeIterate, Over
<1>7. CASE Loop
  BY <1>7, <1>q DEF Loop, LoopEnds, LoopHaltsOnTime, LoopCancels, LoopIterates, Over
<1>8. CASE EmitIteration \/ IterRequest \/ IterResponse \/ EmitCompleted
  BY <1>8, <1>r DEF EmitIteration, IterRequest, IterResponse, EmitCompleted
<1>9. CASE \/ EnterIterating \/ CreateIteration \/ IterAnswered \/ IterRefused
           \/ UpdateRunCost \/ CompleteIteration
  BY <1>9, <1>q DEF EnterIterating, CreateIteration, IterAnswered, IterRefused,
     UpdateRunCost, CompleteIteration, Over
<1>10. CASE NextTool \/ FileRead \/ FileWrite
  BY <1>10, <1>r DEF NextTool, FileRead, FileWrite
<1>11. CASE ToolResult
  BY <1>11, <1>r DEF ToolResult
<1>12. CASE NoMoreTools \/ BadToolInput \/ Dispatch \/ InsertFileChange \/ ToolDone
  BY <1>12, <1>q DEF NoMoreTools, BadToolInput, Dispatch, InsertFileChange, ToolDone, Over
<1>13. CASE Verify
  BY <1>13, <1>q DEF Verify, NothingToVerify, EnterVerifying, RunTestCommand, Passed,
     NotPassed, Over
<1>14. CASE EmitTerminal \/ EmitFailed \/ EmitCancelled
  BY <1>14, <1>f DEF EmitTerminal, EmitFailed, EmitCancelled, TerminalEvent
<1>15. CASE CompleteRun \/ Fail \/ Cancel \/ HaltTime
  BY <1>15, <1>q DEF CompleteRun, Fail, Cancel, HaltTime, Over
<1>16. CASE Signal \/ Deadline \/ Crash
  BY <1>16, <1>q DEF Signal, Handled, Deadline, Crash
<1>17. CASE UNCHANGED vars
  BY <1>17 DEF vars, LogInv, Over
<1> QED
  BY <1>1, <1>2, <1>3, <1>4, <1>5, <1>6, <1>7, <1>8, <1>9, <1>10, <1>11, <1>12,
     <1>13, <1>14, <1>15, <1>16, <1>17 DEF Next, Step, Plan, Iterate, Tools, Terminate

-----------------------------------------------------------------------------
(* The theorems.                                                           *)

\* Everything the invariants below follow from holds in every reachable state.
THEOREM Inductive == Spec => []IInv
<1>1. Init => IInv
  <2> SUFFICES ASSUME Init PROVE LoopInv /\ ResultsInv /\ OutcomeInv /\ StatusInv /\ LogInv
    BY InitType DEF IInv
  <2>1. LoopInv
    BY DEF Init, LoopInv, Planning, Opening, InIteration
  <2>2. ResultsInv
    BY DEF Init, ResultsInv, Planning, Opening, InIteration
  <2>3. OutcomeInv /\ StatusInv /\ LogInv
    BY DEF Init, OutcomeInv, StatusInv, LogInv, NoRow, Terminal
  <2> QED BY <2>1, <2>2, <2>3
<1>2. IInv /\ [Next]_vars => IInv'
  BY TypeStep, ControlInvStep, LoopInvStep, ResultsInvStep, OutcomeInvStep,
     StatusInvStep, LogInvStep DEF IInv
<1> QED BY <1>1, <1>2, PTL DEF Spec

\* A run recorded as completed passed every contract in its newest iteration.
THEOREM CompletedVerified == Spec => []CompletedMeansVerified
<1>1. IInv => CompletedMeansVerified
  BY DEF IInv, StatusInv, OutcomeInv, Verified, CompletedMeansVerified
<1> QED BY <1>1, Inductive, PTL

\* A run recorded as halted made all its iterations, each with a failing
\* contract.
THEOREM HaltedExhausted == Spec => []HaltedMeansExhausted
<1>1. IInv => HaltedMeansExhausted
  BY DEF IInv, StatusInv, OutcomeInv, Exhausted, FailedIn, HaltedMeansExhausted
<1> QED BY <1>1, Inductive, PTL

\* A terminal event is the last of its run's log.
THEOREM LogCloses == Spec => []TerminalEventIsLast
<1>1. IInv => TerminalEventIsLast
  BY DEF IInv, LogInv, TerminalEventIsLast
<1> QED BY <1>1, Inductive, PTL

-----------------------------------------------------------------------------
(* The records: what is spent, what file_changes says of the workspace,    *)
(* that the row and the log agree, and that the row behaves as             *)
(* RunLifecycle promises.  Each rests on the loop invariant above and on   *)
(* one of the four parts stated here.                                      *)

\* What has been paid for so far, and which rows may still be running.
Unplanned == {"create_run", "emit_created", "blast", "build", "emit_blast",
  "before_planning", "planning", "emit_started", "plan_request", "plan_llm"}
Unanswered == {"loop", "emit_iteration", "iter_request", "iter_llm"} \cup Opening
Closed == {"emit_completed", "verify", "test"}

SpentInv ==
  /\ pc \in Unplanned => spent = 0
  /\ pc \in Planning => spent <= 1
  /\ pc \in Unanswered => spent <= iter
  /\ pc \in InIteration \cup {"test"} => spent <= iter + 1
  /\ spent <= 1 + Cardinality(DOMAIN iters)

RunningInv ==
  NoLoss =>
    /\ \A n \in DOMAIN iters : iters[n] = "running" => n = iter
    /\ pc \in Closed => \A n \in DOMAIN iters : iters[n] # "running"

\* Where a write may be without its row.
Unrecorded == {"tool_result", "file_write", "insert_change"}

FilesInv ==
  /\ changes \subseteq writes
  /\ \A w \in writes : w[1] \in DOMAIN iters
  /\ pc \in {"file_write", "insert_change"} => tool = "wrote"
  /\ pc \in Unrecorded /\ tool = "wrote" => <<iter, todo>> \in writes
  /\ NoLoss /\ ~Over =>
       \A w \in writes \ changes : w = <<iter, todo>> /\ tool = "wrote" /\ pc \in Unrecorded

\* The status of the row at each statement, and what halting and cancelling
\* know.
StageInv ==
  /\ pc = "create_run" => row.status = "absent"
  /\ pc \in {"emit_created", "blast"} => row.status = "created"
  /\ pc \in {"build", "emit_blast"} => row.status = "blast_radius"
  /\ pc \in {"before_planning", "planning"} => row.status \in {"created", "blast_radius"}
  /\ pc \in {"emit_started", "plan_request", "plan_llm", "plan_response",
             "plan_iteration", "before_iterate"} => row.status = "planning"
  /\ pc \in {"loop", "iterate", "halt_time"} =>
       row.status \in {"planning", "iterating", "verifying"}
  /\ pc \in {"create_iteration"} \cup InIteration => row.status = "iterating"
  /\ pc = "test" => row.status \in {"iterating", "verifying"}
  /\ pc \in {"fail", "cancel", "complete_run"} => row.status \in Working
  /\ pc = "complete_run" /\ outcome = "completed" =>
       row.status \in {"iterating", "verifying"}
  /\ pc = "halt_time" => DOMAIN iters # 1..MaxIterations
  /\ pc \in {"cancel", "emit_cancelled"} => cancelled

\* What the row, the log and the result say once the end is being recorded.
LastIs(type) == Len(log) > 0 /\ log[Len(log)].type = type

AgreeInv ==
  /\ pc = "emit_terminal" => outcome # "none"
  /\ NoLoss =>
       /\ pc = "emit_terminal" => row.status = outcome
       /\ pc = "emit_failed" => row.status = "failed"
       /\ pc = "done" =>
            \/ ret = "nil" /\ row.status = outcome /\ LastIs(TerminalEvent(outcome))
                 /\ outcome # "none"
            \/ ret = "nil" /\ row.status = "halted_max_time"
            \/ ret = "error" /\ row.status = "failed" /\ LastIs("run.failed")

RInv == SpentInv /\ RunningInv /\ FilesInv /\ StageInv /\ AgreeInv

-----------------------------------------------------------------------------
(* What is spent.                                                          *)

LEMMA IntervalSize == ASSUME NEW n \in Nat PROVE Cardinality(1..n) = n
  BY FS_Interval

\* LoopInv says how many rows there are.
LEMMA RowCount ==
  ASSUME TypeOK, LoopInv
  PROVE  /\ Cardinality(DOMAIN iters) \in Nat
         /\ pc \in Planning => Cardinality(DOMAIN iters) = 0
         /\ pc \in {"loop"} \cup Opening => Cardinality(DOMAIN iters) = iter - 1
         /\ pc \in InIteration \cup {"test"} => Cardinality(DOMAIN iters) = iter
<1>1. iter \in Nat
  BY DEF TypeOK
<1>2. Cardinality(1..iter) = iter
  BY <1>1, IntervalSize
<1>3. iter >= 1 => Cardinality(1..(iter - 1)) = iter - 1
  BY <1>1, IntervalSize
<1>4. iter = 0 => 1..(iter - 1) = {} /\ 1..iter = {}
  BY <1>1
<1>5. Cardinality(DOMAIN iters) \in Nat
  <2>1. CASE iter = 0
    BY <2>1, <1>4, FS_EmptySet DEF LoopInv
  <2>2. CASE iter >= 1
    BY <2>2, <1>1, <1>2, <1>3 DEF LoopInv
  <2> QED BY <2>1, <2>2, <1>1
<1>6. pc \in Planning => Cardinality(DOMAIN iters) = 0
  BY <1>4, FS_EmptySet DEF LoopInv
<1>7. pc \in {"loop"} \cup Opening => Cardinality(DOMAIN iters) = iter - 1
  BY <1>3 DEF LoopInv
<1>8. pc \in InIteration \cup {"test"} => Cardinality(DOMAIN iters) = iter
  BY <1>2 DEF LoopInv
<1> QED BY <1>5, <1>6, <1>7, <1>8

LEMMA SpentInvStep ==
  TypeOK /\ LoopInv /\ LoopInv' /\ TypeOK' /\ SpentInv /\ [Next]_vars => SpentInv'
<1> SUFFICES ASSUME TypeOK, LoopInv, LoopInv', TypeOK', SpentInv, [Next]_vars
             PROVE  SpentInv'
  OBVIOUS
<1> DEFINE card == Cardinality(DOMAIN iters)
<1>t. iter \in Nat /\ spent \in Nat /\ iter' \in Nat /\ spent' \in Nat /\ card \in Nat
  BY RowCount DEF TypeOK
<1>c. /\ pc \in Planning => card = 0
      /\ pc \in {"loop"} \cup Opening => card = iter - 1
      /\ pc \in InIteration \cup {"test"} => card = iter
  BY RowCount
<1>d. DOMAIN iters' = DOMAIN iters => card' = card
  OBVIOUS
<1> HIDE DEF card
<1>s. SpentInv <=> /\ pc \in Unplanned => spent = 0
                   /\ pc \in Planning => spent <= 1
                   /\ pc \in Unanswered => spent <= iter
                   /\ pc \in InIteration \cup {"test"} => spent <= iter + 1
                   /\ spent <= 1 + card
  BY DEF SpentInv, card
<1>s1. SpentInv' <=> /\ pc' \in Unplanned => spent' = 0
                     /\ pc' \in Planning => spent' <= 1
                     /\ pc' \in Unanswered => spent' <= iter'
                     /\ pc' \in InIteration \cup {"test"} => spent' <= iter' + 1
                     /\ spent' <= 1 + card'
  BY DEF SpentInv, card
<1> USE <1>t, <1>c, <1>d, <1>s, <1>s1
    DEF Unplanned, Unanswered, Planning, Opening, InIteration, At, Goto, Branch,
        Report, MustMove, TryMove, ReportAndReturn, Return, Finish, Fixed, record
<1>1. CASE Create
  BY <1>1 DEF Create, CreateRun, EmitCreated
<1>2. CASE BlastRadius
  BY <1>2 DEF BlastRadius, SkipBlastRadius, EnterBlastRadius, BuildGraph, EmitBlastRadius
<1>3. CASE Plan
  <2>1. CASE CheckBeforeIterate
    <3>1. /\ pc = "before_iterate" /\ iters' = iters /\ spent' = spent
          /\ pc' = "cancel" \/ (pc' = "loop" /\ iter' = 1)
      BY <2>1 DEF CheckBeforeIterate
    <3>2. spent' <= 1 /\ card' = card
      BY <3>1
    <3> QED BY <3>1, <3>2
  <2>2. CASE CheckBeforePlanning \/ PlanAnswered
    <3>1. /\ iters' = iters /\ iter' = iter
          /\ \/ pc = "plan_llm" /\ pc' = "plan_response" /\ spent' = spent + 1
             \/ pc = "before_planning" /\ pc' \in {"cancel", "planning"} /\ spent' = spent
      BY <2>2 DEF CheckBeforePlanning, PlanAnswered
    <3> QED BY <3>1
  <2>3. CASE EnterPlanning \/ EmitStarted \/ PlanRequest \/ PlanRefused
               \/ PlanResponse \/ PlanIteration
    BY <2>3 DEF EnterPlanning, EmitStarted, PlanRequest, PlanRefused, PlanResponse,
       PlanIteration
  <2> QED BY <1>3, <2>1, <2>2, <2>3 DEF Plan
<1>4. CASE Loop
  BY <1>4 DEF Loop, LoopEnds, LoopHaltsOnTime, LoopCancels, LoopIterates
<1>5. CASE CreateIteration
  <2>1. pc = "create_iteration" /\ iter' = iter /\ spent' = spent
    BY <1>5 DEF CreateIteration
  <2>2. CASE pc' = "fail" /\ iters' = iters
    BY <2>1, <2>2
  <2>3. CASE pc' = "emit_iteration"
    <3>1. DOMAIN iters' = 1..iter'
      BY <2>3 DEF LoopInv
    <3>2. card' = iter'
      BY <3>1, IntervalSize DEF card
    <3> QED BY <2>1, <2>3, <3>2
  <2> QED BY <1>5, <2>2, <2>3 DEF CreateIteration
<1>6. CASE Iterate /\ ~CreateIteration
  BY <1>6 DEF Iterate, EnterIterating, EmitIteration, IterRequest,
     IterAnswered, IterRefused, IterResponse, UpdateRunCost, CompleteIteration,
     EmitCompleted
<1>7. CASE Tools
  BY <1>7 DEF Tools, NextTool, NoMoreTools, BadToolInput, Dispatch, ToolResult,
     FileRead, FileWrite, InsertFileChange, ToolDone
<1>8. CASE Verify
  BY <1>8 DEF Verify, NothingToVerify, EnterVerifying, RunTestCommand, Passed, NotPassed
<1>9. CASE Terminate
  BY <1>9 DEF Terminate, CompleteRun, EmitTerminal, Fail, EmitFailed, Cancel,
     EmitCancelled, HaltTime
<1>10. CASE Signal \/ Deadline \/ Crash
  BY <1>10 DEF Signal, Deadline, Crash
<1>11. CASE UNCHANGED vars
  BY <1>11 DEF vars
<1> QED
  BY <1>1, <1>2, <1>3, <1>4, <1>5, <1>6, <1>7, <1>8, <1>9, <1>10, <1>11
     DEF Next, Step

-----------------------------------------------------------------------------
(* Which rows are still running.                                           *)

\* A write that was lost stays lost.
LEMMA LossStays == TypeOK /\ [Next]_vars /\ NoLoss' => NoLoss
<1> SUFFICES ASSUME TypeOK, [Next]_vars, NoLoss' PROVE NoLoss
  OBVIOUS
<1>1. faults \in Nat /\ cancelled \in BOOLEAN
  BY AgentRunAssumption DEF TypeOK
<1>2. cancelled' = cancelled \/ cancelled' = TRUE
  BY DEF Next, Step, Signal, Deadline, Crash, vars, Fixed, Create, CreateRun, EmitCreated,
     BlastRadius, SkipBlastRadius, EnterBlastRadius, BuildGraph, EmitBlastRadius, Plan,
     CheckBeforePlanning, EnterPlanning, EmitStarted, PlanRequest, PlanAnswered, PlanRefused,
     PlanResponse, PlanIteration, CheckBeforeIterate, Loop, LoopEnds, LoopHaltsOnTime,
     LoopCancels, LoopIterates, Iterate, EnterIterating, CreateIteration, EmitIteration,
     IterRequest, IterAnswered, IterRefused, IterResponse, UpdateRunCost, CompleteIteration,
     EmitCompleted, Tools, NextTool, NoMoreTools, BadToolInput, Dispatch, ToolResult, FileRead,
     FileWrite, InsertFileChange, ToolDone, Verify, NothingToVerify, EnterVerifying,
     RunTestCommand, Passed, NotPassed, Terminate, CompleteRun, EmitTerminal, Fail, EmitFailed,
     Cancel, EmitCancelled, HaltTime, Branch, Report, MustMove, TryMove, ReportAndReturn
<1>3. faults' = faults \/ faults' = faults + 1
  BY DEF Next, Step, Signal, Deadline, Crash, vars, Create, CreateRun, EmitCreated,
     BlastRadius, SkipBlastRadius, EnterBlastRadius, BuildGraph, EmitBlastRadius, Plan,
     CheckBeforePlanning, EnterPlanning, EmitStarted, PlanRequest, PlanAnswered, PlanRefused,
     PlanResponse, PlanIteration, CheckBeforeIterate, Loop, LoopEnds, LoopHaltsOnTime,
     LoopCancels, LoopIterates, Iterate, EnterIterating, CreateIteration, EmitIteration,
     IterRequest, IterAnswered, IterRefused, IterResponse, UpdateRunCost, CompleteIteration,
     EmitCompleted, Tools, NextTool, NoMoreTools, BadToolInput, Dispatch, ToolResult, FileRead,
     FileWrite, InsertFileChange, ToolDone, Verify, NothingToVerify, EnterVerifying,
     RunTestCommand, Passed, NotPassed, Terminate, CompleteRun, EmitTerminal, Fail, EmitFailed,
     Cancel, EmitCancelled, HaltTime, Branch, Report, MustMove, TryMove, ReportAndReturn,
     Persists, Refused, Emit, UpdateRunStatus
<1> QED BY <1>1, <1>2, <1>3 DEF NoLoss

LEMMA RunningInvStep ==
  TypeOK /\ LoopInv /\ RunningInv /\ [Next]_vars => RunningInv'
<1> SUFFICES ASSUME TypeOK, LoopInv, RunningInv, [Next]_vars, NoLoss'
             PROVE  /\ \A n \in DOMAIN iters' : iters'[n] = "running" => n = iter'
                    /\ pc' \in Closed => \A n \in DOMAIN iters' : iters'[n] # "running"
  BY DEF RunningInv
<1>t. NoLoss /\ iter \in Nat /\ iters \in [DOMAIN iters -> {"running", "completed"}]
  BY LossStays DEF TypeOK
<1>r. /\ \A n \in DOMAIN iters : iters[n] = "running" => n = iter
      /\ pc \in Closed => \A n \in DOMAIN iters : iters[n] # "running"
  BY <1>t DEF RunningInv
\* The rows and the number of the iteration stay, and it is not closed here.
<1>q. ASSUME iters' = iters, iter' = iter, pc' \in Closed => pc \in Closed
      PROVE  /\ \A n \in DOMAIN iters' : iters'[n] = "running" => n = iter'
             /\ pc' \in Closed => \A n \in DOMAIN iters' : iters'[n] # "running"
  BY <1>q, <1>r
<1> USE DEF Closed, At, Goto, Branch, Report, MustMove, TryMove, ReportAndReturn,
            Return, Finish, Fixed, record
<1>1. CASE Create
  BY <1>1, <1>q DEF Create, CreateRun, EmitCreated
<1>2. CASE BlastRadius
  BY <1>2, <1>q DEF BlastRadius, SkipBlastRadius, EnterBlastRadius, BuildGraph,
     EmitBlastRadius
<1>3. CASE CheckBeforeIterate
  <2>1. pc = "before_iterate" /\ iters' = iters /\ pc' \in {"cancel", "loop"}
    BY <1>3 DEF CheckBeforeIterate
  <2>2. DOMAIN iters = {}
    BY <2>1, <1>t DEF LoopInv, Planning
  <2> QED BY <2>1, <2>2
<1>4. CASE Plan /\ ~CheckBeforeIterate
  BY <1>4, <1>q DEF Plan, CheckBeforePlanning, EnterPlanning, EmitStarted, PlanRequest,
     PlanAnswered, PlanRefused, PlanResponse, PlanIteration
<1>5. CASE Loop
  BY <1>5, <1>q DEF Loop, LoopEnds, LoopHaltsOnTime, LoopCancels, LoopIterates
<1>6. CASE CreateIteration
  <2>1. pc = "create_iteration" /\ iter' = iter /\ pc' \in {"emit_iteration", "fail"}
    BY <1>6 DEF CreateIteration
  <2>2. CASE iters' = iters
    BY <2>1, <2>2, <1>q
  <2>3. CASE iters' = [n \in DOMAIN iters \cup {iter} |->
                        IF n = iter THEN "running" ELSE iters[n]]
    BY <2>1, <2>3, <1>r
  <2> QED BY <1>6, <2>2, <2>3 DEF CreateIteration
<1>7. CASE CompleteIteration
  <2>1. iter' = iter /\ iters' = [iters EXCEPT ![iter] = "completed"]
    BY <1>7, <1>t, AgentRunAssumption
       DEF CompleteIteration, Refused, NoLoss, TypeOK
  <2>2. \A n \in DOMAIN iters' : iters'[n] # "running"
    BY <2>1, <1>r, <1>t
  <2> QED BY <2>2
<1>8. CASE Iterate /\ ~CreateIteration /\ ~CompleteIteration
  BY <1>8, <1>q DEF Iterate, EnterIterating, EmitIteration, IterRequest, IterAnswered,
     IterRefused, IterResponse, UpdateRunCost, EmitCompleted
<1>9. CASE Tools
  BY <1>9, <1>q DEF Tools, NextTool, NoMoreTools, BadToolInput, Dispatch, ToolResult,
     FileRead, FileWrite, InsertFileChange, ToolDone
<1>10. CASE NotPassed
  BY <1>10, <1>r DEF NotPassed
<1>11. CASE Verify /\ ~NotPassed
  BY <1>11, <1>q DEF Verify, NothingToVerify, EnterVerifying, RunTestCommand, Passed
<1>12. CASE Terminate
  BY <1>12, <1>q DEF Terminate, CompleteRun, EmitTerminal, Fail, EmitFailed, Cancel,
     EmitCancelled, HaltTime
<1>13. CASE Signal \/ Deadline \/ Crash
  BY <1>13, <1>q DEF Signal, Deadline, Crash
<1>14. CASE UNCHANGED vars
  BY <1>14, <1>q DEF vars
<1> QED
  BY <1>1, <1>2, <1>3, <1>4, <1>5, <1>6, <1>7, <1>8, <1>9, <1>10, <1>11, <1>12,
     <1>13, <1>14 DEF Next, Step

-----------------------------------------------------------------------------
(* file_changes and the workspace.                                         *)

\* A refused write is a loss.
LEMMA RefusedIsLoss == TypeOK /\ Refused /\ UNCHANGED cancelled => ~NoLoss'
  BY AgentRunAssumption DEF TypeOK, Refused, NoLoss

\* No row of an iteration is ever removed.
LEMMA RowsStay == TypeOK /\ [Next]_vars => DOMAIN iters \subseteq DOMAIN iters'
<1> SUFFICES ASSUME TypeOK, [Next]_vars PROVE DOMAIN iters \subseteq DOMAIN iters'
  OBVIOUS
<1>1. CASE CreateIteration
  BY <1>1 DEF CreateIteration
<1>2. CASE CompleteIteration
  BY <1>2 DEF CompleteIteration, TypeOK
<1>3. ASSUME ~CreateIteration, ~CompleteIteration PROVE iters' = iters
  BY <1>3 DEF Next, Step, Signal, Deadline, Crash, vars, record, Create, CreateRun,
     EmitCreated, BlastRadius, SkipBlastRadius, EnterBlastRadius, BuildGraph,
     EmitBlastRadius, Plan, CheckBeforePlanning, EnterPlanning, EmitStarted, PlanRequest,
     PlanAnswered, PlanRefused, PlanResponse, PlanIteration, CheckBeforeIterate, Loop,
     LoopEnds, LoopHaltsOnTime, LoopCancels, LoopIterates, Iterate, EnterIterating,
     EmitIteration, IterRequest, IterAnswered, IterRefused, IterResponse, UpdateRunCost,
     EmitCompleted, Tools, NextTool, NoMoreTools, BadToolInput, Dispatch, ToolResult,
     FileRead, FileWrite, InsertFileChange, ToolDone, Verify, NothingToVerify,
     EnterVerifying, RunTestCommand, Passed, NotPassed, Terminate, CompleteRun,
     EmitTerminal, Fail, EmitFailed, Cancel, EmitCancelled, HaltTime, Branch, Report,
     MustMove, TryMove, ReportAndReturn
<1> QED BY <1>1, <1>2, <1>3

LEMMA FilesInvStep ==
  TypeOK /\ ControlInv /\ LoopInv /\ FilesInv /\ [Next]_vars => FilesInv'
<1> SUFFICES ASSUME TypeOK, ControlInv, LoopInv, FilesInv, [Next]_vars PROVE FilesInv'
  OBVIOUS
<1>l. NoLoss' => NoLoss
  BY LossStays
<1>r. DOMAIN iters \subseteq DOMAIN iters'
  BY RowsStay
\* A step elsewhere in the loop leaves both sets alone, and a write without its
\* row is not there.
<1>q. ASSUME UNCHANGED <<writes, changes>>, pc \notin Unrecorded, pc' \notin Unrecorded,
             Over => Over'
      PROVE  FilesInv'
  BY <1>q, <1>l, <1>r DEF FilesInv, Unrecorded
<1> USE DEF Unrecorded, Over, At, Goto, Branch, Report, MustMove, TryMove,
            ReportAndReturn, Return, Finish, Fixed, control, files, record
<1>1. CASE Create
  BY <1>1, <1>q DEF Create, CreateRun, EmitCreated
<1>2. CASE BlastRadius
  BY <1>2, <1>q DEF BlastRadius, SkipBlastRadius, EnterBlastRadius, BuildGraph,
     EmitBlastRadius
<1>3. CASE Plan
  BY <1>3, <1>q DEF Plan, CheckBeforePlanning, EnterPlanning, EmitStarted, PlanRequest,
     PlanAnswered, PlanRefused, PlanResponse, PlanIteration, CheckBeforeIterate
<1>4. CASE Loop
  BY <1>4, <1>q DEF Loop, LoopEnds, LoopHaltsOnTime, LoopCancels, LoopIterates
<1>5. CASE Iterate
  BY <1>5, <1>q DEF Iterate, EnterIterating, CreateIteration, EmitIteration,
     IterRequest, IterAnswered, IterRefused, IterResponse, UpdateRunCost,
     CompleteIteration, EmitCompleted
<1>6. CASE NextTool \/ NoMoreTools \/ BadToolInput \/ FileRead \/ ToolDone
  BY <1>6, <1>q DEF NextTool, NoMoreTools, BadToolInput, FileRead, ToolDone
<1>7. CASE Dispatch
  <2>1. /\ pc = "dispatch" /\ pc' = "tool_result" /\ iter' = iter /\ todo' = todo
        /\ changes' = changes /\ iters' = iters
        /\ writes' = IF tool' = "wrote" THEN writes \cup {<<iter, todo>>} ELSE writes
    BY <1>7 DEF Dispatch
  <2>2. iter \in DOMAIN iters
    BY <2>1 DEF LoopInv, InIteration, TypeOK
  <2>3. \A w \in writes' : w[1] \in DOMAIN iters'
    BY <2>1, <2>2 DEF FilesInv
  <2>4. NoLoss' => \A w \in writes \ changes : FALSE
    BY <2>1, <1>l DEF FilesInv
  <2>5. NoLoss' => \A w \in writes' \ changes' : w = <<iter', todo'>> /\ tool' = "wrote"
    BY <2>1, <2>4
  <2> QED BY <2>1, <2>3, <2>5 DEF FilesInv
<1>8. CASE ToolResult
  <2>1. /\ pc = "tool_result" /\ UNCHANGED <<iter, todo, tool, writes, changes, iters>>
        /\ tool = "wrote" <=> pc' = "file_write"
        /\ pc' \in {"file_write", "file_read", "tool_done"}
    BY <1>8 DEF ToolResult
  <2> QED BY <2>1, <1>l DEF FilesInv
<1>9. CASE FileWrite
  BY <1>9, <1>l, <1>r DEF FileWrite, FilesInv
<1>10. CASE InsertFileChange
  <2>1. /\ pc = "insert_change" /\ pc' = "tool_done" /\ cancelled' = cancelled
        /\ UNCHANGED <<iter, todo, tool, writes, iters>>
    BY <1>10 DEF InsertFileChange
  <2>2. <<iter, todo>> \in writes
    BY <2>1 DEF FilesInv
  <2>3. CASE changes' = changes \cup {<<iter, todo>>}
    <3>1. NoLoss' => writes' \ changes' = {}
      BY <2>1, <2>3, <1>l DEF FilesInv
    <3> QED BY <2>1, <2>2, <2>3, <3>1 DEF FilesInv
  <2>4. CASE Refused /\ changes' = changes
    <3>1. ~NoLoss'
      BY <2>1, <2>4, RefusedIsLoss
    <3> QED BY <2>1, <2>4, <3>1 DEF FilesInv
  <2> QED BY <1>10, <2>3, <2>4 DEF InsertFileChange
<1>11. CASE Verify
  BY <1>11, <1>q DEF Verify, NothingToVerify, EnterVerifying, RunTestCommand, Passed,
     NotPassed
<1>12. CASE Terminate
  BY <1>12, <1>q DEF Terminate, CompleteRun, EmitTerminal, Fail, EmitFailed, Cancel,
     EmitCancelled, HaltTime
<1>13. CASE Signal \/ Deadline \/ UNCHANGED vars
  BY <1>13, <1>l DEF Signal, Deadline, vars, FilesInv
<1>14. CASE Crash
  BY <1>14 DEF Crash, FilesInv
<1> QED
  BY <1>1, <1>2, <1>3, <1>4, <1>5, <1>6, <1>7, <1>8, <1>9, <1>10, <1>11, <1>12,
     <1>13, <1>14 DEF Next, Step, Tools

-----------------------------------------------------------------------------
(* The status at each statement.                                           *)

LEMMA StageInvStep ==
  TypeOK /\ LoopInv /\ StageInv /\ [Next]_vars => StageInv'
<1> SUFFICES ASSUME TypeOK, LoopInv, StageInv, [Next]_vars PROVE StageInv'
  OBVIOUS
<1>t. /\ iter \in Nat /\ MaxIterations \in Int /\ row \in Row /\ cancelled \in BOOLEAN
      /\ spec' = spec => MaxIterations' = MaxIterations
  BY AgentRunAssumption DEF TypeOK, MaxIterations, SpecFile
\* UpdateRunStatus sets the status and nothing else of the row.
<1>u. ASSUME NEW status, UpdateRunStatus(status) PROVE row'.status = status
  BY <1>u, <1>t DEF UpdateRunStatus, Row
<1> USE <1>t, <1>u DEF StageInv, InIteration, Working, At, Goto, Branch, Report, MustMove,
            TryMove, ReportAndReturn, Return, Finish, Fixed, record, control
<1>1. CASE CreateRun
  <2>1. \/ pc' = "emit_created" /\ row' = [row EXCEPT !.status = "created"]
        \/ pc' = "done"
    BY <1>1 DEF CreateRun
  <2>2. row' = [row EXCEPT !.status = "created"] => row'.status = "created"
    BY DEF Row
  <2> QED BY <2>1, <2>2
<1>2. CASE EmitCreated
  BY <1>2 DEF EmitCreated
<1>3. CASE BlastRadius
  BY <1>3 DEF BlastRadius, SkipBlastRadius, EnterBlastRadius, BuildGraph, EmitBlastRadius
<1>4. CASE CheckBeforePlanning \/ CheckBeforeIterate
  <2>1. /\ row' = row
        /\ \/ pc = "before_planning" /\ pc' = "planning"
           \/ pc = "before_iterate" /\ pc' = "loop"
           \/ /\ pc \in {"before_planning", "before_iterate"} /\ pc' = "cancel"
              /\ cancelled'
    BY <1>4 DEF CheckBeforePlanning, CheckBeforeIterate
  <2> QED BY <2>1
<1>5. CASE EnterPlanning
  BY <1>5 DEF EnterPlanning
<1>6. CASE \/ EmitStarted \/ PlanRequest \/ PlanAnswered \/ PlanRefused \/ PlanResponse
           \/ PlanIteration
  BY <1>6 DEF EmitStarted, PlanRequest, PlanAnswered, PlanRefused, PlanResponse,
     PlanIteration
<1>7. CASE LoopHaltsOnTime
  <2>1. /\ pc = "loop" /\ pc' = "halt_time" /\ iter <= MaxIterations
        /\ UNCHANGED <<row, iters, spec>>
    BY <1>7 DEF LoopHaltsOnTime, InBudget
  <2>2. DOMAIN iters = 1..(iter - 1) /\ iter >= 1
    BY <2>1 DEF LoopInv
  <2>3. iter \in 1..MaxIterations /\ iter \notin 1..(iter - 1)
    BY <2>1, <2>2
  <2>4. DOMAIN iters # 1..MaxIterations
    BY <2>2, <2>3
  <2> QED BY <2>1, <2>4
<1>8. CASE LoopEnds
  <2>1. pc = "loop" /\ pc' = "complete_run" /\ outcome' = "halted_max_iters" /\ row' = row
    BY <1>8 DEF LoopEnds
  <2> QED BY <2>1
<1>9. CASE LoopCancels \/ LoopIterates
  BY <1>9 DEF LoopCancels, LoopIterates
<1>10. CASE EnterIterating
  BY <1>10 DEF EnterIterating
<1>11. CASE UpdateRunCost
  <2>1. pc = "update_cost" /\ pc' = "tools"
        /\ (row' = [row EXCEPT !.cost = 1] \/ row' = row)
    BY <1>11 DEF UpdateRunCost
  <2>2. row'.status = row.status
    BY <2>1 DEF Row
  <2> QED BY <2>1, <2>2
<1>12. CASE \/ CreateIteration \/ EmitIteration \/ IterRequest \/ IterAnswered
            \/ IterRefused \/ IterResponse \/ CompleteIteration \/ EmitCompleted
  BY <1>12 DEF CreateIteration, EmitIteration, IterRequest, IterAnswered, IterRefused,
     IterResponse, CompleteIteration, EmitCompleted
<1>13. CASE ToolResult
  <2>1. pc = "tool_result" /\ row' = row /\ pc' \in {"file_write", "file_read", "tool_done"}
    BY <1>13 DEF ToolResult
  <2> QED BY <2>1
<1>14. CASE Tools /\ ~ToolResult
  BY <1>14 DEF Tools, NextTool, NoMoreTools, BadToolInput, Dispatch, FileRead, FileWrite,
     InsertFileChange, ToolDone
<1>15. CASE EnterVerifying
  <2>1. pc = "verify" /\ pc' = "test" /\ (row'.status = "verifying" \/ row' = row)
    BY <1>15 DEF EnterVerifying
  <2> QED BY <2>1
<1>16. CASE Verify /\ ~EnterVerifying
  BY <1>16 DEF Verify, NothingToVerify, RunTestCommand, Passed, NotPassed
<1>17. CASE Terminate
  BY <1>17 DEF Terminate, CompleteRun, EmitTerminal, Fail, EmitFailed, Cancel,
     EmitCancelled, HaltTime
<1>18. CASE Signal
  BY <1>18 DEF Signal
<1>19. CASE Deadline \/ Crash \/ UNCHANGED vars
  BY <1>19 DEF Deadline, Crash, vars
<1> QED
  BY <1>1, <1>2, <1>3, <1>4, <1>5, <1>6, <1>7, <1>8, <1>9, <1>10, <1>11, <1>12, <1>13,
     <1>14, <1>15, <1>16, <1>17, <1>18, <1>19 DEF Next, Step, Create, Plan, Loop, Iterate,
     Verify

-----------------------------------------------------------------------------
(* The row, the log and the result at the end.                             *)

LEMMA AppendLast ==
  ASSUME TypeOK, NEW type \in EventTypes, log' = Append(log, Event(type))
  PROVE  Len(log') > 0 /\ log'[Len(log')].type = type
<1> DEFINE e == Event(type)
<1>1. e.type = type /\ log \in Seq(EventRecord) /\ log' = Append(log, e)
  BY DEF Event, TypeOK
<1>2. Len(log') = Len(log) + 1 /\ log'[Len(log) + 1] = e /\ Len(log) \in Nat
  <2> HIDE DEF e, EventRecord
  <2> QED BY <1>1
<1> QED BY <1>1, <1>2

LEMMA AgreeInvStep ==
  TypeOK /\ ControlInv /\ StageInv /\ AgreeInv /\ [Next]_vars => AgreeInv'
<1> SUFFICES ASSUME TypeOK, ControlInv, StageInv, AgreeInv, [Next]_vars PROVE AgreeInv'
  OBVIOUS
<1> DEFINE Ending == {"emit_terminal", "emit_failed", "done"}
<1>l. NoLoss' => NoLoss
  BY LossStays
\* Nothing is claimed elsewhere.
<1>q. pc' \notin Ending => AgreeInv'
  BY DEF AgreeInv
<1>r. Refused /\ UNCHANGED cancelled => ~NoLoss'
  BY RefusedIsLoss
<1> USE DEF At, Goto, Branch, Report, MustMove, TryMove, ReportAndReturn, Return, Finish,
            Fixed, control
<1>1. CASE Create
  <2>1. pc' # "done" \/ ~NoLoss'
    BY <1>1, <1>r DEF Create, CreateRun, EmitCreated
  <2>2. pc' \in {"done", "emit_created", "blast"}
    BY <1>1 DEF Create, CreateRun, EmitCreated
  <2> QED BY <2>1, <2>2 DEF AgreeInv
<1>2. CASE CompleteRun
  <2>1. /\ pc = "complete_run" /\ pc' = "emit_terminal" /\ outcome' = outcome
        /\ outcome # "none"
    BY <1>2 DEF CompleteRun, ControlInv
  <2>2. NoLoss' => row'.status = outcome
    BY <1>2, <1>r DEF CompleteRun
  <2> QED BY <2>1, <2>2 DEF AgreeInv
<1>3. CASE EmitTerminal
  <2>1. /\ pc = "emit_terminal" /\ pc' = "done" /\ ret' = "nil"
        /\ UNCHANGED <<outcome, row>> /\ cancelled' = cancelled
    BY <1>3 DEF EmitTerminal, record
  <2>2. NoLoss' => LastIs(TerminalEvent(outcome))'
    <3>1. TerminalEvent(outcome) \in EventTypes
      BY DEF TerminalEvent, EventTypes, TerminalEvents
    <3>2. NoLoss' => log' = Append(log, Event(TerminalEvent(outcome)))
      BY <1>3, <1>r, <2>1 DEF EmitTerminal, Emit
    <3>3. TerminalEvent(outcome)' = TerminalEvent(outcome)
      BY <2>1 DEF TerminalEvent
    <3> DEFINE type == TerminalEvent(outcome)
    <3>4. ASSUME NoLoss' PROVE Len(log') > 0 /\ log'[Len(log')].type = type
      <4> HIDE DEF type
      <4> QED BY <3>1, <3>2, <3>4, AppendLast DEF type
    <3> QED BY <3>3, <3>4 DEF LastIs
  <2> QED BY <2>1, <2>2, <1>l DEF AgreeInv
<1>4. CASE Fail
  <2>1. pc = "fail" /\ pc' = "emit_failed" /\ cancelled' = cancelled
    BY <1>4 DEF Fail
  <2>2. NoLoss' => row'.status = "failed"
    BY <1>4, <1>r, <2>1 DEF Fail, UpdateRunStatus, TypeOK, Row
  <2> QED BY <2>1, <2>2 DEF AgreeInv
<1>5. CASE EmitFailed
  <2>1. /\ pc = "emit_failed" /\ pc' = "done" /\ ret' = "error" /\ row' = row
        /\ cancelled' = cancelled
    BY <1>5 DEF EmitFailed, record
  <2>2. NoLoss' => LastIs("run.failed")'
    <3>1. NoLoss' => log' = Append(log, Event("run.failed"))
      BY <1>5, <1>r, <2>1 DEF EmitFailed, Emit
    <3> QED BY <3>1, AppendLast DEF LastIs, EventTypes, TerminalEvents
  <2> QED BY <2>1, <2>2, <1>l DEF AgreeInv
<1>6. CASE Cancel \/ EmitCancelled
  <2>1. cancelled /\ cancelled' = cancelled
    BY <1>6 DEF Cancel, EmitCancelled, StageInv
  <2>2. ~NoLoss' /\ pc' # "emit_terminal"
    BY <1>6, <2>1 DEF NoLoss, Cancel, EmitCancelled
  <2> QED BY <2>2 DEF AgreeInv
<1>7. CASE HaltTime
  <2>1. pc' = "done" /\ ret' = "nil" /\ cancelled' = cancelled
    BY <1>7 DEF HaltTime
  <2>2. NoLoss' => row'.status = "halted_max_time"
    BY <1>7, <1>r, <2>1 DEF HaltTime, UpdateRunStatus, TypeOK, Row
  <2> QED BY <2>1, <2>2 DEF AgreeInv
<1>8. CASE BlastRadius \/ Loop \/ Verify
  BY <1>8, <1>q DEF BlastRadius, SkipBlastRadius, EnterBlastRadius, BuildGraph,
     EmitBlastRadius, Loop, LoopEnds, LoopHaltsOnTime, LoopCancels, LoopIterates, Verify,
     NothingToVerify, EnterVerifying, RunTestCommand, Passed, NotPassed
<1>9. CASE Plan
  BY <1>9, <1>q DEF Plan, CheckBeforePlanning, EnterPlanning, EmitStarted, PlanRequest,
     PlanAnswered, PlanRefused, PlanResponse, PlanIteration, CheckBeforeIterate
<1>10. CASE Iterate
  BY <1>10, <1>q DEF Iterate, EnterIterating, CreateIteration, EmitIteration, IterRequest,
     IterAnswered, IterRefused, IterResponse, UpdateRunCost, CompleteIteration,
     EmitCompleted
<1>11. CASE Tools
  BY <1>11, <1>q DEF Tools, NextTool, NoMoreTools, BadToolInput, Dispatch, ToolResult,
     FileRead, FileWrite, InsertFileChange, ToolDone
<1>12. CASE Signal \/ Deadline \/ UNCHANGED vars
  BY <1>12, <1>l DEF Signal, Deadline, vars, record, AgreeInv, LastIs, TerminalEvent
<1>13. CASE Crash
  BY <1>13, <1>q DEF Crash
<1> QED
  BY <1>1, <1>2, <1>3, <1>4, <1>5, <1>6, <1>7, <1>8, <1>9, <1>10, <1>11, <1>12, <1>13
     DEF Next, Step, Terminate

-----------------------------------------------------------------------------
(* The refinement.                                                         *)

\* A step that a reader of the database does not see, the end of the process,
\* and the steps of RunLifecycle, each from what it looks like in AgentRun.
LEMMA Unseen ==
  ASSUME UNCHANGED <<row, spec>>, DOMAIN iters' = DOMAIN iters, Over' = Over
  PROVE  UNCHANGED Lifecycle!lifecycle
  BY DEF Lifecycle!lifecycle, MaxIterations

LEMMA Ends ==
  ASSUME UNCHANGED <<row, spec, iters>>, ~Over, Over'
  PROVE  Lifecycle!Next
<1>1. MaxIterations' = MaxIterations
  BY DEF MaxIterations
<1>2. Over' = TRUE
  BY DEF Over
<1> QED BY <1>1, <1>2 DEF Lifecycle!Next, Lifecycle!Leave

\* UpdateRunStatus under the names of RunLifecycle.
LEMMA StatusMoves ==
  ASSUME TypeOK, NEW status, UpdateRunStatus(status), UNCHANGED <<spec, iters>>
  PROVE  row'.status = status /\ MaxIterations' = MaxIterations /\ DOMAIN iters' = DOMAIN iters
  BY DEF TypeOK, UpdateRunStatus, Row, MaxIterations

LEMMA StepImplements ==
  IInv /\ StageInv /\ [Next]_vars => [Lifecycle!Next]_(Lifecycle!lifecycle)
<1> SUFFICES ASSUME IInv, StageInv, [Next]_vars
             PROVE  Lifecycle!Next \/ UNCHANGED Lifecycle!lifecycle
  OBVIOUS
<1>t. TypeOK /\ LoopInv /\ OutcomeInv /\ ControlInv
  BY DEF IInv
<1>n. iter \in Nat /\ MaxIterations \in Int
  BY <1>t, AgentRunAssumption DEF TypeOK, MaxIterations, SpecFile
<1>o. \A l : pc = l /\ l \notin {"done", "crashed"} => ~Over
  BY DEF Over
\* A step of AgentRun within the run whose row stays.
<1>q. ASSUME UNCHANGED <<row, spec, iters>>, ~Over, ~Over' PROVE UNCHANGED Lifecycle!lifecycle
  BY <1>q, Unseen DEF Over
\* The three steps towards the first iteration, and the one of each iteration.
<1>p. ASSUME NEW status \in {"blast_radius", "planning"}, UpdateRunStatus(status),
             UNCHANGED <<spec, iters>>, ~Over, ~Over', DOMAIN iters = {},
             row.status = "created" \/ (row.status = "blast_radius" /\ status = "planning")
      PROVE  Lifecycle!Next
  BY <1>p, <1>t, StatusMoves DEF Lifecycle!Next, Lifecycle!Prepare, Over
\* A status that ends the run.
<1>e. ASSUME NEW status, row'.status = status, row.status \in Working,
             UNCHANGED <<spec, iters>>, ~Over,
             \/ status = "failed"
             \/ status = "completed" /\ row.status \in {"iterating", "verifying"}
                  /\ DOMAIN iters # {}
             \/ status = "halted_max_iters" /\ DOMAIN iters = 1..MaxIterations
             \/ status = "halted_max_time" /\ DOMAIN iters # 1..MaxIterations
                  /\ row.status \notin {"created", "blast_radius"}
      PROVE  Lifecycle!Next
  <2>1. MaxIterations' = MaxIterations /\ DOMAIN iters' = DOMAIN iters
    BY <1>e DEF MaxIterations
  <2>2. Over' \in BOOLEAN
    BY DEF Over
  <2>3. row.status \in Lifecycle!Working
    BY <1>e DEF Working, Lifecycle!Working
  <2> QED BY <1>e, <2>1, <2>2, <2>3 DEF Lifecycle!Next, Lifecycle!Settle
<1> USE DEF At, Goto, Branch, Report, MustMove, TryMove, ReportAndReturn, Return, Finish,
            Fixed, record
<1>1. CASE CreateRun
  <2>1. pc = "create_run" /\ UNCHANGED <<spec, iters>> /\ row.status = "absent" /\ ~Over
    BY <1>1 DEF CreateRun, StageInv, Over
  <2>2. CASE row' = row /\ pc' = "done"
    BY <2>1, <2>2, Ends DEF Over
  <2>3. CASE row' = [row EXCEPT !.status = "created"] /\ pc' = "emit_created"
    <3>1. row'.status = "created"
      BY <2>3, <1>t DEF TypeOK, Row
    <3>2. MaxIterations' = MaxIterations /\ DOMAIN iters' = DOMAIN iters /\ Over' = Over
      BY <2>1, <2>3 DEF MaxIterations, Over
    <3> QED BY <2>1, <3>1, <3>2 DEF Lifecycle!Next, Lifecycle!Create
  <2> QED BY <1>1, <2>2, <2>3 DEF CreateRun
<1>2. CASE EmitCreated
  <2>1. pc = "emit_created" /\ UNCHANGED <<row, spec, iters>> /\ pc' \in {"blast", "done"}
    BY <1>2 DEF EmitCreated
  <2> QED BY <2>1, <1>q, Ends DEF Over
<1>3. CASE EnterBlastRadius \/ EnterPlanning
  <2>1. CASE row' = row
    BY <1>3, <2>1, <1>q DEF EnterBlastRadius, EnterPlanning, Over
  <2>2. /\ UNCHANGED <<spec, iters>> /\ pc \in {"blast", "planning"} /\ ~Over
        /\ DOMAIN iters = {}
    BY <1>3, <1>t, <1>n DEF EnterBlastRadius, EnterPlanning, LoopInv, Planning, Over
  <2>3. CASE pc = "blast" /\ UpdateRunStatus("blast_radius") /\ pc' = "build"
    BY <2>2, <2>3, <1>p DEF StageInv, Over
  <2>4. CASE pc = "planning" /\ UpdateRunStatus("planning") /\ pc' = "emit_started"
    BY <2>2, <2>4, <1>p DEF StageInv, Over
  <2> QED BY <1>3, <2>1, <2>3, <2>4 DEF EnterBlastRadius, EnterPlanning
<1>4. CASE EnterIterating
  <2>1. pc = "iterate" /\ UNCHANGED <<spec, iters>> /\ ~Over
    BY <1>4 DEF EnterIterating, Over
  <2>2. CASE row' = row /\ pc' = "fail"
    BY <2>1, <2>2, <1>q DEF Over
  <2>3. CASE UpdateRunStatus("iterating") /\ pc' = "create_iteration"
    <3>1. row.status \in {"planning", "iterating", "verifying"}
      BY <2>1 DEF StageInv
    <3>2. DOMAIN iters = 1..(iter - 1) /\ iter >= 1 /\ iter <= MaxIterations
      BY <2>1, <1>t DEF LoopInv, Opening
    <3>3. DOMAIN iters # 1..MaxIterations
      <4>1. iter \in 1..MaxIterations /\ iter \notin 1..(iter - 1)
        BY <3>2, <1>n
      <4> QED BY <3>2, <4>1
    <3>4. row'.status = "iterating" /\ MaxIterations' = MaxIterations /\ DOMAIN iters' = DOMAIN iters
      BY <2>1, <2>3, <1>t, StatusMoves
    <3>5. Over' = Over
      BY <2>1, <2>3 DEF Over
    <3> QED BY <2>1, <3>1, <3>3, <3>4, <3>5 DEF Lifecycle!Next, Lifecycle!Iterate
  <2> QED BY <1>4, <2>2, <2>3 DEF EnterIterating
<1>5. CASE CreateIteration
  <2>1. pc = "create_iteration" /\ UNCHANGED <<spec, row>> /\ ~Over
    BY <1>5 DEF CreateIteration, Over
  <2>2. CASE iters' = iters /\ pc' = "fail"
    BY <2>1, <2>2, <1>q DEF Over
  <2>3. CASE DOMAIN iters' = DOMAIN iters \cup {iter} /\ pc' = "emit_iteration"
    <3>1. DOMAIN iters = 1..(iter - 1) /\ iter >= 1 /\ iter <= MaxIterations
      BY <2>1, <1>t DEF LoopInv, Opening
    <3>2. DOMAIN iters' = 1..iter /\ iter \in 1..MaxIterations
      BY <2>3, <3>1, <1>n
    <3>3. row.status = "iterating"
      BY <2>1 DEF StageInv
    <3>4. MaxIterations' = MaxIterations /\ Over' = Over
      BY <2>1, <2>3 DEF MaxIterations, Over
    <3> QED BY <2>1, <3>1, <3>2, <3>3, <3>4 DEF Lifecycle!Next, Lifecycle!Begin
  <2> QED BY <1>5, <2>2, <2>3 DEF CreateIteration
<1>6. CASE UpdateRunCost
  <2>1. row'.status = row.status
    BY <1>6, <1>t DEF UpdateRunCost, TypeOK, Row
  <2> QED BY <1>6, <2>1 DEF UpdateRunCost, Lifecycle!lifecycle, MaxIterations, Over
<1>7. CASE CompleteIteration
  <2>1. DOMAIN iters' = DOMAIN iters
    BY <1>7 DEF CompleteIteration
  <2>2. UNCHANGED <<row, spec>> /\ Over' = Over
    BY <1>7 DEF CompleteIteration, Over
  <2> QED BY <2>1, <2>2, Unseen
<1>8. CASE EnterVerifying
  <2>1. pc = "verify" /\ pc' = "test" /\ UNCHANGED <<spec, iters>> /\ ~Over /\ Over' = Over
    BY <1>8 DEF EnterVerifying, Over
  <2>2. CASE row' = row
    BY <2>1, <2>2, <1>q
  <2>3. CASE UpdateRunStatus("verifying")
    <3>1. row.status = "iterating"
      BY <2>1 DEF StageInv, InIteration
    <3>2. DOMAIN iters # {}
      <4>1. DOMAIN iters = 1..iter /\ iter >= 1
        BY <2>1, <1>t DEF LoopInv, InIteration
      <4> QED BY <4>1, <1>n
    <3>3. row'.status = "verifying" /\ MaxIterations' = MaxIterations /\ DOMAIN iters' = DOMAIN iters
      BY <2>1, <2>3, <1>t, StatusMoves
    <3> QED BY <2>1, <3>1, <3>2, <3>3 DEF Lifecycle!Next, Lifecycle!Verify
  <2> QED BY <1>8, <2>2, <2>3 DEF EnterVerifying
<1>9. CASE CompleteRun
  <2>1. pc = "complete_run" /\ UNCHANGED <<spec, iters>> /\ ~Over /\ ~Over'
    BY <1>9 DEF CompleteRun, Over
  <2>2. CASE row' = row
    BY <2>1, <2>2, <1>q
  <2>3. CASE row' = [status |-> outcome, cost |-> 0, completedAt |-> TRUE, reason |-> outcome]
    <3>1. row'.status = outcome /\ row.status \in Working
      BY <2>1, <2>3 DEF StageInv
    <3>2. outcome \in {"completed", "halted_max_iters"}
      BY <2>1, <1>t DEF ControlInv, TypeOK
    <3>3. CASE outcome = "completed"
      <4>1. row.status \in {"iterating", "verifying"}
        BY <2>1, <3>3 DEF StageInv
      <4>2. DOMAIN iters # {}
        <5>1. DOMAIN iters = 1..iter /\ iter >= 1
          BY <3>3, <1>t DEF OutcomeInv, Verified
        <5> QED BY <5>1, <1>n
      <4> QED BY <1>e, <2>1, <3>1, <3>3, <4>1, <4>2
    <3>4. CASE outcome = "halted_max_iters"
      <4>1. DOMAIN iters = 1..MaxIterations
        BY <3>4, <1>t DEF OutcomeInv, Exhausted
      <4> QED BY <1>e, <2>1, <3>1, <3>4, <4>1
    <3> QED BY <3>2, <3>3, <3>4
  <2> QED BY <1>9, <2>2, <2>3 DEF CompleteRun
<1>10. CASE Fail
  <2>1. /\ pc = "fail" /\ UNCHANGED <<spec, iters>> /\ ~Over /\ ~Over'
        /\ row.status \in Working
    BY <1>10 DEF Fail, Over, StageInv
  <2>2. CASE row' = row
    BY <2>1, <2>2, <1>q
  <2>3. CASE UpdateRunStatus("failed")
    BY <2>1, <2>3, <1>e, <1>t, StatusMoves
  <2> QED BY <1>10, <2>2, <2>3 DEF Fail
\* A cancelled context refuses the write of "cancelled".
<1>11. CASE Cancel
  <2>1. pc = "cancel" /\ cancelled /\ UNCHANGED <<spec, iters>> /\ ~Over /\ ~Over'
    BY <1>11 DEF Cancel, Over, StageInv
  <2>2. row' = row
    BY <1>11, <2>1 DEF Cancel, UpdateRunStatus, Persists
  <2> QED BY <2>1, <2>2, <1>q
<1>12. CASE HaltTime
  <2>1. /\ pc = "halt_time" /\ UNCHANGED <<spec, iters>> /\ ~Over /\ Over'
        /\ row.status \in {"planning", "iterating", "verifying"}
        /\ DOMAIN iters # 1..MaxIterations
    BY <1>12 DEF HaltTime, Over, StageInv
  <2>2. CASE row' = row
    BY <2>1, <2>2, Ends
  <2>3. CASE UpdateRunStatus("halted_max_time")
    <3>1. row'.status = "halted_max_time"
      BY <2>1, <2>3, <1>t, StatusMoves
    <3> QED BY <2>1, <3>1, <1>e DEF Working
  <2> QED BY <1>12, <2>2, <2>3 DEF HaltTime
<1>13. CASE EmitTerminal \/ EmitFailed \/ EmitCancelled \/ Crash
  <2>1. UNCHANGED <<row, spec, iters>> /\ ~Over /\ Over'
    BY <1>13 DEF EmitTerminal, EmitFailed, EmitCancelled, Crash, Over
  <2> QED BY <2>1, Ends
<1>14. CASE \/ SkipBlastRadius \/ BuildGraph \/ EmitBlastRadius \/ CheckBeforePlanning
            \/ EmitStarted \/ PlanRequest \/ PlanAnswered \/ PlanRefused
            \/ PlanResponse \/ PlanIteration \/ CheckBeforeIterate
  <2>1. UNCHANGED <<row, spec, iters>> /\ ~Over /\ ~Over'
    BY <1>14 DEF SkipBlastRadius, BuildGraph, EmitBlastRadius, CheckBeforePlanning,
       EmitStarted, PlanRequest, PlanAnswered, PlanRefused, PlanResponse, PlanIteration,
       CheckBeforeIterate, Over
  <2> QED BY <2>1, <1>q
<1>15. CASE \/ Loop \/ EmitIteration \/ IterRequest \/ IterAnswered \/ IterRefused
            \/ IterResponse \/ EmitCompleted
  <2>1. UNCHANGED <<row, spec, iters>> /\ ~Over /\ ~Over'
    BY <1>15 DEF Loop, LoopEnds, LoopHaltsOnTime, LoopCancels, LoopIterates, EmitIteration,
       IterRequest, IterAnswered, IterRefused, IterResponse, EmitCompleted, Over
  <2> QED BY <2>1, <1>q
<1>16. CASE Tools
  <2>1. UNCHANGED <<row, spec, iters>> /\ ~Over /\ ~Over'
    BY <1>16 DEF Tools, NextTool, NoMoreTools, BadToolInput, Dispatch, ToolResult, FileRead,
       FileWrite, InsertFileChange, ToolDone, Over
  <2> QED BY <2>1, <1>q
<1>17. CASE NothingToVerify \/ RunTestCommand \/ Passed \/ NotPassed
  <2>1. UNCHANGED <<row, spec, iters>> /\ ~Over /\ ~Over'
    BY <1>17 DEF NothingToVerify, RunTestCommand, Passed, NotPassed, Over
  <2> QED BY <2>1, <1>q
<1>18. CASE Signal \/ Deadline \/ UNCHANGED vars
  <2>1. UNCHANGED <<row, spec, iters, pc>>
    BY <1>18 DEF Signal, Deadline, vars
  <2> QED BY <2>1, Unseen DEF Over
<1> QED
  BY <1>1, <1>2, <1>3, <1>4, <1>5, <1>6, <1>7, <1>8, <1>9, <1>10, <1>11, <1>12, <1>13,
     <1>14, <1>15, <1>16, <1>17, <1>18
     DEF Next, Step, Create, BlastRadius, Plan, Iterate, Verify, Terminate

-----------------------------------------------------------------------------
(* The theorems.                                                           *)

\* The parts above hold in every reachable state, beside the loop invariant.
THEOREM RecordsInductive == Spec => []RInv
<1>1. Init /\ IInv => RInv
  <2> SUFFICES ASSUME Init, IInv PROVE RInv
    OBVIOUS
  <2>1. Cardinality(DOMAIN iters) \in Nat
    BY RowCount DEF IInv
  <2>2. SpentInv
    BY <2>1 DEF Init, SpentInv, Unanswered, Opening, InIteration
  <2>3. RunningInv /\ FilesInv /\ AgreeInv
    BY DEF Init, RunningInv, FilesInv, AgreeInv, Unrecorded, Closed
  <2>4. StageInv
    BY DEF Init, StageInv, NoRow, InIteration
  <2> QED BY <2>2, <2>3, <2>4 DEF RInv
<1>2. IInv /\ IInv' /\ RInv /\ [Next]_vars => RInv'
  BY SpentInvStep, RunningInvStep, FilesInvStep, StageInvStep, AgreeInvStep DEF IInv, RInv
<1> QED BY <1>1, <1>2, Inductive, PTL DEF Spec

\* What a run spends on the model is bounded by its rows, and its rows by the
\* budget, whatever fails (WithinBudget).
THEOREM Budgeted == Spec => []WithinBudget
<1>1. IInv /\ RInv => WithinBudget
  BY DEF IInv, RInv, LoopInv, SpentInv, RunningInv, WithinBudget
<1> QED BY <1>1, Inductive, RecordsInductive, PTL

\* file_changes says of the workspace what was done to it (FileHistoryIsFaithful).
THEOREM FilesFaithful == Spec => []FileHistoryIsFaithful
<1>1. RInv => FileHistoryIsFaithful
  BY DEF RInv, FilesInv, FileHistoryIsFaithful
<1> QED BY <1>1, RecordsInductive, PTL

\* If no write was lost, the row, the log and the result of a run that has
\* returned tell the same story (RecordsAgree).
THEOREM RecordsTell == Spec => []RecordsAgree
<1>1. IInv /\ RInv => RecordsAgree
  <2> SUFFICES ASSUME IInv, RInv, pc = "done", NoLoss
               PROVE  /\ row.status \in {"completed", "failed", "halted_max_iters",
                                         "halted_max_time"}
                      /\ (ret = "error") <=> (row.status = "failed")
                      /\ row.status # "halted_max_time" =>
                           /\ log[Len(log)].type \in {"run.completed", "run.failed"}
                           /\ log[Len(log)].type = "run.completed" <=>
                                row.status = "completed"
    BY DEF RecordsAgree
  <2>1. outcome \in {"none", "completed", "halted_max_iters"}
    BY DEF IInv, TypeOK
  <2> QED BY <2>1 DEF RInv, AgreeInv, LastIs, TerminalEvent
<1> QED BY <1>1, Inductive, RecordsInductive, PTL

\* The database shows the behaviour RunLifecycle promises (ImplementsLifecycle).
THEOREM LifecycleImplemented == Spec => ImplementsLifecycle
<1>1. Init => Lifecycle!Init
  <2> SUFFICES ASSUME Init PROVE Lifecycle!Init
    OBVIOUS
  <2>1. MaxIterations \in Int
    BY AgentRunAssumption DEF Init, MaxIterations, SpecFile
  <2> QED BY <2>1 DEF Init, NoRow, Over, Lifecycle!Init
<1>2. RInv => StageInv
  BY DEF RInv
<1> QED
  BY <1>1, <1>2, StepImplements, Inductive, RecordsInductive, PTL
     DEF Spec, ImplementsLifecycle, Lifecycle!Spec
=============================================================================
