---------------------------- MODULE RunLifecycle ----------------------------
(***************************************************************************)
(* What a reader of the database may rely on about one run: its status     *)
(* moves through the working statuses to at most one terminal status, its  *)
(* iteration rows appear one at a time within the budget, and once the     *)
(* process has gone nothing of it moves any more.                          *)
(***************************************************************************)
EXTENDS Integers

VARIABLES status,  \* runs.status, "absent" before the row exists
          limit,   \* the iteration budget, fixed for the run
          begun,   \* the iter_numbers that have a row
          over     \* Engine.Run has returned, or its process has died

lifecycle == <<status, limit, begun, over>>

Working == {"created", "blast_radius", "planning", "iterating", "verifying"}

Init ==
  /\ status = "absent" /\ limit \in Int /\ begun = {} /\ over = FALSE

\* The row is inserted.
Create ==
  /\ ~over /\ status = "absent" /\ status' = "created"
  /\ UNCHANGED <<limit, begun, over>>

\* The phases before the first iteration.
Prepare ==
  /\ ~over /\ begun = {}
  /\ \/ status = "created" /\ status' = "blast_radius"
     \/ status \in {"created", "blast_radius"} /\ status' = "planning"
  /\ UNCHANGED <<limit, begun, over>>

\* An iteration is about to be made; the budget leaves room for it.
Iterate ==
  /\ ~over /\ status \in {"planning", "iterating", "verifying"}
  /\ begun # 1..limit /\ status' = "iterating"
  /\ UNCHANGED <<limit, begun, over>>

\* The next iteration row.
Begin ==
  /\ ~over /\ status = "iterating"
  /\ \E n \in 1..limit : begun = 1..(n - 1) /\ begun' = 1..n
  /\ UNCHANGED <<status, limit, over>>

Verify ==
  /\ ~over /\ status = "iterating" /\ begun # {} /\ status' = "verifying"
  /\ UNCHANGED <<limit, begun, over>>

\* A terminal status, with what must be true for it.
Settle ==
  /\ ~over /\ status \in Working
  /\ \/ status \in {"iterating", "verifying"} /\ begun # {} /\ status' = "completed"
     \/ begun = 1..limit /\ status' = "halted_max_iters"
     \/ status \notin {"created", "blast_radius"} /\ begun # 1..limit
        /\ status' = "halted_max_time"
     \/ status' = "failed"
  /\ over' \in BOOLEAN
  /\ UNCHANGED <<limit, begun>>

\* The process is gone, whatever was recorded.
Leave == ~over /\ over' = TRUE /\ UNCHANGED <<status, limit, begun>>

Next == Create \/ Prepare \/ Iterate \/ Begin \/ Verify \/ Settle \/ Leave

Spec == Init /\ [][Next]_lifecycle
=============================================================================
