----------------------------- MODULE MCAgentRun -----------------------------
(* AgentRun on a few spec files: the default budget with dependencies and  *)
(* nothing to test, two iterations with two contracts, two iterations with *)
(* a deadline, and the negative budget that `aetronyx run` lets through.   *)
EXTENDS AgentRun

File(deps, contracts, budget, timed) ==
  [deps |-> deps, contracts |-> contracts, iters |-> budget, timed |-> timed]

\* Spec files that spec.Validate accepts.
ValidSpecs ==
  {File(TRUE, 0, 0, FALSE), File(FALSE, 2, 2, FALSE), File(FALSE, 1, 2, TRUE)}

MCSpecs == ValidSpecs \cup {File(FALSE, 1, -1, TRUE)}
=============================================================================
