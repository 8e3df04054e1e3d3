--------------------------- MODULE ContextBuilder ---------------------------
(***************************************************************************)
(* The rolling context of a run: ContextBuilder.Add and its eviction loop, *)
(* called in the order planning and the iterations call it.  The spec and  *)
(* the plan are pinned; AGENTS.md, tool results and test feedback are not. *)
(*                                                                         *)
(* An entry is told apart by its label, its length, which Add made it and   *)
(* in which iteration.                                                     *)
(***************************************************************************)
EXTENDS Integers, Sequences, SequencesExt

CONSTANTS limit,         \* int(maxTokens * 0.7)
          Lengths,       \* bound: lengths of contents, in bytes
          MaxIterations,
          MaxResults     \* bound: tool results of one iteration

ASSUME ContextBuilderAssumption ==
  /\ limit \in Nat /\ Lengths \subseteq Nat
  /\ MaxIterations \in Nat /\ MaxResults \in Nat

VARIABLES
  entries,  \* of the builder
  total,    \* its estimate of their tokens
  at,       \* what the run does next; "evict" inside Add
  back,     \* where Add returns to
  iter,     \* iterations begun
  results,  \* tool results of this iteration
  prompt,   \* the entries Build gave for this iteration's request
  added     \* history: every entry added, in order

builder == <<entries, total>>
run     == <<iter, results, prompt>>
vars    == <<builder, at, back, run, added>>

Labels == {"spec", "plan", "agents_instructions", "tool", "test_feedback"}
Entry  == [label : Labels, tokens : Nat, n : Nat, iter : Nat]

Pinned(e) == e.label \in {"spec", "plan"}
Unpinned  == {i \in DOMAIN entries : ~Pinned(entries[i])}

Init ==
  /\ entries = <<>> /\ total = 0
  /\ at = "spec" /\ back = "plan"
  /\ iter = 0 /\ results = 0 /\ prompt = <<>> /\ added = <<>>

-----------------------------------------------------------------------------
(* The builder                                                             *)

\* Four bytes to a token, and one at least.
Tokens(length) == IF length < 4 THEN 1 ELSE length \div 4

Add(label, next) ==
  \E length \in Lengths :
    LET e == [label |-> label, tokens |-> Tokens(length),
               n |-> Len(added) + 1, iter |-> iter]
    IN  /\ entries' = Append(entries, e)
        /\ total' = total + e.tokens
        /\ added' = Append(added, e)
        /\ at' = "evict" /\ back' = next

\* Mutant of oldestUnpinnedIdx: the newest is taken.
newestUnpinnedIdx == CHOOSE i \in Unpinned : \A j \in Unpinned : j =< i

oldestUnpinnedIdx == CHOOSE i \in Unpinned : \A j \in Unpinned : i =< j

\* Mutant of Evict: a context that is just full is evicted from.
EvictEager ==
  /\ at = "evict" /\ total >= limit /\ Unpinned # {}
  /\ entries' = RemoveAt(entries, oldestUnpinnedIdx)
  /\ total' = total - entries[oldestUnpinnedIdx].tokens
  /\ UNCHANGED <<at, back, run, added>>

\* One turn of evictIfNeeded's loop.
Evict ==
  /\ at = "evict" /\ total > limit /\ Unpinned # {}
  /\ entries' = RemoveAt(entries, oldestUnpinnedIdx)
  /\ total' = total - entries[oldestUnpinnedIdx].tokens
  /\ UNCHANGED <<at, back, run, added>>

\* The loop ends, and Add returns.
Added ==
  /\ at = "evict" /\ (total =< limit \/ Unpinned = {}) /\ at' = back
  /\ UNCHANGED <<builder, back, run, added>>

-----------------------------------------------------------------------------
(* The run: phasePlanning, then runOneIteration and phaseVerify in turn.   *)

AddSpec == at = "spec" /\ Add("spec", "plan") /\ UNCHANGED run
AddPlan == at = "plan" /\ Add("plan", "agents") /\ UNCHANGED run
AddAgents ==
  at = "agents" /\ Add("agents_instructions", "request") /\ UNCHANGED run
NoAgents ==
  at = "agents" /\ at' = "request" /\ UNCHANGED <<builder, back, run, added>>

\* buildIterRequest
Request ==
  /\ at = "request" /\ iter < MaxIterations /\ at' = "tools"
  /\ iter' = iter + 1 /\ results' = 0 /\ prompt' = entries
  /\ UNCHANGED <<builder, back, added>>

\* The result of a tool call, or the error of one.
AddResult ==
  /\ at = "tools" /\ results < MaxResults /\ results' = results + 1
  /\ Add("tool", "tools")
  /\ UNCHANGED <<iter, prompt>>

AddFeedback == at = "tools" /\ Add("test_feedback", "request") /\ UNCHANGED run

\* The tests pass, or the budget is used up.
Finish ==
  /\ at = "tools" \/ (at = "request" /\ iter = MaxIterations)
  /\ at' = "done"
  /\ UNCHANGED <<builder, back, run, added>>

Next == \/ AddSpec \/ AddPlan \/ AddAgents \/ NoAgents
        \/ Request \/ AddResult \/ AddFeedback \/ Finish
        \/ Evict \/ Added

Spec == Init /\ [][Next]_vars

-----------------------------------------------------------------------------
SumOf(weights) ==
  LET upTo[i \in 0..Len(weights)] == IF i = 0 THEN 0 ELSE upTo[i - 1] + weights[i]
  IN  upTo[Len(weights)]

TokensOf(s)       == [i \in DOMAIN s |-> s[i].tokens]
PinnedTokensOf(s) == [i \in DOMAIN s |-> IF Pinned(s[i]) THEN s[i].tokens ELSE 0]

TypeOK ==
  /\ entries \in Seq(Entry) /\ total \in Nat
  /\ at \in {"spec", "plan", "agents", "request", "tools", "evict", "done"}
  /\ back \in {"plan", "agents", "request", "tools"}
  /\ iter \in 0..MaxIterations /\ results \in 0..MaxResults
  /\ prompt \in Seq(Entry) /\ added \in Seq(Entry)

\* Evictions take the oldest first and never the spec or the plan: what is left
\* of all that was added is the pinned entries and the newest others, in order.
KeepsPinnedAndNewest ==
  /\ \A i, j \in DOMAIN entries : i < j => entries[i].n < entries[j].n
  /\ \E cut \in 0..Len(added) :
       Range(entries) =
         {added[n] : n \in {m \in DOMAIN added : Pinned(added[m]) \/ m > cut}}

\* Eviction does what is needed and no more.  The estimate is of what is there,
\* however many Adds and evictions went before; what Build concatenates fits
\* the limit as soon as Add has returned, unless the spec and the plan alone
\* exceed it; and with the newest evicted entry back it would be over the limit,
\* even after later Adds.
EvictsExactly ==
  /\ total = SumOf(TokensOf(entries))
  /\ at # "evict" => total =< limit \/ Unpinned = {}
  /\ LET evicted == {i \in DOMAIN added : added[i] \notin Range(entries)}
     IN  \A i \in evicted :
           (\A j \in evicted : j =< i) => total + added[i].tokens > limit

\* The feedback of a failed verification is in the prompt of the iteration that
\* follows whenever it fits beside the spec and the plan (phaseIterate adds it
\* last).
FeedbackSurvivesIfItFits ==
  iter > 1 =>
    \E e \in Range(added) :
      /\ e.label = "test_feedback" /\ e.iter = iter - 1
      /\ SumOf(PinnedTokensOf(prompt)) + e.tokens =< limit => e \in Range(prompt)
=============================================================================
