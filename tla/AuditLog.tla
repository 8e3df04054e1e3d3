------------------------------ MODULE AuditLog ------------------------------
(***************************************************************************)
(* What Engine.Emit promises: every run has a log that only grows at its   *)
(* end.  A call appends its payload at most once, at one moment between    *)
(* its start and its return, and returns nil only if it has; a call that   *)
(* returns an error may have appended or not.                              *)
(***************************************************************************)
EXTENDS Sequences

CONSTANTS Emitters, Runs, Payloads

VARIABLES log,     \* run |-> payloads, oldest first
          asked,   \* emitter |-> the <<run, payload>> of its call, <<>> when idle
          added,   \* the emitters whose call has appended
          nilled   \* the idle emitters whose last call returned nil

audit == <<log, asked, added, nilled>>

Init ==
  /\ log = [r \in Runs |-> <<>>]
  /\ asked = [e \in Emitters |-> <<>>]
  /\ added = {} /\ nilled = {}

Ask(e) ==
  /\ asked[e] = <<>>
  /\ asked' \in {[asked EXCEPT ![e] = call] : call \in Runs \X Payloads}
  /\ nilled' = nilled \ {e}
  /\ UNCHANGED <<log, added>>

Add(e) ==
  /\ asked[e] # <<>> /\ e \notin added
  /\ added' = added \cup {e}
  /\ log' = [log EXCEPT ![asked[e][1]] = Append(@, asked[e][2])]
  /\ UNCHANGED <<asked, nilled>>

\* ok: nil is returned.
Answer(e, ok) ==
  /\ asked[e] # <<>> /\ (ok => e \in added)
  /\ asked' = [asked EXCEPT ![e] = <<>>]
  /\ added' = added \ {e}
  /\ nilled' = IF ok THEN nilled \cup {e} ELSE nilled
  /\ UNCHANGED log

Next == \E e \in Emitters : Ask(e) \/ Add(e) \/ \E ok \in BOOLEAN : Answer(e, ok)

Spec == Init /\ [][Next]_audit
=============================================================================
