----------------------------- MODULE AuditChain -----------------------------
(***************************************************************************)
(* audit.Engine: goroutines emit signed events into the audit_events table,*)
(* each event naming the payload hash of the one before it in its run.     *)
(* A mutex per run makes "load the last event, build, insert" serial.  The *)
(* table keeps no insertion order: it is read back in the order of the     *)
(* ULIDs, which one process-wide generator makes from the wall clock.      *)
(*                                                                         *)
(* SHA-256 has no collisions and the wall clock does not step back.        *)
(***************************************************************************)
EXTENDS Integers, FiniteSets

CONSTANTS Emitters,        \* goroutines that call Emit
          Runs,
          Payloads,        \* payloads, by their canonical JSON
          Unserialisable,  \* those CanonicalJSON refuses
          GenesisHash,
          Entropy,         \* bound: the random parts a ULID may start from
          MaxClock,        \* bound: milliseconds
          MaxCalls         \* bound: calls of Emit

ASSUME AuditChainAssumption ==
  /\ Unserialisable \subseteq Payloads
  /\ Entropy \subseteq Nat
  /\ MaxClock \in Nat /\ MaxCalls \in Nat

VARIABLES
  table,   \* audit_events
  holder,  \* run |-> the emitter that holds its mutex, {} or a singleton
  pc,      \* emitter |-> the statement of Emit it is about to execute
  local,   \* emitter |-> Emit's arguments and variables
  clock,   \* time.Now(), in milliseconds
  mono,    \* the last ULID made: the monotonic generator's state
  calls

vars == <<table, holder, pc, local, clock, mono, calls>>

ComputePayloadHash(payload) == [sha256 |-> payload]
Hashes == {GenesisHash} \cup {ComputePayloadHash(p) : p \in Payloads}

\* ed25519 over ComputeSigningInput: prev || payload hash.
Sign(prev, hash) == [signed |-> <<prev, hash>>]

Ulid == [ms : Nat \cup {-1}, entropy : Nat]
Before(a, b) == a.ms < b.ms \/ (a.ms = b.ms /\ a.entropy < b.entropy)

Event == [id : Ulid, run : Runs, payload : Payloads, payload_hash : Hashes,
          prev_hash : Hashes, signature : {Sign(p, h) : p, h \in Hashes}]

\* Emit's arguments and variables, its result, and whether it wrote its event.
Frame == [run : Runs, payload : Payloads, prev : Hashes, now : Nat, id : Ulid,
          ok : BOOLEAN, written : BOOLEAN]

NoUlid == [ms |-> -1, entropy |-> 0]

Init ==
  /\ table = {}
  /\ holder = [r \in Runs |-> {}]
  /\ pc = [e \in Emitters |-> "idle"]
  /\ local \in [Emitters -> [run : Runs, payload : Payloads,
                             prev : {GenesisHash}, now : {0}, id : {NoUlid},
                             ok : {FALSE}, written : {FALSE}]]
  /\ \A e, f \in Emitters : local[e] = local[f]
  /\ clock = 0 /\ mono = NoUlid /\ calls = 0

-----------------------------------------------------------------------------
(* Reading the table.                                                      *)

EventsOf(t, run) == {ev \in t : ev.run = run}
Earlier(t, ev)   == {o \in t : o.run = ev.run /\ Before(o.id, ev.id)}

\* ORDER BY id DESC LIMIT 1
GetLastAuditEvent(events) ==
  CHOOSE ev \in events : \A o \in events : o = ev \/ Before(o.id, ev.id)

\* Mutant of LinkOf: the link is to the id of the last event.
LinkOfId(events) ==
  IF events = {} THEN GenesisHash ELSE GetLastAuditEvent(events).id

\* The hash the next event must link to.
LinkOf(events) ==
  IF events = {} THEN GenesisHash ELSE GetLastAuditEvent(events).payload_hash

\* One turn of VerifyRun's loop; earlier events have passed it.
EventVerifies(t, ev) ==
  /\ ev.prev_hash = LinkOf(Earlier(t, ev))
  /\ ev.payload_hash = ComputePayloadHash(ev.payload)
  /\ ev.signature = Sign(ev.prev_hash, ComputePayloadHash(ev.payload))

\* Mutant of VerifyRun: the first event is taken as the anchor.
VerifyRunFromSecond(t, run) ==
  {ev \in EventsOf(t, run) :
     /\ Earlier(t, ev) # {} /\ ~EventVerifies(t, ev)
     /\ \A o \in Earlier(t, ev) : Earlier(t, o) = {} \/ EventVerifies(t, o)}

\* The event VerifyRun reports as broken; {} when the chain is sound.
VerifyRun(t, run) ==
  {ev \in EventsOf(t, run) :
     ~EventVerifies(t, ev) /\ \A o \in Earlier(t, ev) : EventVerifies(t, o)}

-----------------------------------------------------------------------------
(* Emit                                                                    *)

At(e, l) == pc[e] = l
Goto(e, l) == pc' = [pc EXCEPT ![e] = l]
Run(e) == local[e].run
Let(e, v) == local' = [local EXCEPT ![e] = v]

Call(e) ==
  /\ At(e, "idle") /\ calls < MaxCalls /\ calls' = calls + 1
  /\ \E r \in Runs, p \in Payloads :
       Let(e, [local[e] EXCEPT !.run = r, !.payload = p,
                               !.ok = FALSE, !.written = FALSE])
  /\ Goto(e, "lock")
  /\ UNCHANGED <<table, holder, clock, mono>>

\* Mutant of Lock: two first callers each create a mutex for the run.
LockOwnMutex(e) ==
  /\ At(e, "lock") /\ Goto(e, "prev")
  /\ holder' = [holder EXCEPT ![Run(e)] = @ \cup {e}]
  /\ UNCHANGED <<table, local, clock, mono, calls>>

Lock(e) ==
  /\ At(e, "lock") /\ holder[Run(e)] = {} /\ Goto(e, "prev")
  /\ holder' = [holder EXCEPT ![Run(e)] = {e}]
  /\ UNCHANGED <<table, local, clock, mono, calls>>

\* prevHash; the query may fail.
LoadPrev(e) ==
  /\ At(e, "prev")
  /\ \/ /\ Let(e, [local[e] EXCEPT !.prev = LinkOf(EventsOf(table, Run(e)))])
        /\ Goto(e, "build")
     \/ UNCHANGED local /\ Goto(e, "unlock")
  /\ UNCHANGED <<table, holder, clock, mono, calls>>

\* CanonicalJSON, hash and signature; then ulid.Make reads the clock.
Build(e) ==
  /\ At(e, "build")
  /\ \/ /\ local[e].payload \notin Unserialisable
        /\ Let(e, [local[e] EXCEPT !.now = clock]) /\ Goto(e, "make")
     \/ /\ local[e].payload \in Unserialisable
        /\ UNCHANGED local /\ Goto(e, "unlock")
  /\ UNCHANGED <<table, holder, clock, mono, calls>>

\* Mutant of Make: ULIDs made without the monotonic generator.
MakeRandom(e) ==
  /\ At(e, "make") /\ Goto(e, "insert")
  /\ \E n \in Entropy : mono' = [ms |-> local[e].now, entropy |-> n]
  /\ Let(e, [local[e] EXCEPT !.id = mono'])
  /\ UNCHANGED <<table, holder, clock, calls>>

\* ulid.Make under the generator's own lock: the millisecond of the last
\* ULID continues it, any other one starts from a random value.
Make(e) ==
  /\ At(e, "make") /\ Goto(e, "insert")
  /\ \/ mono.ms = local[e].now /\ mono' = [mono EXCEPT !.entropy = @ + 1]
     \/ /\ mono.ms # local[e].now
        /\ \E n \in Entropy : mono' = [ms |-> local[e].now, entropy |-> n]
  /\ Let(e, [local[e] EXCEPT !.id = mono'])
  /\ UNCHANGED <<table, holder, clock, calls>>

NewEvent(e) ==
  LET hash == ComputePayloadHash(local[e].payload)
  IN  [id |-> local[e].id, run |-> Run(e), payload |-> local[e].payload,
       payload_hash |-> hash, prev_hash |-> local[e].prev,
       signature |-> Sign(local[e].prev, hash)]

\* Mutant of Insert: the row is queued for later and nil returned at once.
InsertDeferred(e) ==
  /\ At(e, "insert") /\ Goto(e, "unlock")
  /\ table' \in {table, table \cup {NewEvent(e)}}
  /\ Let(e, [local[e] EXCEPT !.ok = TRUE, !.written = (table' # table)])
  /\ UNCHANGED <<holder, clock, mono, calls>>

\* InsertAuditEvent; `id` is the primary key.  A context cancelled while the
\* statement runs gives an error whether or not the row was written.
Insert(e) ==
  /\ At(e, "insert") /\ Goto(e, "unlock")
  /\ \/ /\ \A ev \in table : ev.id # local[e].id
        /\ table' = table \cup {NewEvent(e)}
        /\ \E nil \in BOOLEAN :
             Let(e, [local[e] EXCEPT !.ok = nil, !.written = TRUE])
     \/ UNCHANGED <<table, local>>
  /\ UNCHANGED <<holder, clock, mono, calls>>

\* Mutant of Unlock: an early return that skips the deferred unlock.
UnlockOnSuccess(e) ==
  /\ At(e, "unlock") /\ Goto(e, "idle")
  /\ holder' = [holder EXCEPT ![Run(e)] = IF local[e].ok THEN @ \ {e} ELSE @]
  /\ UNCHANGED <<table, local, clock, mono, calls>>

\* The deferred unlock; Emit returns local[e].ok.
Unlock(e) ==
  /\ At(e, "unlock") /\ Goto(e, "idle")
  /\ holder' = [holder EXCEPT ![Run(e)] = @ \ {e}]
  /\ UNCHANGED <<table, local, clock, mono, calls>>

Tick ==
  /\ clock < MaxClock /\ clock' = clock + 1
  /\ UNCHANGED <<table, holder, pc, local, mono, calls>>

Step(e) == Lock(e) \/ LoadPrev(e) \/ Build(e) \/ Make(e) \/ Insert(e) \/ Unlock(e)

Next == Tick \/ \E e \in Emitters : Call(e) \/ Step(e)

Spec == Init /\ [][Next]_vars

\* A goroutine that can run does; Go's mutex starves no waiter, and with
\* finitely many calls weak fairness gives the same.
Fairness == \A e \in Emitters : WF_vars(Step(e))
FairSpec == Spec /\ Fairness

-----------------------------------------------------------------------------
TypeOK ==
  /\ table \subseteq Event
  /\ holder \in [Runs -> SUBSET Emitters]
  /\ pc \in [Emitters -> {"idle", "lock", "prev", "build", "make", "insert",
                          "unlock"}]
  /\ local \in [Emitters -> Frame]
  /\ clock \in Nat /\ mono \in Ulid /\ calls \in Nat

\* Whatever calls overlap and whichever of them fail, VerifyRun finds the
\* chain of every run sound at every moment (engine.go: "the chain remains
\* serial even under concurrent callers").
ChainVerifies == \A run \in Runs : VerifyRun(table, run) = {}

\* VerifyRun reports exactly the row whose payload was edited, and when a row
\* is missing the one after it, unless the missing row repeats the payload of
\* its predecessor or was the newest.
CorruptionIsLocated ==
  \A ev \in table :
    /\ \A p \in Payloads \ {ev.payload} :
         LET edited == [ev EXCEPT !.payload = p]
         IN  VerifyRun((table \ {ev}) \cup {edited}, ev.run) = {edited}
    /\ LinkOf(Earlier(table, ev)) # ev.payload_hash =>
         LET after == {o \in EventsOf(table, ev.run) : ev \in Earlier(table, o)}
         IN  VerifyRun(table \ {ev}, ev.run) =
               {o \in after : Earlier(table, o) \cap after = {}}

\* The table, read in the order of its ids, is the log the engine promises:
\* each call appends at its end at most once, before it returns, and returns
\* nil only if it has (engine.go: "it returns only after the event is durably
\* written").
Nth(t, run, n) ==
  {ev \in EventsOf(t, run) : Cardinality(Earlier(t, ev)) = n - 1}
PayloadOf(events) == (CHOOSE ev \in events : TRUE).payload
LogOf(t, run) ==
  [n \in 1..Cardinality(EventsOf(t, run)) |-> PayloadOf(Nth(t, run, n))]

Logs   == [run \in Runs |-> LogOf(table, run)]
Asked  == [e \in Emitters |-> IF pc[e] = "idle" THEN <<>>
                              ELSE <<local[e].run, local[e].payload>>]
Added  == {e \in Emitters : pc[e] # "idle" /\ local[e].written}
Nilled == {e \in Emitters : pc[e] = "idle" /\ local[e].ok}

Promise == INSTANCE AuditLog WITH
  log <- Logs, asked <- Asked, added <- Added, nilled <- Nilled

ImplementsAuditLog == Promise!Spec

\* A nil answer is for an event that is in the table, linked and signed; it is
\* still there when the caller acts on the answer, whatever others emit.
NilMeansDurable ==
  \A e \in Emitters :
    pc[e] \in {"unlock", "idle"} /\ local[e].ok =>
      \E ev \in table : /\ ev.id = local[e].id /\ ev.run = Run(e)
                        /\ ev.payload = local[e].payload
                        /\ EventVerifies(table, ev)

\* Every Emit returns: no path leaves the run's mutex held.
EmitReturns == \A e \in Emitters : pc[e] # "idle" ~> pc[e] = "idle"
=============================================================================
