-------------------------- MODULE AuditChainProofs --------------------------
(***************************************************************************)
(* Proofs about AuditChain, for any number of goroutines, payloads, events *)
(* and milliseconds.  The type invariant holds for any number of runs.     *)
(* That the chain is sound, that damage to it is located, that a nil is a  *)
(* durable event and that AuditLog is implemented need OneRun, because     *)
(* with two runs a ULID can be made from a clock reading that another run  *)
(* has overtaken (the run of MCAuditChainRuns.cfg shows it).               *)
(***************************************************************************)
EXTENDS AuditChain, Sequences, FiniteSetTheorems, TLAPS

\* Every caller emits into the same run, as one `aetronyx run` does.
OneRun == \A r, s \in Runs : r = s

-----------------------------------------------------------------------------
(* The order of ULIDs.                                                     *)

LEMMA BeforeIsStrict ==
  \A a, b \in Ulid : Before(a, b) => ~Before(b, a) /\ a # b
BY DEF Before, Ulid

LEMMA BeforeIsTransitive ==
  \A a, b, c \in Ulid : Before(a, b) /\ Before(b, c) => Before(a, c)
BY DEF Before, Ulid

LEMMA BeforeIsTotal ==
  \A a, b \in Ulid : a = b \/ Before(a, b) \/ Before(b, a)
<1> SUFFICES ASSUME NEW a \in Ulid, NEW b \in Ulid,
                    ~Before(a, b), ~Before(b, a)
             PROVE  a = b
  OBVIOUS
<1>1. a.ms = b.ms /\ a.entropy = b.entropy
  BY DEF Before, Ulid
<1>2. a = [ms |-> a.ms, entropy |-> a.entropy] /\ b = [ms |-> b.ms, entropy |-> b.entropy]
  BY DEF Ulid
<1> QED BY <1>1, <1>2

-----------------------------------------------------------------------------
(* Types.  That a run's events have a last one cannot be read off the type *)
(* of the table; it is an invariant, kept by the primary key.              *)

PrimaryKey == \A a, b \in table : a.id = b.id => a = b

HasLast(events) ==
  events # {} => \E ev \in events : \A o \in events : o = ev \/ Before(o.id, ev.id)

TypeInv == TypeOK /\ PrimaryKey /\ \A run \in Runs : HasLast(EventsOf(table, run))

\* The link is a hash whenever the events have a last one.
LEMMA LinkType ==
  ASSUME NEW events \in SUBSET Event, HasLast(events)
  PROVE  LinkOf(events) \in Hashes
<1>1. CASE events = {}
  BY <1>1 DEF LinkOf, Hashes
<1>2. CASE events # {}
  <2>1. GetLastAuditEvent(events) \in events
    BY <1>2 DEF HasLast, GetLastAuditEvent
  <2> QED BY <1>2, <2>1 DEF LinkOf, Event
<1> QED BY <1>1, <1>2

LEMMA LetType ==
  ASSUME TypeOK, NEW e \in Emitters, NEW v \in Frame, Let(e, v)
  PROVE  local' \in [Emitters -> Frame]
BY DEF TypeOK, Let

LEMMA NewEventType ==
  ASSUME TypeOK, NEW e \in Emitters
  PROVE  NewEvent(e) \in Event
<1>1. ComputePayloadHash(local[e].payload) \in Hashes
  BY DEF TypeOK, Hashes, Frame
<1>2. local[e].prev \in Hashes /\ local[e].run \in Runs
      /\ local[e].payload \in Payloads /\ local[e].id \in Ulid
  BY DEF TypeOK, Frame
<1>3. Sign(local[e].prev, ComputePayloadHash(local[e].payload))
        \in {Sign(p, h) : p, h \in Hashes}
  BY <1>1, <1>2
<1> HIDE DEF Sign, ComputePayloadHash
<1> QED BY <1>1, <1>2, <1>3 DEF NewEvent, Event, Run

\* Adding an event whose id is new leaves every run with a last event.
LEMMA LastAfterInsert ==
  ASSUME NEW t \in SUBSET Event, NEW n \in Event, NEW run \in Runs,
         \A ev \in t : ev.id # n.id, HasLast(EventsOf(t, run))
  PROVE  HasLast(EventsOf(t \cup {n}, run))
<1>1. CASE n.run # run
  <2>1. EventsOf(t \cup {n}, run) = EventsOf(t, run)
    BY <1>1 DEF EventsOf
  <2> QED BY <2>1
<1>2. CASE n.run = run
  <2>1. EventsOf(t \cup {n}, run) = EventsOf(t, run) \cup {n}
    BY <1>2 DEF EventsOf
  <2>2. CASE EventsOf(t, run) = {}
    BY <2>1, <2>2 DEF HasLast
  <2>3. CASE EventsOf(t, run) # {}
    <3>1. PICK last \in EventsOf(t, run) :
            \A o \in EventsOf(t, run) : o = last \/ Before(o.id, last.id)
      BY <2>3 DEF HasLast
    <3>2. last \in t /\ last.id \in Ulid /\ n.id \in Ulid
          /\ \A o \in EventsOf(t, run) : o.id \in Ulid
      BY DEF EventsOf, Event
    <3>3. CASE Before(n.id, last.id)
      BY <2>1, <3>1, <3>3 DEF HasLast
    <3>4. CASE Before(last.id, n.id)
      <4>1. \A o \in EventsOf(t, run) : Before(o.id, n.id)
        BY <3>1, <3>2, <3>4, BeforeIsTransitive
      <4> QED BY <2>1, <4>1 DEF HasLast
    <3> QED BY <3>2, <3>3, <3>4, BeforeIsTotal
  <2> QED BY <2>2, <2>3
<1> QED BY <1>1, <1>2

LEMMA TypeInit == Init => TypeInv
<1> SUFFICES ASSUME Init PROVE TypeInv
  OBVIOUS
<1>1. NoUlid \in Ulid
  BY DEF NoUlid, Ulid
<1>2. TypeOK
  <2>1. local \in [Emitters -> Frame]
    <3>1. /\ {GenesisHash} \subseteq Hashes /\ {0} \subseteq Nat
          /\ {NoUlid} \subseteq Ulid /\ {FALSE} \subseteq BOOLEAN
      BY <1>1 DEF Hashes
    <3>2. [run : Runs, payload : Payloads, prev : {GenesisHash}, now : {0},
           id : {NoUlid}, ok : {FALSE}, written : {FALSE}] \subseteq Frame
      BY <3>1 DEF Frame
    <3> QED BY <3>2 DEF Init
  <2> QED BY <1>1, <2>1 DEF Init, TypeOK
<1>3. PrimaryKey /\ \A run \in Runs : HasLast(EventsOf(table, run))
  BY DEF Init, PrimaryKey, HasLast, EventsOf
<1> QED BY <1>2, <1>3 DEF TypeInv

LEMMA TypeStep == TypeInv /\ [Next]_vars => TypeInv'
<1> SUFFICES ASSUME TypeInv, [Next]_vars PROVE TypeInv'
  OBVIOUS
<1> USE DEF TypeInv
<1>1. ASSUME UNCHANGED table, TypeOK' PROVE TypeInv'
  BY <1>1 DEF PrimaryKey, EventsOf, HasLast
<1>2. CASE UNCHANGED vars
  BY <1>1, <1>2 DEF vars, TypeOK
<1>3. CASE Tick
  BY <1>1, <1>3 DEF Tick, TypeOK
<1>4. ASSUME NEW e \in Emitters, Call(e) PROVE TypeInv'
  <2>1. PICK r \in Runs, p \in Payloads :
          Let(e, [local[e] EXCEPT !.run = r, !.payload = p,
                                  !.ok = FALSE, !.written = FALSE])
    BY <1>4 DEF Call
  <2>2. [local[e] EXCEPT !.run = r, !.payload = p,
                         !.ok = FALSE, !.written = FALSE] \in Frame
    BY DEF TypeOK, Frame
  <2>3. local' \in [Emitters -> Frame]
    BY <2>1, <2>2, LetType
  <2>4. /\ pc' = [pc EXCEPT ![e] = "lock"] /\ calls' = calls + 1
        /\ UNCHANGED <<table, holder, clock, mono>>
    BY <1>4 DEF Call, Goto
  <2>5. TypeOK'
    BY <2>3, <2>4 DEF TypeOK
  <2> QED BY <1>1, <2>4, <2>5
<1>5. ASSUME NEW e \in Emitters, Lock(e) PROVE TypeInv'
  BY <1>1, <1>5 DEF Lock, Run, Goto, TypeOK
<1>6. ASSUME NEW e \in Emitters, LoadPrev(e) PROVE TypeInv'
  <2>1. Run(e) \in Runs
    BY DEF TypeOK, Run, Frame
  <2>2. LinkOf(EventsOf(table, Run(e))) \in Hashes
    BY <2>1, LinkType DEF TypeOK, EventsOf
  <2>3. [local[e] EXCEPT !.prev = LinkOf(EventsOf(table, Run(e)))] \in Frame
    BY <2>2 DEF TypeOK, Frame
  <2>4. local' \in [Emitters -> Frame]
    BY <1>6, <2>3, LetType DEF LoadPrev, TypeOK
  <2>5. TypeOK'
    BY <1>6, <2>4 DEF LoadPrev, Goto, TypeOK
  <2> QED BY <1>1, <1>6, <2>5 DEF LoadPrev
<1>7. ASSUME NEW e \in Emitters, Build(e) PROVE TypeInv'
  <2>1. [local[e] EXCEPT !.now = clock] \in Frame
    BY DEF TypeOK, Frame
  <2>2. local' \in [Emitters -> Frame]
    BY <1>7, <2>1, LetType DEF Build, TypeOK
  <2> QED BY <1>1, <1>7, <2>2 DEF Build, Goto, TypeOK
<1>8. ASSUME NEW e \in Emitters, Make(e) PROVE TypeInv'
  <2>1. mono' \in Ulid
    BY <1>8, AuditChainAssumption DEF Make, TypeOK, Ulid, Frame
  <2>2. [local[e] EXCEPT !.id = mono'] \in Frame
    BY <2>1 DEF TypeOK, Frame
  <2>3. local' \in [Emitters -> Frame]
    BY <1>8, <2>2, LetType DEF Make
  <2> QED BY <1>1, <1>8, <2>1, <2>3 DEF Make, Goto, TypeOK
<1>9. ASSUME NEW e \in Emitters, Insert(e) PROVE TypeInv'
  <2>1. local' \in [Emitters -> Frame]
    <3>1. \A nil \in BOOLEAN :
            [local[e] EXCEPT !.ok = nil, !.written = TRUE] \in Frame
      BY DEF TypeOK, Frame
    <3> QED BY <1>9, <3>1, LetType DEF Insert, TypeOK
  <2>2. CASE UNCHANGED table
    BY <1>1, <1>9, <2>1, <2>2 DEF Insert, Goto, TypeOK
  <2>3. CASE /\ \A ev \in table : ev.id # local[e].id
             /\ table' = table \cup {NewEvent(e)}
    <3>1. NewEvent(e) \in Event /\ NewEvent(e).id = local[e].id
      BY NewEventType DEF NewEvent
    <3>2. TypeOK'
      BY <1>9, <2>1, <2>3, <3>1 DEF Insert, Goto, TypeOK
    <3>3. PrimaryKey'
      BY <2>3, <3>1 DEF PrimaryKey
    <3>4. \A run \in Runs : HasLast(EventsOf(table', run))
      BY <2>3, <3>1, LastAfterInsert DEF TypeOK
    <3>5. \A run \in Runs : HasLast(EventsOf(table, run))'
      BY <3>4
    <3> QED BY <3>2, <3>3, <3>5
  <2> QED BY <1>9, <2>2, <2>3 DEF Insert
<1>10. ASSUME NEW e \in Emitters, Unlock(e) PROVE TypeInv'
  BY <1>1, <1>10 DEF Unlock, Run, Goto, TypeOK
<1> QED BY <1>2, <1>3, <1>4, <1>5, <1>6, <1>7, <1>8, <1>9, <1>10 DEF Next, Step

\* The columns of the table and the variables of Emit keep their types: in
\* particular the link Emit computes is always a hash, because a run's events
\* always have a last one (Emit, prevHash, GetLastAuditEvent).
THEOREM TypeCorrect == Spec => []TypeOK
<1>1. TypeInv => TypeOK
  BY DEF TypeInv
<1> QED BY <1>1, TypeInit, TypeStep, PTL DEF Spec

-----------------------------------------------------------------------------
(* The chain of a single run.                                              *)

Busy == {"prev", "build", "make", "insert", "unlock"}

\* The mutex of its run is held by whoever is past Lock, and by nobody else.
Mutex == \A e \in Emitters : pc[e] \in Busy => holder[Run(e)] = {e}

\* The generator has never gone back, and whoever is about to insert holds the
\* newest ULID.
Monotonic ==
  /\ mono.ms =< clock
  /\ \A ev \in table : ev.id = mono \/ Before(ev.id, mono)
  /\ \A e \in Emitters :
       /\ pc[e] = "make" => mono.ms =< local[e].now /\ local[e].now =< clock
       /\ pc[e] = "insert" => /\ local[e].id = mono
                              /\ \A ev \in table : Before(ev.id, mono)

\* What Emit loaded is still the last event when it inserts.
Linked ==
  \A e \in Emitters : pc[e] \in {"build", "make", "insert"} =>
    local[e].prev = LinkOf(EventsOf(table, Run(e)))

Sound == \A ev \in table : EventVerifies(table, ev)

\* A call that has not yet inserted has no nil to answer; one that answers nil
\* has inserted.
Pending ==
  \A e \in Emitters :
    /\ local[e].ok => local[e].written
    /\ pc[e] \in {"lock", "prev", "build", "make", "insert"} => ~local[e].written

IInv == /\ TypeInv /\ Mutex /\ Monotonic /\ Linked /\ Sound /\ Pending
        /\ NilMeansDurable

\* An event appended behind all others leaves the verdict on them as it was.
LEMMA OlderUndisturbed ==
  ASSUME NEW t \in SUBSET Event, NEW n \in Event,
         \A ev \in t : Before(ev.id, n.id),
         NEW o \in t
  PROVE  EventVerifies(t \cup {n}, o) <=> EventVerifies(t, o)
<1>1. ~Before(n.id, o.id)
  BY BeforeIsStrict DEF Event
<1>2. Earlier(t \cup {n}, o) = Earlier(t, o)
  BY <1>1 DEF Earlier
<1> QED BY <1>2 DEF EventVerifies

\* What precedes it is the whole of its run.
LEMMA NewestFollowsAll ==
  ASSUME NEW t \in SUBSET Event, NEW n \in Event,
         \A ev \in t : Before(ev.id, n.id)
  PROVE  Earlier(t \cup {n}, n) = EventsOf(t, n.run)
<1>1. ~Before(n.id, n.id)
  BY BeforeIsStrict DEF Event
<1> QED BY <1>1 DEF Earlier, EventsOf

\* With one run the mutex serialises every call.
LEMMA OneAtATime ==
  ASSUME OneRun, TypeOK, Mutex, NEW e \in Emitters, NEW f \in Emitters,
         pc[e] \in Busy, pc[f] \in Busy
  PROVE  e = f
<1>1. Run(e) = Run(f)
  BY DEF OneRun, TypeOK, Run, Frame
<1> QED BY <1>1 DEF Mutex

\* Steps that leave the table alone.
LEMMA TableUntouched ==
  ASSUME UNCHANGED table
  PROVE  /\ Sound => Sound'
         /\ \A run : EventsOf(table, run)' = EventsOf(table, run)
         /\ \A ev \in table : EventVerifies(table, ev) => EventVerifies(table, ev)'
BY DEF Sound, EventsOf, EventVerifies, Earlier

LEMMA ChainInit == Init => IInv
<1> SUFFICES ASSUME Init PROVE IInv
  OBVIOUS
<1>1. Mutex /\ Linked /\ Pending
  BY DEF Init, Mutex, Busy, Linked, Pending
<1>2. Monotonic
  BY DEF Init, Monotonic, NoUlid
<1>3. Sound
  BY DEF Init, Sound
<1>4. NilMeansDurable
  BY DEF Init, NilMeansDurable
<1> QED BY <1>1, <1>2, <1>3, <1>4, TypeInit DEF IInv

\* What an assignment of Emit and a jump do to the frames and the statements.
LEMMA Assigned ==
  ASSUME TypeOK, NEW e \in Emitters, NEW v, Let(e, v)
  PROVE  local'[e] = v /\ \A f \in Emitters \ {e} : local'[f] = local[f]
BY DEF TypeOK, Let

LEMMA Jumped ==
  ASSUME TypeOK, NEW e \in Emitters, NEW l, Goto(e, l)
  PROVE  pc'[e] = l /\ \A f \in Emitters \ {e} : pc'[f] = pc[f]
BY DEF TypeOK, Goto

\* The mutex: Lock takes it, Unlock gives it back, nobody else touches it.
LEMMA MutexStep == OneRun /\ IInv /\ [Next]_vars => Mutex'
<1> SUFFICES ASSUME OneRun, IInv, [Next]_vars PROVE Mutex'
  OBVIOUS
<1>0. TypeOK /\ Mutex
  BY DEF IInv, TypeInv
<1>1. CASE UNCHANGED vars
  BY <1>0, <1>1 DEF vars, Mutex, Run
<1>2. CASE Tick
  BY <1>0, <1>2 DEF Tick, Mutex, Run
<1>3. ASSUME NEW e \in Emitters, Call(e) PROVE Mutex'
  <2>1. PICK v : Let(e, v)
    BY <1>3 DEF Call
  <2>2. Goto(e, "lock") /\ UNCHANGED holder
    BY <1>3 DEF Call
  <2> QED BY <1>0, <2>1, <2>2, Assigned, Jumped DEF Mutex, Busy, Run
<1>4. ASSUME NEW e \in Emitters, Lock(e) PROVE Mutex'
  <2>1. /\ holder[Run(e)] = {} /\ UNCHANGED local
        /\ holder' = [holder EXCEPT ![Run(e)] = {e}]
        /\ Goto(e, "prev")
    BY <1>4 DEF Lock
  <2>2. \A f \in Emitters : Run(f) \in Runs /\ Run(f)' = Run(f)
    BY <1>0, <2>1 DEF TypeOK, Run, Frame
  <2>3. holder'[Run(e)] = {e}
    BY <1>0, <2>1, <2>2 DEF TypeOK
  <2>4. \A f \in Emitters : pc[f] \in Busy => Run(f) # Run(e)
    BY <1>0, <2>1 DEF Mutex
  <2> QED BY <1>0, <2>1, <2>2, <2>3, <2>4, Jumped DEF Mutex, TypeOK
<1>5. ASSUME NEW e \in Emitters, pc[e] \in Busy, NEW v, Let(e, v), v.run = Run(e),
             NEW l, Goto(e, l), UNCHANGED holder
      PROVE  Mutex'
  BY <1>0, <1>5, Assigned, Jumped DEF Mutex, Run
<1>6. ASSUME NEW e \in Emitters, pc[e] \in Busy, UNCHANGED local,
             NEW l, Goto(e, l), UNCHANGED holder
      PROVE  Mutex'
  BY <1>0, <1>6, Jumped DEF Mutex, Run
<1>7. ASSUME NEW e \in Emitters, LoadPrev(e) PROVE Mutex'
  <2>1. [local[e] EXCEPT !.prev = LinkOf(EventsOf(table, Run(e)))].run = Run(e)
    BY <1>0 DEF TypeOK, Frame, Run
  <2> QED BY <1>5, <1>6, <1>7, <2>1 DEF LoadPrev, At, Busy
<1>8. ASSUME NEW e \in Emitters, Build(e) PROVE Mutex'
  <2>1. [local[e] EXCEPT !.now = clock].run = Run(e)
    BY <1>0 DEF TypeOK, Frame, Run
  <2> QED BY <1>5, <1>6, <1>8, <2>1 DEF Build, At, Busy
<1>9. ASSUME NEW e \in Emitters, Make(e) PROVE Mutex'
  <2>1. [local[e] EXCEPT !.id = mono'].run = Run(e)
    BY <1>0 DEF TypeOK, Frame, Run
  <2> QED BY <1>5, <1>9, <2>1 DEF Make, At, Busy
<1>10. ASSUME NEW e \in Emitters, Insert(e) PROVE Mutex'
  <2>1. \A nil : [local[e] EXCEPT !.ok = nil, !.written = TRUE].run = Run(e)
    BY <1>0 DEF TypeOK, Frame, Run
  <2> QED BY <1>5, <1>6, <1>10, <2>1 DEF Insert, At, Busy
<1>11. ASSUME NEW e \in Emitters, Unlock(e) PROVE Mutex'
  <2>1. \A f \in Emitters \ {e} : pc[f] \notin Busy
    BY <1>0, <1>11, OneAtATime DEF Unlock, At, Busy
  <2>2. Goto(e, "idle")
    BY <1>11 DEF Unlock
  <2> QED BY <1>0, <2>1, <2>2, Jumped DEF Mutex, Busy
<1> QED BY <1>1, <1>2, <1>3, <1>4, <1>7, <1>8, <1>9, <1>10, <1>11 DEF Next, Step

\* The last ULID made is the largest; whoever makes one has read the clock
\* after every ULID of the table was made.
LEMMA MonotonicStep == OneRun /\ IInv /\ [Next]_vars => Monotonic'
<1> SUFFICES ASSUME OneRun, IInv, [Next]_vars PROVE Monotonic'
  OBVIOUS
<1>0. /\ TypeOK /\ Mutex /\ Monotonic
      /\ mono.ms \in Int /\ mono.entropy \in Nat /\ clock \in Nat
      /\ \A ev \in table : ev.id \in Ulid
  BY DEF IInv, TypeInv, TypeOK, Ulid, Event
<1>1. CASE UNCHANGED vars
  BY <1>0, <1>1 DEF vars, Monotonic
<1>2. CASE Tick
  <2>1. \A e \in Emitters : local[e].now \in Nat
    BY <1>0 DEF TypeOK, Frame
  <2> QED BY <1>0, <1>2, <2>1 DEF Tick, Monotonic
<1>3. ASSUME NEW e \in Emitters, NEW l, l \notin {"make", "insert"}, Goto(e, l),
             UNCHANGED <<table, clock, mono>>,
             \A f \in Emitters \ {e} : local'[f] = local[f]
      PROVE  Monotonic'
  BY <1>0, <1>3, Jumped DEF Monotonic
<1>4. ASSUME NEW e \in Emitters, Call(e) PROVE Monotonic'
  BY <1>0, <1>3, <1>4, Assigned DEF Call
<1>5. ASSUME NEW e \in Emitters, Lock(e) PROVE Monotonic'
  BY <1>3, <1>5 DEF Lock
<1>6. ASSUME NEW e \in Emitters, LoadPrev(e) PROVE Monotonic'
  BY <1>0, <1>3, <1>6, Assigned DEF LoadPrev
<1>7. ASSUME NEW e \in Emitters, Build(e) PROVE Monotonic'
  <2>1. CASE UNCHANGED local /\ Goto(e, "unlock")
    BY <1>3, <1>7, <2>1 DEF Build
  <2>2. CASE Let(e, [local[e] EXCEPT !.now = clock]) /\ Goto(e, "make")
    <3>1. local'[e].now = clock
      BY <1>0, <2>2, Assigned DEF TypeOK, Frame
    <3> QED BY <1>0, <1>7, <2>2, <3>1, Assigned, Jumped DEF Build, Monotonic
  <2> QED BY <1>7, <2>1, <2>2 DEF Build
<1>8. ASSUME NEW e \in Emitters, Make(e) PROVE Monotonic'
  <2>1. /\ Goto(e, "insert") /\ UNCHANGED <<table, holder, clock>>
        /\ Let(e, [local[e] EXCEPT !.id = mono'])
        /\ pc[e] = "make" /\ local[e].now \in Nat
    BY <1>0, <1>8 DEF Make, At, TypeOK, Frame
  <2>2. mono.ms =< local[e].now /\ local[e].now =< clock
    BY <1>0, <2>1 DEF Monotonic
  <2>3. mono' \in Ulid /\ Before(mono, mono') /\ mono'.ms = local[e].now
    BY <1>0, <1>8, <2>1, <2>2, AuditChainAssumption DEF Make, Before, Ulid, TypeOK
  <2>4. \A ev \in table : Before(ev.id, mono')
    BY <1>0, <2>3, BeforeIsTransitive DEF Monotonic, TypeOK
  <2>5. local'[e].id = mono'
    BY <1>0, <2>1, Assigned DEF TypeOK, Frame
  <2>6. \A f \in Emitters \ {e} : pc'[f] \notin {"make", "insert"}
    BY <1>0, <2>1, OneAtATime, Jumped DEF Busy
  <2> QED BY <1>0, <2>1, <2>2, <2>3, <2>4, <2>5, <2>6, Jumped DEF Monotonic
<1>9. ASSUME NEW e \in Emitters, Insert(e) PROVE Monotonic'
  <2>1. Goto(e, "unlock") /\ pc[e] = "insert" /\ UNCHANGED <<clock, mono>>
    BY <1>9 DEF Insert, At
  <2>2. \A f \in Emitters \ {e} : pc'[f] \notin {"make", "insert"}
    BY <1>0, <2>1, OneAtATime, Jumped DEF Busy
  <2>3. \A ev \in table' : ev.id = mono \/ Before(ev.id, mono)
    <3>1. NewEvent(e).id = mono
      BY <1>0, <2>1 DEF NewEvent, Monotonic
    <3>2. table' \subseteq table \cup {NewEvent(e)}
      BY <1>9 DEF Insert
    <3> QED BY <1>0, <3>1, <3>2 DEF Monotonic
  <2> QED BY <1>0, <2>1, <2>2, <2>3, Jumped DEF Monotonic
<1>10. ASSUME NEW e \in Emitters, Unlock(e) PROVE Monotonic'
  BY <1>3, <1>10 DEF Unlock
<1> QED BY <1>1, <1>2, <1>4, <1>5, <1>6, <1>7, <1>8, <1>9, <1>10 DEF Next, Step

\* The table changes only under the mutex, so what one caller loaded no other
\* caller makes stale.
LEMMA LinkedStep == OneRun /\ IInv /\ [Next]_vars => Linked'
<1> SUFFICES ASSUME OneRun, IInv, [Next]_vars PROVE Linked'
  OBVIOUS
<1>0. TypeOK /\ Mutex /\ Linked
  BY DEF IInv, TypeInv
<1>1. ASSUME UNCHANGED <<table, local, pc>> PROVE Linked'
  BY <1>0, <1>1 DEF Linked, EventsOf, Run
<1>2. ASSUME NEW e \in Emitters, UNCHANGED table,
             \A f \in Emitters \ {e} : local'[f] = local[f] /\ pc'[f] = pc[f],
             \/ pc'[e] \notin {"build", "make", "insert"}
             \/ /\ pc[e] \in {"build", "make", "insert"}
                /\ local'[e].prev = local[e].prev /\ local'[e].run = local[e].run
             \/ /\ local'[e].prev = LinkOf(EventsOf(table, Run(e)))
                /\ local'[e].run = local[e].run
      PROVE  Linked'
  <2> SUFFICES ASSUME NEW f \in Emitters, pc'[f] \in {"build", "make", "insert"}
               PROVE  local'[f].prev = LinkOf(EventsOf(table', local'[f].run))
    BY DEF Linked, Run
  <2>1. EventsOf(table', local'[f].run) = EventsOf(table, local'[f].run)
    BY <1>2
  <2>2. CASE f # e
    BY <1>0, <1>2, <2>1, <2>2 DEF Linked, Run
  <2>3. CASE f = e
    BY <1>0, <1>2, <2>1, <2>3 DEF Linked, Run
  <2> QED
    BY <2>2, <2>3
<1>3. ASSUME NEW e \in Emitters, Call(e) PROVE Linked'
  BY <1>0, <1>2, <1>3, Assigned, Jumped DEF Call
<1>4. ASSUME NEW e \in Emitters, Lock(e) PROVE Linked'
  BY <1>0, <1>2, <1>4, Jumped DEF Lock
<1>5. ASSUME NEW e \in Emitters, LoadPrev(e) PROVE Linked'
  <2>1. CASE Goto(e, "unlock") /\ UNCHANGED local
    BY <1>0, <1>2, <1>5, <2>1, Jumped DEF LoadPrev
  <2>2. CASE /\ Let(e, [local[e] EXCEPT !.prev = LinkOf(EventsOf(table, Run(e)))])
             /\ Goto(e, "build")
    <3>1. /\ local'[e].prev = LinkOf(EventsOf(table, Run(e)))
          /\ local'[e].run = local[e].run
      BY <1>0, <2>2, Assigned DEF TypeOK, Frame
    <3> QED BY <1>0, <1>2, <1>5, <2>2, <3>1, Assigned, Jumped DEF LoadPrev
  <2> QED BY <1>5, <2>1, <2>2 DEF LoadPrev
<1>6. ASSUME NEW e \in Emitters, Build(e) PROVE Linked'
  <2>1. CASE Goto(e, "unlock") /\ UNCHANGED local
    BY <1>0, <1>2, <1>6, <2>1, Jumped DEF Build
  <2>2. CASE Let(e, [local[e] EXCEPT !.now = clock]) /\ Goto(e, "make")
    <3>1. local'[e].prev = local[e].prev /\ local'[e].run = local[e].run
      BY <1>0, <2>2, Assigned DEF TypeOK, Frame
    <3> QED BY <1>0, <1>2, <1>6, <2>2, <3>1, Assigned, Jumped DEF Build, At
  <2> QED BY <1>6, <2>1, <2>2 DEF Build
<1>7. ASSUME NEW e \in Emitters, Make(e) PROVE Linked'
  <2>1. Let(e, [local[e] EXCEPT !.id = mono']) /\ Goto(e, "insert")
    BY <1>7 DEF Make
  <2>2. local'[e].prev = local[e].prev /\ local'[e].run = local[e].run
    BY <1>0, <2>1, Assigned DEF TypeOK, Frame
  <2> QED BY <1>0, <1>2, <1>7, <2>1, <2>2, Assigned, Jumped DEF Make, At
<1>8. ASSUME NEW e \in Emitters, Insert(e) PROVE Linked'
  <2>1. Goto(e, "unlock") /\ pc[e] = "insert"
    BY <1>8 DEF Insert, At
  <2>2. \A f \in Emitters \ {e} : pc'[f] \notin {"build", "make", "insert"}
    BY <1>0, <2>1, OneAtATime, Jumped DEF Busy
  <2> QED BY <1>0, <2>1, <2>2, Jumped DEF Linked
<1>9. ASSUME NEW e \in Emitters, Unlock(e) PROVE Linked'
  BY <1>0, <1>2, <1>9, Jumped DEF Unlock
<1> QED BY <1>1, <1>3, <1>4, <1>5, <1>6, <1>7, <1>8, <1>9 DEF Next, Step, Tick, vars

LEMMA PendingStep == IInv /\ [Next]_vars => Pending'
<1> SUFFICES ASSUME IInv, [Next]_vars PROVE Pending'
  OBVIOUS
<1>0. TypeOK /\ Pending
  BY DEF IInv, TypeInv
<1>1. CASE UNCHANGED vars
  BY <1>0, <1>1 DEF vars, Pending
<1>2. CASE Tick
  BY <1>0, <1>2 DEF Tick, Pending
<1>3. ASSUME NEW e \in Emitters, NEW l, Goto(e, l),
             local'[e].ok => local'[e].written,
             l \in {"unlock", "idle"} \/ ~local'[e].written,
             \A f \in Emitters \ {e} : local'[f] = local[f]
      PROVE  Pending'
  BY <1>0, <1>3, Jumped DEF Pending
<1>4. ASSUME NEW e \in Emitters, Call(e) PROVE Pending'
  <2>1. PICK r \in Runs, p \in Payloads :
          Let(e, [local[e] EXCEPT !.run = r, !.payload = p,
                                  !.ok = FALSE, !.written = FALSE])
    BY <1>4 DEF Call
  <2>2. local'[e] = [local[e] EXCEPT !.run = r, !.payload = p,
                                     !.ok = FALSE, !.written = FALSE]
    BY <1>0, <2>1 DEF TypeOK, Let
  <2>3. ~local'[e].ok /\ ~local'[e].written
    BY <1>0, <2>2 DEF TypeOK, Frame
  <2>4. \A f \in Emitters \ {e} : local'[f] = local[f]
    BY <1>0, <2>1 DEF TypeOK, Let
  <2>5. Goto(e, "lock")
    BY <1>4 DEF Call
  <2> QED BY <1>3, <2>3, <2>4, <2>5
<1>5. ASSUME NEW e \in Emitters, Lock(e) PROVE Pending'
  BY <1>0, <1>3, <1>5 DEF Lock, Pending, At
<1>6. ASSUME NEW e \in Emitters, LoadPrev(e) PROVE Pending'
  <2>1. LET v == [local[e] EXCEPT !.prev = LinkOf(EventsOf(table, Run(e)))]
        IN  ~v.ok /\ ~v.written /\ ~local[e].ok /\ ~local[e].written
    BY <1>0, <1>6 DEF LoadPrev, Pending, At, TypeOK, Frame
  <2> QED BY <1>0, <1>3, <1>6, <2>1, Assigned DEF LoadPrev
<1>7. ASSUME NEW e \in Emitters, Build(e) PROVE Pending'
  <2>1. LET v == [local[e] EXCEPT !.now = clock]
        IN  ~v.ok /\ ~v.written /\ ~local[e].ok /\ ~local[e].written
    BY <1>0, <1>7 DEF Build, Pending, At, TypeOK, Frame
  <2> QED BY <1>0, <1>3, <1>7, <2>1, Assigned DEF Build
<1>8. ASSUME NEW e \in Emitters, Make(e) PROVE Pending'
  <2>1. LET v == [local[e] EXCEPT !.id = mono'] IN ~v.ok /\ ~v.written
    BY <1>0, <1>8 DEF Make, Pending, At, TypeOK, Frame
  <2> QED BY <1>0, <1>3, <1>8, <2>1, Assigned DEF Make
<1>9. ASSUME NEW e \in Emitters, Insert(e) PROVE Pending'
  <2>1. \A nil : [local[e] EXCEPT !.ok = nil, !.written = TRUE].written
    BY <1>0 DEF TypeOK, Frame
  <2>2. local[e].ok => local[e].written
    BY <1>0 DEF Pending
  <2>3. /\ local'[e].ok => local'[e].written
        /\ \A f \in Emitters \ {e} : local'[f] = local[f]
    <3>1. CASE UNCHANGED local
      BY <2>2, <3>1
    <3>2. CASE \E nil \in BOOLEAN :
                 Let(e, [local[e] EXCEPT !.ok = nil, !.written = TRUE])
      BY ZenonT(40), <1>0, <2>1, <3>2, Assigned
    <3> QED BY <1>9, <3>1, <3>2 DEF Insert
  <2>4. Goto(e, "unlock")
    BY <1>9 DEF Insert
  <2> QED BY <1>3, <2>3, <2>4
<1>10. ASSUME NEW e \in Emitters, Unlock(e) PROVE Pending'
  BY <1>0, <1>3, <1>10 DEF Unlock, Pending
<1> QED BY <1>1, <1>2, <1>4, <1>5, <1>6, <1>7, <1>8, <1>9, <1>10 DEF Next, Step

\* An insertion: the new event follows all others, links to the last of them
\* and carries its own hash and signature.
LEMMA InsertSound ==
  ASSUME OneRun, IInv, NEW e \in Emitters, Insert(e), table' # table
  PROVE  /\ table' = table \cup {NewEvent(e)}
         /\ \A ev \in table : EventVerifies(table', ev)
         /\ EventVerifies(table', NewEvent(e))
<1> DEFINE n == NewEvent(e)
<1>0. TypeOK /\ Monotonic /\ Linked /\ Sound
  BY DEF IInv, TypeInv
<1>1. table' = table \cup {n} /\ pc[e] = "insert"
  BY DEF Insert, At
<1>2. n \in Event
  BY <1>0, NewEventType
<1>3. /\ n.id = local[e].id /\ n.run = Run(e) /\ n.prev_hash = local[e].prev
      /\ n.payload_hash = ComputePayloadHash(n.payload)
      /\ n.signature = Sign(n.prev_hash, ComputePayloadHash(n.payload))
  BY DEF NewEvent
<1> HIDE DEF n
<1>4. \A ev \in table : Before(ev.id, n.id)
  BY <1>0, <1>1, <1>3 DEF Monotonic
<1>5. \A ev \in table : EventVerifies(table \cup {n}, ev)
  BY <1>0, <1>2, <1>4, OlderUndisturbed DEF Sound, TypeOK
<1>6. Earlier(table \cup {n}, n) = EventsOf(table, Run(e))
  BY <1>0, <1>2, <1>3, <1>4, NewestFollowsAll DEF TypeOK
<1>7. local[e].prev = LinkOf(EventsOf(table, Run(e)))
  BY <1>0, <1>1 DEF Linked
<1>8. EventVerifies(table \cup {n}, n)
  BY <1>3, <1>6, <1>7 DEF EventVerifies
<1> QED BY <1>1, <1>5, <1>8 DEF n

LEMMA SoundStep == OneRun /\ IInv /\ [Next]_vars => Sound'
<1> SUFFICES ASSUME OneRun, IInv, [Next]_vars PROVE Sound'
  OBVIOUS
<1>0. Sound
  BY DEF IInv
<1>1. CASE UNCHANGED table
  BY <1>0, <1>1, TableUntouched
<1>2. CASE table' # table
  <2>1. PICK e \in Emitters : Insert(e)
    BY <1>2 DEF Next, Step, Tick, Call, Lock, LoadPrev, Build, Make, Unlock, vars
  <2> QED BY <1>2, <2>1, InsertSound DEF Sound
<1> QED BY <1>1, <1>2

\* What a nil answers for, of one caller.
Answered(e) ==
  pc[e] \in {"unlock", "idle"} /\ local[e].ok =>
    \E ev \in table : /\ ev.id = local[e].id /\ ev.run = Run(e)
                      /\ ev.payload = local[e].payload
                      /\ EventVerifies(table, ev)

LEMMA AnsweredStep == OneRun /\ IInv /\ [Next]_vars => NilMeansDurable'
<1> SUFFICES ASSUME OneRun, IInv, [Next]_vars, NEW e \in Emitters
             PROVE  Answered(e)'
  BY DEF NilMeansDurable, Answered
<1>0. TypeOK /\ Sound /\ Pending /\ Answered(e)
  BY DEF IInv, TypeInv, NilMeansDurable, Answered
<1>1. table \subseteq table'
  BY DEF Next, Step, Tick, Call, Lock, LoadPrev, Build, Make, Insert, Unlock, vars
<1>2. Sound'
  BY SoundStep
<1>3. CASE local'[e] = local[e] /\ pc[e] \in {"unlock", "idle"}
  BY <1>0, <1>1, <1>2, <1>3 DEF Answered, Sound, Run
<1>4. CASE pc'[e] \notin {"unlock", "idle"} \/ ~local'[e].ok
  BY <1>4 DEF Answered
<1>5. ASSUME NEW f \in Emitters \ {e}, Call(f) \/ Step(f) PROVE Answered(e)'
  <2>1. local'[e] = local[e] /\ pc'[e] = pc[e]
    BY ZenonT(40), <1>0, <1>5, Assigned, Jumped DEF Step, Call, Lock, LoadPrev, Build, Make, Insert, Unlock
  <2> QED BY <1>3, <1>4, <2>1
<1>6. CASE UNCHANGED vars \/ Tick
  <2>1. local'[e] = local[e] /\ pc'[e] = pc[e]
    BY <1>6 DEF vars, Tick
  <2> QED BY <1>3, <1>4, <2>1
<1>7. CASE Call(e) \/ Lock(e)
  <2>1. Goto(e, "lock") \/ Goto(e, "prev")
    BY <1>7 DEF Call, Lock
  <2> QED BY <1>0, <1>4, <2>1, Jumped
<1>8. CASE LoadPrev(e)
  <2>1. CASE Goto(e, "build")
    BY <1>0, <1>4, <2>1, Jumped
  <2>2. CASE UNCHANGED local
    BY <1>0, <1>4, <1>8, <2>2 DEF Pending, LoadPrev, At
  <2> QED BY <1>8, <2>1, <2>2 DEF LoadPrev
<1>9. CASE Build(e)
  <2>1. CASE Goto(e, "make")
    BY <1>0, <1>4, <2>1, Jumped
  <2>2. CASE UNCHANGED local
    BY <1>0, <1>4, <1>9, <2>2 DEF Pending, Build, At
  <2> QED BY <1>9, <2>1, <2>2 DEF Build
<1>10. CASE Make(e)
  BY <1>0, <1>4, <1>10, Jumped DEF Make
<1>11. CASE Insert(e)
  <2>1. CASE UNCHANGED <<table, local>>
    BY <1>0, <1>4, <1>11, <2>1 DEF Pending, Insert, At
  <2>2. CASE ~UNCHANGED <<table, local>>
    <3>1. PICK nil \in BOOLEAN :
            /\ Let(e, [local[e] EXCEPT !.ok = nil, !.written = TRUE])
            /\ table' = table \cup {NewEvent(e)}
      BY <1>11, <2>2 DEF Insert
    <3>2. local'[e] = [local[e] EXCEPT !.ok = nil, !.written = TRUE]
      BY <1>0, <3>1 DEF TypeOK, Let
    <3>3. /\ local'[e].id = local[e].id /\ local'[e].run = local[e].run
          /\ local'[e].payload = local[e].payload
      BY <1>0, <3>2 DEF TypeOK, Frame
    <3> QED BY <1>2, <3>1, <3>3 DEF Answered, Sound, NewEvent, Run
  <2> QED BY <2>1, <2>2
<1>12. CASE Unlock(e)
  BY <1>3, <1>12 DEF Unlock, At
<1> QED BY <1>5, <1>6, <1>7, <1>8, <1>9, <1>10, <1>11, <1>12 DEF Next, Step

\* The facts above are together inductive.
THEOREM ChainInductive == ASSUME OneRun PROVE Spec => []IInv
<1>1. IInv /\ [Next]_vars => IInv'
  BY TypeStep, MutexStep, MonotonicStep, LinkedStep, SoundStep, PendingStep,
     AnsweredStep DEF IInv
<1> QED BY <1>1, ChainInit, PTL DEF Spec

\* However many goroutines emit into a run, and whichever of their calls fail,
\* VerifyRun finds its chain sound at every moment (Emit, VerifyRun).
THEOREM ChainSound == ASSUME OneRun PROVE Spec => []ChainVerifies
<1>1. IInv => ChainVerifies
  BY DEF IInv, Sound, ChainVerifies, VerifyRun, EventsOf
<1> QED BY <1>1, ChainInductive, PTL

\* A nil returned by Emit is for an event that is, and stays, in the table and
\* passes verification (Emit: "it returns only after the event is durably
\* written").
THEOREM NilDurable == ASSUME OneRun PROVE Spec => []NilMeansDurable
<1>1. IInv => NilMeansDurable
  BY DEF IInv
<1> QED BY <1>1, ChainInductive, PTL

-----------------------------------------------------------------------------
(* What VerifyRun says of a damaged table.                                 *)

\* The table is finite: a call inserts one event.
LEMMA TableFinite == Spec => []IsFiniteSet(table)
<1>1. Init => IsFiniteSet(table)
  BY FS_EmptySet DEF Init
<1>2. IsFiniteSet(table) /\ [Next]_vars => IsFiniteSet(table')
  <2> SUFFICES ASSUME IsFiniteSet(table), [Next]_vars PROVE IsFiniteSet(table')
    OBVIOUS
  <2>1. CASE table' = table
    BY <2>1
  <2>2. CASE table' # table
    <3>1. PICK e \in Emitters : table' = table \cup {NewEvent(e)}
      BY <2>2 DEF Next, Step, Tick, Call, Lock, LoadPrev, Build, Make, Insert,
                  Unlock, vars
    <3> QED BY <3>1, FS_AddElement
  <2> QED BY <2>1, <2>2
<1>3. IsFiniteSet(table) /\ [Next]_vars => IsFiniteSet(table)'
  BY <1>2
<1> QED BY <1>1, <1>3, PTL DEF Spec

StrictLess == {pair \in Nat \X Nat : pair[1] < pair[2]}

LEMMA StrictLessWellFounded == IsWellFoundedOn(StrictLess, Nat)
<1>1. OpToRel(<, Nat) = StrictLess
  BY Zenon DEF OpToRel, StrictLess
<1> QED BY <1>1, NatLessThanWellFounded, Zenon

LEMMA LeastNatural ==
  ASSUME NEW S, S \subseteq Nat, S # {}
  PROVE  \E n \in S : \A m \in S : n =< m
<1>1. PICK n \in S : \A m \in S : ~(<<m, n>> \in StrictLess)
  BY WFMin, StrictLessWellFounded, Zenon
<1>2. ASSUME NEW m \in S, m < n PROVE FALSE
  <2>1. <<m, n>> \in StrictLess
    BY <1>2 DEF StrictLess
  <2> QED BY <1>1, <2>1
<1> QED BY <1>2

\* What the proofs below use of the invariant.
Ordered(t) ==
  /\ t \subseteq Event /\ IsFiniteSet(t)
  /\ \A a, b \in t : a.id = b.id => a = b
  /\ \A ev \in t : EventVerifies(t, ev)

LEMMA EarlierStrict ==
  ASSUME NEW t, Ordered(t), NEW a \in t, NEW b \in t, a \in Earlier(t, b)
  PROVE  /\ Earlier(t, a) \subseteq Earlier(t, b)
         /\ a \notin Earlier(t, a) /\ b \notin Earlier(t, a) /\ b.run = a.run
         /\ a # b
<1>1. a.id \in Ulid /\ b.id \in Ulid /\ \A o \in Earlier(t, a) : o.id \in Ulid
  BY DEF Ordered, Event, Earlier
<1>2. Before(a.id, b.id) /\ a.run = b.run
  BY DEF Earlier
<1>3. \A o \in Earlier(t, a) : o \in t /\ Before(o.id, a.id) /\ o.run = a.run
  BY DEF Earlier
<1>4. \A o \in Earlier(t, a) : Before(o.id, b.id)
  BY <1>1, <1>2, <1>3, BeforeIsTransitive
<1>5. ~Before(a.id, a.id) /\ ~Before(b.id, a.id) /\ a # b
  BY <1>1, <1>2, BeforeIsStrict
<1>6. Earlier(t, a) \subseteq Earlier(t, b)
  BY <1>2, <1>3, <1>4 DEF Earlier
<1> QED BY <1>2, <1>3, <1>5, <1>6

\* Two events of a run: one precedes the other.
LEMMA EarlierTotal ==
  ASSUME NEW t, Ordered(t), NEW a \in t, NEW b \in t, a.run = b.run, a # b
  PROVE  a \in Earlier(t, b) \/ b \in Earlier(t, a)
<1>1. a.id \in Ulid /\ b.id \in Ulid /\ a.id # b.id
  BY DEF Ordered, Event
<1> QED BY <1>1, BeforeIsTotal DEF Earlier

\* Of the events of a run that come after a given one there is a first.
LEMMA FirstAfter ==
  ASSUME NEW t, Ordered(t), NEW ev \in t, NEW z \in t, ev \in Earlier(t, z)
  PROVE  \E y \in t : /\ ev \in Earlier(t, y)
                      /\ y = z \/ y \in Earlier(t, z)
                      /\ \A o \in Earlier(t, y) : ev \notin Earlier(t, o)
<1> DEFINE Cand == {y \in t : ev \in Earlier(t, y) /\ (y = z \/ y \in Earlier(t, z))}
           Size(y) == Cardinality(Earlier(t, y))
           Sizes == {Size(y) : y \in Cand}
<1>1. \A y \in t : IsFiniteSet(Earlier(t, y)) /\ Size(y) \in Nat
  <2> SUFFICES ASSUME NEW y \in t PROVE IsFiniteSet(Earlier(t, y)) /\ Size(y) \in Nat
    OBVIOUS
  <2>1. IsFiniteSet(t) /\ Earlier(t, y) \in SUBSET t
    BY DEF Ordered, Earlier
  <2>2. IsFiniteSet(Earlier(t, y))
    BY <2>1, FS_Subset
  <2> QED BY <2>2, FS_CardinalityType
<1>2. z \in Cand /\ Cand \subseteq t
  OBVIOUS
<1>3. Sizes \subseteq Nat /\ Sizes # {}
  BY <1>1, <1>2
<1>4. PICK n \in Sizes : \A m \in Sizes : n =< m
  BY <1>3, LeastNatural, Zenon
<1>5. PICK y \in Cand : n = Size(y)
  OBVIOUS
<1>6. ASSUME NEW o \in Earlier(t, y), ev \in Earlier(t, o) PROVE FALSE
  <2>1. o \in t /\ y \in t
    BY DEF Earlier
  <2>2. Earlier(t, o) \subseteq Earlier(t, y) /\ o \notin Earlier(t, o)
    BY <1>6, <2>1, EarlierStrict
  <2>3. o \in Cand
    <3>1. CASE y = z
      BY <1>6, <2>1, <3>1
    <3>2. CASE y \in Earlier(t, z)
      <4>1. Earlier(t, y) \subseteq Earlier(t, z)
        BY <2>1, <3>2, EarlierStrict
      <4> QED BY <1>6, <2>1, <4>1
    <3> QED BY <3>1, <3>2
  <2>4. Size(o) =< Size(y) /\ Size(o) # Size(y)
    <3>1. /\ Size(o) =< Size(y)
          /\ Size(y) = Size(o) => Earlier(t, y) = Earlier(t, o)
      BY <1>1, <2>1, <2>2, FS_Subset, Zenon
    <3> QED BY <1>6, <2>2, <3>1
  <2>5. n =< Size(o)
    BY <1>4, <2>3
  <2> QED BY <1>1, <1>5, <2>1, <2>4, <2>5
<1>7. y \in t /\ ev \in Earlier(t, y) /\ (y = z \/ y \in Earlier(t, z))
  BY <1>5
<1> HIDE DEF Cand, Sizes, Size
<1> QED BY <1>6, <1>7

\* An event whose predecessors are the same verifies as before.
LEMMA SameEarlierSameVerdict ==
  ASSUME NEW t, NEW u, NEW o, Earlier(u, o) = Earlier(t, o)
  PROVE  EventVerifies(u, o) <=> EventVerifies(t, o)
BY DEF EventVerifies

LEMMA EditIsLocated ==
  ASSUME NEW t, Ordered(t), NEW ev \in t, NEW p \in Payloads \ {ev.payload}
  PROVE  LET edited == [ev EXCEPT !.payload = p]
         IN  VerifyRun((t \ {ev}) \cup {edited}, ev.run) = {edited}
<1> DEFINE edited == [ev EXCEPT !.payload = p]
           u == (t \ {ev}) \cup {edited}
<1>1. /\ edited.id = ev.id /\ edited.run = ev.run /\ edited.payload = p
      /\ edited.payload_hash = ev.payload_hash /\ ev \in Event
  BY DEF Ordered, Event
<1> HIDE DEF edited
<1>2. \A o \in t : o.id = ev.id => o = ev
  BY DEF Ordered
<1>3. \A o \in u : ~Before(ev.id, o.id) => Earlier(u, o) = Earlier(t, o)
  BY <1>1 DEF Earlier
<1>4. ~Before(ev.id, ev.id)
  BY <1>1, BeforeIsStrict DEF Event
<1>5. ~EventVerifies(u, edited)
  <2>1. ev.payload_hash = ComputePayloadHash(ev.payload)
    BY DEF Ordered, EventVerifies
  <2>2. ComputePayloadHash(ev.payload) # ComputePayloadHash(p)
    BY DEF ComputePayloadHash
  <2> QED BY <1>1, <2>1, <2>2 DEF EventVerifies
<1>6. \A o \in Earlier(u, edited) : o \in t /\ EventVerifies(u, o)
  <2> SUFFICES ASSUME NEW o \in Earlier(u, edited)
               PROVE  o \in t /\ EventVerifies(u, o)
    OBVIOUS
  <2>1. o \in u /\ Before(o.id, ev.id)
    BY <1>1 DEF Earlier
  <2>2. o \in t
    BY <1>1, <1>4, <2>1
  <2>3. ~Before(ev.id, o.id)
    BY <1>1, <2>1, <2>2, BeforeIsStrict DEF Ordered, Event
  <2>4. Earlier(u, o) = Earlier(t, o)
    BY <1>3, <2>1, <2>3
  <2> QED BY <2>2, <2>4, SameEarlierSameVerdict DEF Ordered
<1>7. edited \in VerifyRun(u, ev.run)
  BY <1>1, <1>5, <1>6 DEF VerifyRun, EventsOf
<1>8. ASSUME NEW x \in VerifyRun(u, ev.run), x # edited PROVE FALSE
  <2>1. /\ x \in t /\ x # ev /\ x.run = ev.run /\ x \in u /\ ~EventVerifies(u, x)
        /\ \A o \in Earlier(u, x) : EventVerifies(u, o)
    BY <1>8 DEF VerifyRun, EventsOf
  <2>2. CASE x \in Earlier(t, ev)
    <3>1. x \in Earlier(u, edited)
      BY <1>1, <2>1, <2>2 DEF Earlier
    <3> QED BY <1>6, <2>1, <3>1
  <2>3. CASE ev \in Earlier(t, x)
    <3>1. edited \in Earlier(u, x)
      BY <1>1, <2>3 DEF Earlier
    <3> QED BY <1>5, <2>1, <3>1
  <2> QED BY <2>1, <2>2, <2>3, EarlierTotal
<1>9. VerifyRun(u, ev.run) = {edited}
  BY <1>7, <1>8
<1> QED BY <1>9 DEF edited

\* What precedes the first event after a given one, the given one left out.
LEMMA BeforeTheFirst ==
  ASSUME NEW t, Ordered(t), NEW ev \in t, NEW y \in t, ev \in Earlier(t, y),
         \A o \in Earlier(t, y) : ev \notin Earlier(t, o)
  PROVE  /\ Earlier(t, y) = Earlier(t, ev) \cup {ev}
         /\ LinkOf(Earlier(t, y)) = ev.payload_hash
<1>1. ev \in t /\ y.run = ev.run /\ ev \notin Earlier(t, ev)
      /\ Earlier(t, ev) \subseteq Earlier(t, y)
  BY EarlierStrict
<1>2. \A o \in Earlier(t, y) : o = ev \/ o \in Earlier(t, ev)
  <2> SUFFICES ASSUME NEW o \in Earlier(t, y), o # ev PROVE o \in Earlier(t, ev)
    OBVIOUS
  <2>1. o \in t /\ o.run = y.run
    BY DEF Earlier
  <2> QED BY <1>1, <2>1, EarlierTotal
<1>3. Earlier(t, y) = Earlier(t, ev) \cup {ev}
  BY <1>1, <1>2
<1> DEFINE E == Earlier(t, y)
           last == GetLastAuditEvent(E)
<1>4. \A o \in E : o = ev \/ Before(o.id, ev.id)
  BY <1>2 DEF Earlier
<1>5. ev \in E
  OBVIOUS
<1>6. last \in E /\ \A o \in E : o = last \/ Before(o.id, last.id)
  BY <1>4, <1>5 DEF GetLastAuditEvent
<1>7. last = ev
  <2>1. last.id \in Ulid /\ ev.id \in Ulid
    BY <1>6 DEF Earlier, Ordered, Event
  <2> QED BY <1>4, <1>5, <1>6, <2>1, BeforeIsStrict
<1>8. LinkOf(E) = ev.payload_hash
  BY <1>5, <1>7 DEF LinkOf
<1> QED BY <1>3, <1>8

LEMMA GapIsLocated ==
  ASSUME NEW t, Ordered(t), NEW ev \in t,
         LinkOf(Earlier(t, ev)) # ev.payload_hash
  PROVE  LET after == {o \in EventsOf(t, ev.run) : ev \in Earlier(t, o)}
         IN  VerifyRun(t \ {ev}, ev.run) =
               {o \in after : Earlier(t, o) \cap after = {}}
<1> DEFINE after == {o \in EventsOf(t, ev.run) : ev \in Earlier(t, o)}
           u == t \ {ev}
           first == {o \in after : Earlier(t, o) \cap after = {}}
<1>1. \A o \in t : ev \notin Earlier(t, o) =>
        (EventVerifies(u, o) /\ Earlier(u, o) = Earlier(t, o))
  <2> SUFFICES ASSUME NEW o \in t, ev \notin Earlier(t, o)
               PROVE  EventVerifies(u, o) /\ Earlier(u, o) = Earlier(t, o)
    OBVIOUS
  <2>1. Earlier(u, o) = Earlier(t, o)
    BY DEF Earlier
  <2> QED BY <2>1, SameEarlierSameVerdict DEF Ordered
<1>2. \A y \in t : ev \in Earlier(t, y) =>
        (y \in after /\ \A o \in Earlier(t, y) : o \in t /\ o.run = ev.run)
  BY DEF EventsOf, Earlier
<1>3. \A y \in first : \A o \in Earlier(t, y) : ev \notin Earlier(t, o)
  BY <1>2, EarlierStrict DEF EventsOf, Earlier
<1>4. \A y \in first : /\ ~EventVerifies(u, y)
                       /\ \A o \in Earlier(u, y) : EventVerifies(u, o)
                       /\ y \in u /\ y.run = ev.run
  <2> SUFFICES ASSUME NEW y \in first
               PROVE  /\ ~EventVerifies(u, y)
                      /\ \A o \in Earlier(u, y) : EventVerifies(u, o)
                      /\ y \in u /\ y.run = ev.run
    OBVIOUS
  <2>1. y \in t /\ ev \in Earlier(t, y) /\ y.run = ev.run
    BY DEF EventsOf
  <2>2. ev \notin Earlier(t, ev)
    BY <2>1, EarlierStrict
  <2>3. /\ Earlier(t, y) = Earlier(t, ev) \cup {ev}
        /\ LinkOf(Earlier(t, y)) = ev.payload_hash
    BY <1>3, <2>1, BeforeTheFirst
  <2>4. Earlier(u, y) = Earlier(t, y) \ {ev}
    BY DEF Earlier
  <2>5. Earlier(u, y) = Earlier(t, ev)
    BY <2>2, <2>3, <2>4
  <2>6. y.prev_hash = ev.payload_hash
    BY <2>1, <2>3 DEF Ordered, EventVerifies
  <2>7. ~EventVerifies(u, y)
    BY <2>5, <2>6 DEF EventVerifies
  <2>8. \A o \in Earlier(u, y) : EventVerifies(u, o)
    BY <1>1, <1>2, <1>3, <2>1, <2>4
  <2> QED BY <2>1, <2>2, <2>7, <2>8
<1>5. first \subseteq VerifyRun(u, ev.run)
  BY <1>4 DEF VerifyRun, EventsOf
<1>6. ASSUME NEW x \in VerifyRun(u, ev.run) PROVE x \in first
  <2>1. /\ x \in t /\ x # ev /\ x.run = ev.run /\ ~EventVerifies(u, x)
        /\ \A o \in Earlier(u, x) : EventVerifies(u, o)
    BY <1>6 DEF VerifyRun, EventsOf
  <2>2. ev \in Earlier(t, x)
    BY <1>1, <2>1
  <2>3. PICK y \in t : /\ ev \in Earlier(t, y)
                       /\ y = x \/ y \in Earlier(t, x)
                       /\ \A o \in Earlier(t, y) : ev \notin Earlier(t, o)
    BY <2>1, <2>2, FirstAfter
  <2>4. y \in first
    BY <1>2, <2>3
  <2>5. CASE y = x
    BY <2>4, <2>5
  <2>6. CASE y \in Earlier(t, x)
    <3>1. y # ev
      BY <2>3, EarlierStrict
    <3>2. y \in Earlier(u, x)
      BY <2>6, <3>1 DEF Earlier
    <3> QED BY <1>4, <2>1, <2>4, <3>2
  <2> QED BY <2>3, <2>5, <2>6
<1>7. VerifyRun(u, ev.run) = first
  BY <1>5, <1>6
<1> QED BY <1>7

\* A payload edited in the database is found in its own row, a deleted row at
\* the one that follows it, for every table Emit can have written (VerifyRun).
THEOREM DamageIsLocated == ASSUME OneRun PROVE Spec => []CorruptionIsLocated
<1>1. IInv /\ IsFiniteSet(table) => Ordered(table)
  BY DEF IInv, TypeInv, TypeOK, PrimaryKey, Sound, Ordered
<1>2. Ordered(table) => CorruptionIsLocated
  <2> SUFFICES ASSUME Ordered(table), NEW ev \in table
               PROVE  /\ \A p \in Payloads \ {ev.payload} :
                           LET edited == [ev EXCEPT !.payload = p]
                           IN  VerifyRun((table \ {ev}) \cup {edited}, ev.run) = {edited}
                      /\ LinkOf(Earlier(table, ev)) # ev.payload_hash =>
                           LET after == {o \in EventsOf(table, ev.run) :
                                           ev \in Earlier(table, o)}
                           IN  VerifyRun(table \ {ev}, ev.run) =
                                 {o \in after : Earlier(table, o) \cap after = {}}
    BY Zenon DEF CorruptionIsLocated
  <2>1. ASSUME NEW p \in Payloads \ {ev.payload}
        PROVE  LET edited == [ev EXCEPT !.payload = p]
               IN  VerifyRun((table \ {ev}) \cup {edited}, ev.run) = {edited}
    BY EditIsLocated, Zenon
  <2>2. ASSUME LinkOf(Earlier(table, ev)) # ev.payload_hash
        PROVE  LET after == {o \in EventsOf(table, ev.run) :
                               ev \in Earlier(table, o)}
               IN  VerifyRun(table \ {ev}, ev.run) =
                     {o \in after : Earlier(table, o) \cap after = {}}
    BY <2>2, GapIsLocated, Zenon
  <2> QED BY <2>1, <2>2, Zenon
<1> QED BY <1>1, <1>2, ChainInductive, TableFinite, PTL

-----------------------------------------------------------------------------
(* The table is the log Emit promises.                                     *)

LEMMA NumbersOfEvents ==
  ASSUME NEW t, Ordered(t), NEW run
  PROVE  /\ IsFiniteSet(EventsOf(t, run)) /\ Cardinality(EventsOf(t, run)) \in Nat
         /\ \A ev \in EventsOf(t, run) :
              /\ Cardinality(Earlier(t, ev)) \in Nat
              /\ Cardinality(Earlier(t, ev)) < Cardinality(EventsOf(t, run))
<1>1. IsFiniteSet(t) /\ EventsOf(t, run) \in SUBSET t
  BY DEF Ordered, EventsOf
<1>2. IsFiniteSet(EventsOf(t, run)) /\ Cardinality(EventsOf(t, run)) \in Nat
  BY <1>1, FS_Subset, FS_CardinalityType
<1>3. ASSUME NEW ev \in EventsOf(t, run)
      PROVE  /\ Cardinality(Earlier(t, ev)) \in Nat
             /\ Cardinality(Earlier(t, ev)) < Cardinality(EventsOf(t, run))
  <2>1. ev \in t /\ ev.run = run /\ ev.id \in Ulid
    BY <1>1 DEF EventsOf, Ordered, Event
  <2>2. Earlier(t, ev) \in SUBSET EventsOf(t, run)
    BY <2>1 DEF Earlier, EventsOf
  <2>3. ev \notin Earlier(t, ev)
    BY <2>1, BeforeIsStrict DEF Earlier
  <2>4. /\ IsFiniteSet(Earlier(t, ev))
        /\ Cardinality(Earlier(t, ev)) =< Cardinality(EventsOf(t, run))
        /\ Cardinality(EventsOf(t, run)) = Cardinality(Earlier(t, ev)) =>
             EventsOf(t, run) = Earlier(t, ev)
    BY <1>2, <2>2, FS_Subset, Zenon
  <2>5. Cardinality(Earlier(t, ev)) \in Nat
    BY <2>4, FS_CardinalityType
  <2>6. Cardinality(Earlier(t, ev)) # Cardinality(EventsOf(t, run))
    BY <1>3, <2>3, <2>4
  <2> QED BY <1>2, <2>4, <2>5, <2>6
<1> QED BY <1>2, <1>3

\* Appending behind all others: the numbers of the older events stay, and the
\* new event has the next one.
LEMMA NthAfterAppend ==
  ASSUME NEW t, Ordered(t), NEW new \in Event,
         \A ev \in t : Before(ev.id, new.id),
         NEW run, NEW size, size = Cardinality(EventsOf(t, run)),
         NEW u, u = t \cup {new}
  PROVE  /\ \A n \in 1..size : Nth(u, run, n) = Nth(t, run, n)
         /\ run # new.run => Cardinality(EventsOf(u, run)) = size
         /\ run = new.run => Cardinality(EventsOf(u, run)) = size + 1
         /\ run = new.run => Nth(u, run, size + 1) = {new}
<1>1. new \notin t /\ new.id \in Ulid /\ ~Before(new.id, new.id) /\ t \in SUBSET Event
      /\ \A o \in t : o.id \in Ulid
  BY BeforeIsStrict DEF Ordered, Event
<1>2. \A o \in t : Earlier(u, o) = Earlier(t, o)
  BY <1>1, BeforeIsStrict DEF Earlier
<1>3. Earlier(u, new) = EventsOf(t, new.run)
  BY <1>1, NewestFollowsAll
<1>4. size \in Nat /\ IsFiniteSet(EventsOf(t, run))
      /\ \A ev \in EventsOf(t, run) : /\ Cardinality(Earlier(t, ev)) \in Nat
                                     /\ Cardinality(Earlier(t, ev)) < size
  BY NumbersOfEvents
<1>5. CASE run # new.run
  <2>1. EventsOf(u, run) = EventsOf(t, run)
    BY <1>5 DEF EventsOf
  <2>2. \A n : Nth(u, run, n) = Nth(t, run, n)
    BY <1>2, <2>1 DEF Nth, EventsOf
  <2> QED BY <1>5, <2>1, <2>2
<1>6. CASE run = new.run
  <2>1. EventsOf(u, run) = EventsOf(t, run) \cup {new} /\ new \notin EventsOf(t, run)
    BY <1>1, <1>6 DEF EventsOf
  <2>2. Cardinality(EventsOf(u, run)) = size + 1
    BY <1>4, <2>1, FS_AddElement
  <2>3. Cardinality(Earlier(u, new)) = size
    BY <1>3, <1>6
  <2>4. \A ev \in EventsOf(t, run) : Earlier(u, ev) = Earlier(t, ev)
    BY <1>2 DEF EventsOf
  <2>5. ASSUME NEW n \in 1..size PROVE Nth(u, run, n) = Nth(t, run, n)
    <3>1. size # n - 1
      BY <1>4
    <3>2. Nth(u, run, n) = {ev \in EventsOf(t, run) : Cardinality(Earlier(u, ev)) = n - 1}
      BY <2>1, <2>3, <3>1 DEF Nth
    <3> QED BY <2>4, <3>2 DEF Nth
  <2>6. Nth(u, run, size + 1) = {new}
    <3>1. (size + 1) - 1 = size
      BY <1>4
    <3>2. \A ev \in EventsOf(t, run) : Cardinality(Earlier(u, ev)) # size
      BY <1>4, <2>4
    <3> QED BY <2>1, <2>3, <3>1, <3>2 DEF Nth
  <2> QED BY <1>6, <2>2, <2>5, <2>6
<1> QED BY <1>5, <1>6

LEMMA LogAfterAppend ==
  ASSUME NEW t, Ordered(t), NEW new \in Event,
         \A ev \in t : Before(ev.id, new.id),
         NEW run, NEW u, u = t \cup {new}
  PROVE  /\ run # new.run => LogOf(u, run) = LogOf(t, run)
         /\ run = new.run => LogOf(u, run) = Append(LogOf(t, run), new.payload)
<1> DEFINE size == Cardinality(EventsOf(t, run))
<1>1. size \in Nat
  BY NumbersOfEvents
<1>0. /\ \A n \in 1..size : Nth(u, run, n) = Nth(t, run, n)
      /\ run # new.run => Cardinality(EventsOf(u, run)) = size
      /\ run = new.run => Cardinality(EventsOf(u, run)) = size + 1
      /\ run = new.run => Nth(u, run, size + 1) = {new}
  <2>1. size = Cardinality(EventsOf(t, run))
    OBVIOUS
  <2> HIDE DEF size
  <2> QED BY <2>1, NthAfterAppend
<1>2. \A n \in 1..size : PayloadOf(Nth(u, run, n)) = PayloadOf(Nth(t, run, n))
  BY <1>0
<1>3. CASE run # new.run
  <2>1. Cardinality(EventsOf(u, run)) = size
    BY <1>0, <1>3
  <2>2. LogOf(u, run) = [n \in 1..size |-> PayloadOf(Nth(u, run, n))]
    BY <2>1 DEF LogOf
  <2>3. LogOf(t, run) = [n \in 1..size |-> PayloadOf(Nth(t, run, n))]
    BY DEF LogOf
  <2>4. LogOf(u, run) = LogOf(t, run)
    BY <1>2, <2>2, <2>3
  <2> QED BY <1>3, <2>4
<1>4. CASE run = new.run
  <2>1. Cardinality(EventsOf(u, run)) = size + 1 /\ Nth(u, run, size + 1) = {new}
    BY <1>0, <1>4
  <2>2. PayloadOf(Nth(u, run, size + 1)) = new.payload
    <3>1. \A ev : ev \in {new} <=> ev = new
      OBVIOUS
    <3>2. (CHOOSE ev \in {new} : TRUE) = new
      BY <3>1
    <3> QED BY <2>1, <3>2 DEF PayloadOf
  <2> DEFINE old == LogOf(t, run)
             now == LogOf(u, run)
  <2>3. old = [n \in 1..size |-> PayloadOf(Nth(t, run, n))]
    BY DEF LogOf
  <2>4. now = [n \in 1..size + 1 |-> PayloadOf(Nth(u, run, n))]
    BY <2>1 DEF LogOf
  <2>5. Len(old) = size /\ old \in Seq({PayloadOf(Nth(t, run, n)) : n \in 1..size})
    BY <1>1, <2>3
  <2>6. Append(old, new.payload)
          = [n \in 1..size + 1 |-> IF n = size + 1 THEN new.payload ELSE old[n]]
    BY <1>1, <2>3, <2>5
  <2>7. \A n \in 1..size + 1 :
          PayloadOf(Nth(u, run, n)) = IF n = size + 1 THEN new.payload ELSE old[n]
    <3> SUFFICES ASSUME NEW n \in 1..size + 1
                 PROVE  PayloadOf(Nth(u, run, n))
                          = IF n = size + 1 THEN new.payload ELSE old[n]
      OBVIOUS
    <3>1. CASE n = size + 1
      BY <2>2, <3>1
    <3>2. CASE n # size + 1
      <4>1. n \in 1..size
        BY <1>1, <3>2
      <4> QED BY <1>2, <2>3, <3>2, <4>1
    <3> QED BY <3>1, <3>2
  <2> QED BY <1>4, <2>4, <2>6, <2>7
<1> QED BY <1>3, <1>4

\* Steps of Emit between its call, its insertion and its return.
LEMMA InsideACall ==
  ASSUME UNCHANGED table,
         \A f \in Emitters :
           /\ pc'[f] = "idle" <=> pc[f] = "idle"
           /\ local'[f].run = local[f].run /\ local'[f].payload = local[f].payload
           /\ local'[f].ok = local[f].ok /\ local'[f].written = local[f].written
  PROVE  UNCHANGED Promise!audit
<1>1. UNCHANGED Asked
  BY DEF Asked
<1>2. UNCHANGED Added
  BY DEF Added
<1>3. UNCHANGED Nilled
  BY DEF Nilled
<1>4. UNCHANGED Logs
  BY DEF Logs
<1> QED BY <1>1, <1>2, <1>3, <1>4 DEF Promise!audit

LEMMA CallIsAsk ==
  ASSUME IInv, NEW e \in Emitters, Call(e)
  PROVE  Promise!Ask(e)
<1>0. TypeOK
  BY DEF IInv, TypeInv
<1>1. PICK r \in Runs, p \in Payloads :
        Let(e, [local[e] EXCEPT !.run = r, !.payload = p,
                                !.ok = FALSE, !.written = FALSE])
  BY DEF Call
<1>2. local'[e] = [local[e] EXCEPT !.run = r, !.payload = p,
                                   !.ok = FALSE, !.written = FALSE]
  BY <1>0, <1>1 DEF TypeOK, Let
<1>3. /\ local'[e].run = r /\ local'[e].payload = p
      /\ ~local'[e].ok /\ ~local'[e].written
  BY <1>0, <1>2 DEF TypeOK, Frame
<1>4. \A f \in Emitters \ {e} : local'[f] = local[f]
  BY <1>0, <1>1 DEF TypeOK, Let
<1>5. /\ pc[e] = "idle" /\ pc'[e] = "lock" /\ UNCHANGED table
      /\ \A f \in Emitters \ {e} : pc'[f] = pc[f]
  BY <1>0, Jumped DEF Call, At
<1>6. Asked[e] = <<>>
  BY <1>5 DEF Asked
<1>7. Asked' = [Asked EXCEPT ![e] = <<r, p>>]
  BY <1>3, <1>4, <1>5 DEF Asked
<1>8. Asked' \in {[Asked EXCEPT ![e] = call] : call \in Runs \X Payloads}
  BY <1>7
<1>9. Nilled' = Nilled \ {e}
  BY <1>3, <1>4, <1>5 DEF Nilled
<1>10. Added' = Added
  BY <1>3, <1>4, <1>5 DEF Added
<1>11. Logs' = Logs
  BY <1>5 DEF Logs
<1> QED BY <1>6, <1>8, <1>9, <1>10, <1>11 DEF Promise!Ask

LEMMA UnlockIsAnswer ==
  ASSUME IInv, NEW e \in Emitters, Unlock(e)
  PROVE  Promise!Answer(e, local[e].ok)
<1>0. TypeOK /\ Pending
  BY DEF IInv, TypeInv
<1>1. /\ pc[e] = "unlock" /\ pc'[e] = "idle" /\ UNCHANGED <<table, local>>
      /\ \A f \in Emitters \ {e} : pc'[f] = pc[f]
  BY <1>0, Jumped DEF Unlock, At
<1>2. Asked[e] # <<>>
  BY <1>1 DEF Asked
<1>3. local[e].ok => e \in Added
  BY <1>0, <1>1 DEF Pending, Added
<1>4. Asked' = [Asked EXCEPT ![e] = <<>>]
  BY <1>1 DEF Asked
<1>5. Added' = Added \ {e}
  BY <1>1 DEF Added
<1>6. Nilled' = IF local[e].ok THEN Nilled \cup {e} ELSE Nilled
  <2>1. CASE local[e].ok
    BY <1>1, <2>1 DEF Nilled
  <2>2. CASE ~local[e].ok
    BY <1>1, <2>2 DEF Nilled
  <2> QED BY <2>1, <2>2
<1>7. Logs' = Logs
  BY <1>1 DEF Logs
<1> QED BY <1>2, <1>3, <1>4, <1>5, <1>6, <1>7 DEF Promise!Answer

LEMMA InsertIsAdd ==
  ASSUME OneRun, IInv, Ordered(table), NEW e \in Emitters, Insert(e),
         ~UNCHANGED <<table, local>>
  PROVE  Promise!Add(e)
<1>0. TypeOK /\ Pending /\ Monotonic
  BY DEF IInv, TypeInv
<1>1. PICK nil \in BOOLEAN :
        /\ Let(e, [local[e] EXCEPT !.ok = nil, !.written = TRUE])
        /\ table' = table \cup {NewEvent(e)}
  BY DEF Insert
<1>2. local'[e] = [local[e] EXCEPT !.ok = nil, !.written = TRUE]
      /\ \A f \in Emitters \ {e} : local'[f] = local[f]
  BY <1>0, <1>1 DEF TypeOK, Let
<1>3. /\ local'[e].run = local[e].run /\ local'[e].payload = local[e].payload
      /\ local'[e].written
  BY <1>0, <1>2 DEF TypeOK, Frame
<1>4. /\ pc[e] = "insert" /\ pc'[e] = "unlock"
      /\ \A f \in Emitters \ {e} : pc'[f] = pc[f]
  BY <1>0, Jumped DEF Insert, At
<1>5. ~local[e].written
  BY <1>0, <1>4 DEF Pending
<1>6. Asked[e] = <<local[e].run, local[e].payload>> /\ Asked[e] # <<>>
  BY <1>4 DEF Asked
<1>7. e \notin Added /\ Added' = Added \cup {e}
  BY <1>2, <1>3, <1>4, <1>5 DEF Added
<1>8. Asked' = Asked
  BY <1>2, <1>3, <1>4 DEF Asked
<1>9. Nilled' = Nilled
  BY <1>2, <1>4 DEF Nilled
<1>10. Logs' = [Logs EXCEPT ![local[e].run] = Append(@, local[e].payload)]
  <2> DEFINE new == NewEvent(e)
  <2>1. /\ new \in Event /\ new.run = local[e].run
        /\ new.payload = local[e].payload /\ new.id = local[e].id
    BY <1>0, NewEventType DEF NewEvent, Run
  <2>2. \A ev \in table : Before(ev.id, new.id)
    BY <1>0, <1>4, <2>1 DEF Monotonic
  <2>3. table' = table \cup {new}
    BY <1>1
  <2> HIDE DEF new
  <2>4. ASSUME NEW run \in Runs
        PROVE  LogOf(table', run) = IF run = local[e].run
                                    THEN Append(LogOf(table, run), local[e].payload)
                                    ELSE LogOf(table, run)
    BY <2>1, <2>2, <2>3, LogAfterAppend
  <2> QED BY <2>4 DEF Logs
<1>11. Logs' = [Logs EXCEPT ![Asked[e][1]] = Append(@, Asked[e][2])]
  BY <1>6, <1>10
<1> QED BY <1>6, <1>7, <1>8, <1>9, <1>11 DEF Promise!Add

LEMMA StepIsPromised ==
  OneRun /\ IInv /\ Ordered(table) /\ [Next]_vars => [Promise!Next]_(Promise!audit)
<1> SUFFICES ASSUME OneRun, IInv, Ordered(table), [Next]_vars
             PROVE  Promise!Next \/ UNCHANGED Promise!audit
  OBVIOUS
<1>0. TypeOK
  BY DEF IInv, TypeInv
<1>1. CASE UNCHANGED vars \/ Tick
  BY <1>1, InsideACall DEF vars, Tick
<1>2. ASSUME NEW e \in Emitters, Call(e) PROVE Promise!Next
  BY <1>2, CallIsAsk DEF Promise!Next
<1>3. ASSUME NEW e \in Emitters, Unlock(e) PROVE Promise!Next
  <2>1. local[e].ok \in BOOLEAN
    BY <1>0 DEF TypeOK, Frame
  <2> QED BY <1>3, <2>1, UnlockIsAnswer DEF Promise!Next
<1>4. ASSUME NEW e \in Emitters, pc[e] # "idle", NEW l, l # "idle", Goto(e, l),
             UNCHANGED table, NEW v, Let(e, v), v.run = local[e].run,
             v.payload = local[e].payload, v.ok = local[e].ok,
             v.written = local[e].written
      PROVE  UNCHANGED Promise!audit
  BY <1>0, <1>4, InsideACall, Assigned, Jumped
<1>5. ASSUME NEW e \in Emitters, pc[e] # "idle", NEW l, l # "idle", Goto(e, l),
             UNCHANGED <<table, local>>
      PROVE  UNCHANGED Promise!audit
  BY <1>0, <1>5, InsideACall, Jumped
<1>6. ASSUME NEW e \in Emitters, Lock(e) PROVE UNCHANGED Promise!audit
  BY <1>5, <1>6 DEF Lock, At
<1>7. ASSUME NEW e \in Emitters, LoadPrev(e) PROVE UNCHANGED Promise!audit
  <2>1. CASE UNCHANGED local /\ Goto(e, "unlock")
    BY <1>5, <1>7, <2>1 DEF LoadPrev, At
  <2>2. PICK v : v = [local[e] EXCEPT !.prev = LinkOf(EventsOf(table, Run(e)))]
    OBVIOUS
  <2>3. /\ v.run = local[e].run /\ v.payload = local[e].payload
        /\ v.ok = local[e].ok /\ v.written = local[e].written
    BY <1>0, <2>2 DEF TypeOK, Frame
  <2>4. CASE Let(e, v) /\ Goto(e, "build")
    BY <1>4, <1>7, <2>3, <2>4 DEF LoadPrev, At
  <2> QED BY <1>7, <2>1, <2>2, <2>4 DEF LoadPrev
<1>8. ASSUME NEW e \in Emitters, Build(e) PROVE UNCHANGED Promise!audit
  <2>1. CASE UNCHANGED local /\ Goto(e, "unlock")
    BY <1>5, <1>8, <2>1 DEF Build, At
  <2>2. PICK v : v = [local[e] EXCEPT !.now = clock]
    OBVIOUS
  <2>3. /\ v.run = local[e].run /\ v.payload = local[e].payload
        /\ v.ok = local[e].ok /\ v.written = local[e].written
    BY <1>0, <2>2 DEF TypeOK, Frame
  <2>4. CASE Let(e, v) /\ Goto(e, "make")
    BY <1>4, <1>8, <2>3, <2>4 DEF Build, At
  <2> QED BY <1>8, <2>1, <2>2, <2>4 DEF Build
<1>9. ASSUME NEW e \in Emitters, Make(e) PROVE UNCHANGED Promise!audit
  <2>1. PICK v : v = [local[e] EXCEPT !.id = mono']
    OBVIOUS
  <2>2. /\ v.run = local[e].run /\ v.payload = local[e].payload
        /\ v.ok = local[e].ok /\ v.written = local[e].written
    BY <1>0, <2>1 DEF TypeOK, Frame
  <2> QED BY <1>4, <1>9, <2>1, <2>2 DEF Make, At
<1>10. ASSUME NEW e \in Emitters, Insert(e) PROVE Promise!Next \/ UNCHANGED Promise!audit
  <2>1. CASE UNCHANGED <<table, local>>
    BY <1>5, <1>10, <2>1 DEF Insert, At
  <2>2. CASE ~UNCHANGED <<table, local>>
    BY <1>10, <2>2, InsertIsAdd DEF Promise!Next
  <2> QED BY <2>1, <2>2
<1> QED BY <1>1, <1>2, <1>3, <1>6, <1>7, <1>8, <1>9, <1>10 DEF Next, Step

\* Emit over the table implements the append-only log it promises: whatever
\* calls overlap and fail, each appends its payload at the end of its run's log
\* at most once, at one moment before it returns, and returns nil only if it
\* has (Emit, InsertAuditEvent, GetLastAuditEvent).
THEOREM AuditLogImplemented == ASSUME OneRun PROVE Spec => ImplementsAuditLog
<1>1. Init => Promise!Init
  <2> SUFFICES ASSUME Init PROVE Promise!Init
    OBVIOUS
  <2>1. \A run : EventsOf(table, run) = {}
    BY DEF Init, EventsOf
  <2>2. \A run : LogOf(table, run) = <<>>
    <3> SUFFICES ASSUME NEW run PROVE LogOf(table, run) = <<>>
      OBVIOUS
    <3>1. Cardinality(EventsOf(table, run)) = 0
      BY <2>1, FS_EmptySet
    <3>2. LogOf(table, run) = [n \in 1..0 |-> PayloadOf(Nth(table, run, n))]
      BY <3>1 DEF LogOf
    <3> QED BY <3>2
  <2>3. \A e \in Emitters : pc[e] = "idle" /\ ~local[e].ok
    BY DEF Init
  <2>4. Logs = [r \in Runs |-> <<>>]
    BY <2>2 DEF Logs
  <2>5. Asked = [e \in Emitters |-> <<>>]
    BY <2>3 DEF Asked
  <2>6. Added = {} /\ Nilled = {}
    BY <2>3 DEF Added, Nilled
  <2> QED BY <2>4, <2>5, <2>6 DEF Promise!Init
<1>2. IInv /\ IsFiniteSet(table) => Ordered(table)
  BY DEF IInv, TypeInv, TypeOK, PrimaryKey, Sound, Ordered
<1>3. OneRun /\ IInv /\ IsFiniteSet(table) /\ [Next]_vars
        => [Promise!Next]_(Promise!audit)
  BY <1>2, StepIsPromised
<1> QED BY <1>1, <1>3, ChainInductive, TableFinite, PTL
        DEF Spec, ImplementsAuditLog, Promise!Spec
=============================================================================
