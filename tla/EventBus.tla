------------------------------ MODULE EventBus ------------------------------
(***************************************************************************)
(* server.EventBus and the SSE handlers that read from it.  A publisher    *)
(* copies the subscriber list of a run under the read lock and sends to    *)
(* each channel after releasing it, dropping what does not fit; a handler  *)
(* subscribes, streams until its request's context is done, and            *)
(* unsubscribes, which closes the channel.  net/http cancels that context  *)
(* when the client disconnects, and also when ReadTimeout has passed since *)
(* the request came: its background read then fails.                       *)
(*                                                                         *)
(* The critical sections of the bus do not block, so each is one step.  A  *)
(* heartbeat changes nothing here and is left out.  A send on a closed     *)
(* channel panics, which ends the process.  Publish has no caller yet; its *)
(* publishers are goroutines of their own, which nothing recovers.         *)
(***************************************************************************)
EXTENDS Integers, Sequences, FiniteSets, SequencesExt, FiniteSetsExt

CONSTANTS Publishers,
          Handlers,       \* SSE requests; each makes one channel, named after it
          Runs,
          subBufferSize,
          MaxMessages     \* bound: messages published

ASSUME EventBusAssumption ==
  /\ Runs # {}
  /\ subBufferSize \in Nat \ {0}
  /\ MaxMessages \in Nat

VARIABLES
  subscribers,  \* run |-> the channels subscribed to it; <<>> when no map entry
  buffer,       \* channel |-> payloads sent and not yet received
  open,         \* channels made and not closed
  stream,       \* handler |-> [at, run]
  gone,         \* handlers whose client has disconnected, until the select leaves
  received,     \* handler |-> payloads written to its client, until the select leaves
  publish,      \* publisher |-> [at, run, n, subs]: the call in progress
  owed,         \* history: <<channel, payload>> copied by Publish, not yet tried
  lost,         \* history: open channels a payload was dropped for; it starts
                \* again, as received does, when the select leaves
  process       \* "up", or how it ended: here, only in a panic

bus     == <<subscribers, buffer, open>>
clients == <<stream, gone, received>>
calls   == <<publish, owed, lost>>
vars    == <<bus, clients, calls, process>>

\* A payload is told apart by who published it, as which of its messages.
Payload == [from : Publishers, n : Nat, run : Runs]

Message(p) == [from |-> p, n |-> publish[p].n, run |-> publish[p].run]

\* Before it subscribes a handler, and between two calls a publisher, is at no
\* run in particular.
NoRun == CHOOSE r \in Runs : TRUE

Init ==
  /\ subscribers = [r \in Runs |-> <<>>]
  /\ buffer = [h \in Handlers |-> <<>>]
  /\ open = {}
  /\ stream = [h \in Handlers |-> [at |-> "start", run |-> NoRun]]
  /\ gone = {}
  /\ received = [h \in Handlers |-> <<>>]
  /\ publish = [p \in Publishers |-> [at |-> "idle", run |-> NoRun, n |-> 0, subs |-> <<>>]]
  /\ owed = {} /\ lost = {}
  /\ process = "up"

-----------------------------------------------------------------------------
(* The SSE handler, StreamRun.                                             *)

\* Nothing runs once the process has ended.
Alive == process = "up" /\ UNCHANGED process

Enter(h, l) == stream' = [stream EXCEPT ![h].at = l]

Subscribe(h) ==
  /\ stream[h].at = "start"
  /\ \E r \in Runs : /\ stream' = [stream EXCEPT ![h] = [at |-> "select", run |-> r]]
                    /\ subscribers' = [subscribers EXCEPT ![r] = Append(@, h)]
  /\ open' = open \cup {h}
  /\ UNCHANGED <<buffer, gone, received, calls>> /\ Alive

Receive(h) ==
  /\ stream[h].at = "select" /\ buffer[h] # <<>>
  /\ received' = [received EXCEPT ![h] = Append(@, Head(buffer[h]))]
  /\ buffer' = [buffer EXCEPT ![h] = Tail(@)]
  /\ UNCHANGED <<subscribers, open, stream, gone, calls>> /\ Alive

\* The select loop is over; of its client nothing is followed any more.
LeaveSelect(h) ==
  /\ stream[h].at = "select" /\ Enter(h, "unsub")
  /\ received' = [received EXCEPT ![h] = <<>>]
  /\ gone' = gone \ {h} /\ lost' = lost \ {h}
  /\ UNCHANGED <<bus, publish, owed>> /\ Alive

\* Mutant of Done: the handler ranges over the channel, which only its own
\* unsub would close.
DoneOnClose(h) == h \notin open /\ LeaveSelect(h)

\* r.Context() is done because the client is gone: the select may choose this
\* case or another payload.
Done(h) == h \in gone /\ LeaveSelect(h)

\* It is done because ReadTimeout has passed, whoever is still there.  When it
\* passed is not followed: nobody can tell before the select looks.
Overstay(h) == LeaveSelect(h)

\* Mutant of Unsubscribe: the channel is closed but stays listed.
UnsubscribeListed(h) ==
  /\ stream[h].at = "unsub" /\ Enter(h, "returned")
  /\ open' = open \ {h} /\ buffer' = [buffer EXCEPT ![h] = <<>>]
  /\ lost' = lost \ {h}
  /\ UNCHANGED <<subscribers, gone, received, publish, owed>> /\ Alive

\* The deferred unsub: off the list and closed, in one critical section; nobody
\* reads the channel any more.
Unsubscribe(h) ==
  /\ stream[h].at = "unsub" /\ Enter(h, "returned")
  /\ \E i \in DOMAIN subscribers[stream[h].run] :
       /\ subscribers[stream[h].run][i] = h
       /\ subscribers' = [subscribers EXCEPT ![stream[h].run] = RemoveAt(@, i)]
  /\ open' = open \ {h} /\ buffer' = [buffer EXCEPT ![h] = <<>>]
  /\ lost' = lost \ {h}
  /\ UNCHANGED <<gone, received, publish, owed>> /\ Alive

Disconnect(h) ==
  /\ h \notin gone /\ gone' = gone \cup {h}
  /\ UNCHANGED <<bus, stream, received, calls>> /\ Alive

-----------------------------------------------------------------------------
(* Publish                                                                 *)

\* Messages published so far.
Published == MapThenSumSet(LAMBDA p : publish[p].n, Publishers)

\* Mutant of Copy: every subscriber of the bus, whatever its run.
CopyAll(p) ==
  /\ publish[p].at = "idle" /\ Published < MaxMessages
  /\ \E r \in Runs :
       LET subs == SetToSeq(UNION {Range(subscribers[s]) : s \in Runs})
           call == [at |-> "send", run |-> r, n |-> publish[p].n + 1, subs |-> subs]
       IN  /\ publish' = [publish EXCEPT ![p] = call]
           /\ owed' = owed \cup
                {<<c, [from |-> p, n |-> call.n, run |-> r]>> : c \in Range(subs)}
  /\ UNCHANGED <<bus, clients, lost>> /\ Alive

\* Under the read lock.
Copy(p) ==
  /\ publish[p].at = "idle" /\ Published < MaxMessages
  /\ \E r \in Runs :
       LET subs == subscribers[r]
           call == [at |-> "send", run |-> r, n |-> publish[p].n + 1, subs |-> subs]
       IN  /\ publish' = [publish EXCEPT ![p] = call]
           /\ owed' = owed \cup
                {<<c, [from |-> p, n |-> call.n, run |-> r]>> : c \in Range(subs)}
  /\ UNCHANGED <<bus, clients, lost>> /\ Alive

\* Mutant of Room: one place of the buffer is never used.
RoomButOne(c) == Len(buffer[c]) < subBufferSize - 1

Room(c) == Len(buffer[c]) < subBufferSize

\* select { case ch <- payload: default: }
Send(p) ==
  LET c == Head(publish[p].subs)
  IN  /\ publish[p].at = "send" /\ publish[p].subs # <<>> /\ c \in open
      /\ \/ /\ Room(c)
            /\ buffer' = [buffer EXCEPT ![c] = Append(@, Message(p))]
            /\ UNCHANGED lost
         \/ /\ ~Room(c)
            /\ lost' = lost \cup {c}
            /\ UNCHANGED buffer
      /\ publish' = [publish EXCEPT ![p].subs = Tail(@)]
      /\ owed' = owed \ {<<c, Message(p)>>}
      /\ UNCHANGED <<subscribers, open, clients>> /\ Alive

\* Mutant of Finish: it returns after the first channel.
FinishEarly(p) ==
  /\ publish[p].at = "send"
  /\ publish' = [publish EXCEPT ![p].at = "idle", ![p].subs = <<>>, ![p].run = NoRun]
  /\ UNCHANGED <<bus, clients, owed, lost>> /\ Alive

Finish(p) ==
  /\ publish[p].at = "send" /\ publish[p].subs = <<>>
  /\ publish' = [publish EXCEPT ![p].at = "idle", ![p].run = NoRun]
  /\ UNCHANGED <<bus, clients, owed, lost>> /\ Alive

\* Both cases of the select: a send on a closed channel panics.
Panic(p) ==
  /\ publish[p].at = "send" /\ publish[p].subs # <<>>
  /\ Head(publish[p].subs) \notin open
  /\ process = "up" /\ process' = "panicked"
  /\ UNCHANGED <<bus, clients, calls>>

-----------------------------------------------------------------------------
Stream(h)   == Subscribe(h) \/ Receive(h) \/ Done(h) \/ Overstay(h) \/ Unsubscribe(h)
Continue(p) == Send(p) \/ Finish(p)

Next ==
  \/ \E h \in Handlers : Stream(h) \/ Disconnect(h)
  \/ \E p \in Publishers : Copy(p) \/ Continue(p) \/ Panic(p)

Spec == Init /\ [][Next]_vars

-----------------------------------------------------------------------------
Listed(r) == Range(subscribers[r])

TypeOK ==
  /\ subscribers \in [Runs -> Seq(Handlers)]
  /\ buffer \in [Handlers -> Seq(Payload)]
  /\ \A h \in Handlers : Len(buffer[h]) =< subBufferSize
  /\ received \in [Handlers -> Seq(Payload)]
  /\ open \subseteq Handlers /\ gone \subseteq Handlers
  /\ stream \in [Handlers -> [at : {"start", "select", "unsub", "returned"},
                              run : Runs]]
  /\ publish \in [Publishers -> [at : {"idle", "send"}, run : Runs, n : Nat,
                                 subs : Seq(Handlers)]]
  /\ owed \subseteq Handlers \X Payload /\ lost \subseteq Handlers
  /\ process \in {"up", "panicked", "killed", "stopped", "failed"}

\* A channel is on the list of its handler's run, once, exactly while it is
\* open, and then its handler is there to unsubscribe it (Subscribe, unsub).
ListedWhileOpen ==
  \A h \in Handlers :
    /\ h \in open <=> stream[h].at \in {"select", "unsub"}
    /\ h \in open <=> h \in Listed(stream[h].run)
    /\ \A r \in Runs : /\ h \in Listed(r) => r = stream[h].run
                       /\ Cardinality({i \in DOMAIN subscribers[r] :
                                         subscribers[r][i] = h}) =< 1

\* What a client gets of one publisher is in the order published and without
\* repetition, and is of the run it asked for, whatever is dropped and whoever
\* else publishes, subscribes or leaves (Publish, StreamRun).
OrderedPerPublisher ==
  \A h \in Handlers :
    LET got == received[h] \o buffer[h]
    IN  /\ \A i, j \in DOMAIN got :
             i < j /\ got[i].from = got[j].from => got[i].n < got[j].n
        /\ \A i \in DOMAIN got : got[i].run = stream[h].run

\* A subscriber that stays subscribed is passed over by no Publish: each
\* payload copied for it reaches it, is dropped because its buffer is full, or
\* is still to be tried by a Publish in progress (Publish copies the list, so
\* one that leaves does not shift it under another).
NothingForgotten ==
  \A d \in owed : d[1] \in open =>
    LET p == d[2].from
    IN  publish[p].at = "send" /\ d[2] = Message(p) /\ d[1] \in Range(publish[p].subs)

\* A payload is dropped only for a subscriber that is really behind: one that has
\* lost any has had as many as its buffer holds.  So the first subBufferSize
\* payloads copied for a stream reach its channel, whoever publishes, comes or
\* goes in between (Publish: "Drops the message ... if a subscriber's buffer is
\* full").
LossNeedsBacklog ==
  \A h \in lost : Len(received[h]) + Len(buffer[h]) >= subBufferSize

\* No subscriber, however slow, holds up a publisher (events_bus.go: "never
\* blocks"); only the end of the process does.
PublishReturns ==
  \A p \in Publishers : publish[p].at = "send" ~> publish[p].at = "idle" \/ process # "up"

\* Subscribers may leave while others publish (sse_test.go: "without panicking
\* and without blocking").
NeverPanics == process # "panicked"
=============================================================================
