----------------------------- MODULE ServeProofs -----------------------------
(***************************************************************************)
(* Safety of Serve, and with it of EventBus, for any number of publishers, *)
(* clients and runs, any buffer size and any number of messages: the       *)
(* subscriber lists, the order of what clients get, that nobody is passed  *)
(* over, and that only those who are behind lose anything.                 *)
(***************************************************************************)
EXTENDS Serve, FiniteSetTheorems, SequenceTheorems, TLAPS

-----------------------------------------------------------------------------
(* The inductive invariant.                                                *)

Got(h) == received[h] \o buffer[h]

\* Where a handler is, its channel is: listed for its run, once, and open.
ListInv ==
  /\ \A h \in Handlers : h \in open <=> stream[h].at \in {"select", "unsub"}
  /\ \A h \in Handlers : stream[h].at \in {"select", "unsub"} =>
       \E i \in DOMAIN subscribers[stream[h].run] : subscribers[stream[h].run][i] = h
  /\ \A r \in Runs : \A i \in DOMAIN subscribers[r] :
       /\ stream[subscribers[r][i]].run = r
       /\ stream[subscribers[r][i]].at \in {"select", "unsub"}
       /\ \A j \in DOMAIN subscribers[r] : subscribers[r][i] = subscribers[r][j] => i = j

\* The copies that publishers hold: each channel once, of a handler that had
\* subscribed to their run.
CopyInv ==
  \A p \in Publishers : \A i \in DOMAIN publish[p].subs :
    /\ publish[p].at = "send"
    /\ stream[publish[p].subs[i]].at # "start"
    /\ stream[publish[p].subs[i]].run = publish[p].run
    /\ \A j \in DOMAIN publish[p].subs : publish[p].subs[i] = publish[p].subs[j] => i = j

\* What a channel has got is older than what is still to be sent to it.
OrderInv ==
  /\ OrderedPerPublisher
  /\ \A h \in Handlers : stream[h].at = "start" => Got(h) = <<>>
  /\ \A h \in Handlers : \A i \in DOMAIN Got(h) : Got(h)[i].n <= publish[Got(h)[i].from].n
  /\ \A p \in Publishers : \A k \in DOMAIN publish[p].subs : \A c \in Handlers :
       c = publish[p].subs[k] =>
         \A i \in DOMAIN Got(c) : Got(c)[i].from = p => Got(c)[i].n < publish[p].n

OwedInv ==
  /\ NothingForgotten
  /\ \A d \in owed : stream[d[1]].at # "start"

Inv == ServeTypeOK /\ ListInv /\ CopyInv /\ OrderInv /\ OwedInv /\ LossNeedsBacklog

-----------------------------------------------------------------------------
(* A step of serve is a step of the bus or leaves it alone.                *)

BusStep == Next \/ IdleBus

LEMMA Steps == [ServeNext]_serveVars => BusStep
<1> SUFFICES ASSUME [ServeNext]_serveVars PROVE BusStep
  OBVIOUS
<1>1. ASSUME NEW h \in Handlers, StreamRun(h) \/ Leave(h) PROVE Next
  BY <1>1 DEF StreamRun, Leave, Next
<1>2. ASSUME NEW p \in Publishers, Publish(p) PROVE Next
  BY <1>2 DEF Publish, Next
<1>3. ASSUME NEW h \in Handlers,
             Accept(h) \/ RefuseHandler(h) \/ Upgrade(h) \/ ReadEnds(h) \/ SocketReturns(h)
      PROVE  IdleBus
  BY <1>3 DEF Accept, RefuseHandler, Upgrade, ReadEnds, SocketReturns
<1>4. CASE \/ Bind \/ BindFails \/ Killed \/ Notify \/ ServerError
           \/ BeginShutdown \/ Drained \/ DrainTimesOut
  BY <1>4 DEF Bind, BindFails, Killed, Notify, ServerError, BeginShutdown, Drained,
     DrainTimesOut, BusStep
<1>5. CASE UNCHANGED serveVars
  BY <1>5 DEF serveVars, vars, IdleBus, BusStep
<1> QED BY <1>1, <1>2, <1>3, <1>4, <1>5 DEF ServeNext, BusStep

LEMMA RunsChosen == NoRun \in Runs
  BY EventBusAssumption DEF NoRun

\* What one removal leaves of a sequence.
LEMMA RemoveAtElements ==
  ASSUME NEW S, NEW s \in Seq(S), NEW i \in DOMAIN s
  PROVE  /\ RemoveAt(s, i) \in Seq(S)
         /\ Len(RemoveAt(s, i)) = Len(s) - 1
         /\ \A j \in 1..(Len(s) - 1) :
              RemoveAt(s, i)[j] = IF j < i THEN s[j] ELSE s[j + 1]
<1> DEFINE a == SubSeq(s, 1, i - 1)
           b == SubSeq(s, i + 1, Len(s))
<1>1. i \in 1..Len(s) /\ Len(s) \in Nat
  OBVIOUS
<1>2. a \in Seq(S) /\ Len(a) = i - 1 /\ \A j \in 1..(i - 1) : a[j] = s[j]
  BY <1>1
<1>3. b \in Seq(S) /\ Len(b) = Len(s) - i /\ \A j \in 1..(Len(s) - i) : b[j] = s[i + j]
  BY <1>1
<1>4. RemoveAt(s, i) = a \o b
  BY DEF RemoveAt
<1> HIDE DEF a, b
<1>5. a \o b \in Seq(S) /\ Len(a \o b) = Len(s) - 1
  BY <1>1, <1>2, <1>3
<1>6. ASSUME NEW j \in 1..(Len(s) - 1)
      PROVE  (a \o b)[j] = IF j < i THEN s[j] ELSE s[j + 1]
  <2>1. CASE j < i
    BY <2>1, <1>1, <1>2, <1>3
  <2>2. CASE j >= i
    <3>1. (a \o b)[j] = b[j - (i - 1)]
      BY SMTT(30), <2>2, <1>1, <1>2, <1>3
    <3>2. j - (i - 1) \in 1..(Len(s) - i)
      BY <2>2, <1>1
    <3>3. b[j - (i - 1)] = s[j + 1]
      BY SMTT(30), <3>2, <1>1, <1>3
    <3>4. ~(j < i)
      BY <2>2, <1>1
    <3> QED BY <3>1, <3>3, <3>4
  <2>3. j < i \/ j >= i
    BY <1>1
  <2> QED BY <2>1, <2>2, <2>3
<1> QED BY <1>4, <1>5, <1>6

-----------------------------------------------------------------------------
(* Type correctness.                                                       *)

LEMMA BusType == TypeOK /\ BusStep /\ process' \in {"up", "panicked", "killed", "stopped", "failed"}
                   => TypeOK'
<1> SUFFICES ASSUME TypeOK, BusStep,
                    process' \in {"up", "panicked", "killed", "stopped", "failed"}
             PROVE  TypeOK'
  OBVIOUS
<1>b. subBufferSize \in Nat \ {0}
  BY EventBusAssumption
<1>1. ASSUME NEW h \in Handlers, Subscribe(h) PROVE TypeOK'
  BY <1>1 DEF TypeOK, Subscribe, calls
<1>2. ASSUME NEW h \in Handlers, Receive(h) PROVE TypeOK'
  <2>1. /\ Head(buffer[h]) \in Payload /\ Tail(buffer[h]) \in Seq(Payload)
        /\ Len(Tail(buffer[h])) =< subBufferSize
    <3>1. buffer[h] \in Seq(Payload) /\ buffer[h] # <<>> /\ Len(buffer[h]) =< subBufferSize
      BY <1>2 DEF TypeOK, Receive
    <3> HIDE DEF Payload
    <3> QED BY <3>1, <1>b
  <2>2. Append(received[h], Head(buffer[h])) \in Seq(Payload)
    <3>1. received[h] \in Seq(Payload)
      BY DEF TypeOK
    <3> HIDE DEF Payload
    <3> QED BY <2>1, <3>1
  <2>3. received' \in [Handlers -> Seq(Payload)]
    BY <1>2, <2>2 DEF TypeOK, Receive
  <2>4. /\ buffer' \in [Handlers -> Seq(Payload)]
        /\ \A c \in Handlers : Len(buffer'[c]) =< subBufferSize
    BY <1>2, <2>1 DEF TypeOK, Receive
  <2> HIDE DEF Payload
  <2> QED BY <1>2, <2>3, <2>4 DEF TypeOK, Receive, Alive, calls
<1>3. ASSUME NEW h \in Handlers, LeaveSelect(h) PROVE TypeOK'
  <2>1. <<>> \in Seq(Payload)
    OBVIOUS
  <2>2. received' \in [Handlers -> Seq(Payload)]
    BY <1>3, <2>1 DEF TypeOK, LeaveSelect
  <2> HIDE DEF Payload
  <2> QED BY ZenonT(40), <1>3, <2>2 DEF TypeOK, LeaveSelect, Enter, bus
<1>4. ASSUME NEW h \in Handlers, Unsubscribe(h) PROVE TypeOK'
  <2> DEFINE r == stream[h].run
  <2>1. PICK i \in DOMAIN subscribers[r] :
          subscribers' = [subscribers EXCEPT ![r] = RemoveAt(@, i)]
    BY <1>4 DEF Unsubscribe
  <2>2. r \in Runs /\ subscribers[r] \in Seq(Handlers)
    BY DEF TypeOK
  <2>3. RemoveAt(subscribers[r], i) \in Seq(Handlers)
    BY <2>2, RemoveAtElements
  <2>4. subscribers' \in [Runs -> Seq(Handlers)]
    BY <2>1, <2>2, <2>3 DEF TypeOK
  <2>5. <<>> \in Seq(Payload) /\ Len(<<>>) =< subBufferSize
    BY <1>b
  <2>6. /\ buffer' = [buffer EXCEPT ![h] = <<>>] /\ lost' = lost \ {h}
        /\ stream' = [stream EXCEPT ![h].at = "returned"] /\ open' = open \ {h}
        /\ UNCHANGED <<gone, received, publish, owed, process>>
    BY <1>4 DEF Unsubscribe, Enter, Alive
  <2>7. /\ buffer' \in [Handlers -> Seq(Payload)] /\ received' \in [Handlers -> Seq(Payload)]
        /\ \A c \in Handlers : Len(buffer'[c]) =< subBufferSize
    BY <2>5, <2>6 DEF TypeOK
  <2> HIDE DEF Payload
  <2>8. /\ stream' \in [Handlers -> [at : {"start", "select", "unsub", "returned"}, run : Runs]]
        /\ open' \subseteq Handlers
    BY <2>6 DEF TypeOK
  <2> QED BY <2>4, <2>6, <2>7, <2>8 DEF TypeOK
<1>5. ASSUME NEW h \in Handlers, Disconnect(h) PROVE TypeOK'
  BY <1>5 DEF TypeOK, Disconnect, bus, calls
<1>6. ASSUME NEW p \in Publishers, Copy(p) PROVE TypeOK'
  <2>1. PICK r \in Runs :
          LET call == [at |-> "send", run |-> r, n |-> publish[p].n + 1, subs |-> subscribers[r]]
          IN  /\ publish' = [publish EXCEPT ![p] = call]
              /\ owed' = owed \cup {<<c, [from |-> p, n |-> call.n, run |-> r]>> :
                                     c \in Range(subscribers[r])}
    BY <1>6 DEF Copy
  <2>2. subscribers[r] \in Seq(Handlers) /\ publish[p].n + 1 \in Nat
    BY DEF TypeOK
  <2>3. Range(subscribers[r]) \subseteq Handlers
    BY <2>2 DEF Range
  <2>4. owed' \subseteq Handlers \X Payload
    BY <2>1, <2>2, <2>3 DEF TypeOK, Payload
  <2> QED BY <1>6, <2>1, <2>2, <2>4 DEF TypeOK, Copy, bus, clients
<1>7. ASSUME NEW p \in Publishers, Send(p) PROVE TypeOK'
  <2> DEFINE c == Head(publish[p].subs)
  <2>1. publish[p].subs \in Seq(Handlers) /\ publish[p].subs # <<>>
    BY <1>7 DEF TypeOK, Send
  <2>2. c \in Handlers /\ Tail(publish[p].subs) \in Seq(Handlers)
    BY <2>1
  <2>3. Message(p) \in Payload
    BY DEF TypeOK, Message, Payload
  <2>4. /\ buffer' \in [Handlers -> Seq(Payload)]
        /\ \A h \in Handlers : Len(buffer'[h]) =< subBufferSize
    <3>1. CASE UNCHANGED buffer
      BY <3>1 DEF TypeOK
    <3>2. CASE Len(buffer[c]) < subBufferSize /\ buffer' = [buffer EXCEPT ![c] = Append(@, Message(p))]
      <4>1. buffer \in [Handlers -> Seq(Payload)] /\ \A h \in Handlers : Len(buffer[h]) =< subBufferSize
        BY DEF TypeOK
      <4> HIDE DEF Payload, c
      <4>2. /\ Append(buffer[c], Message(p)) \in Seq(Payload)
            /\ Len(Append(buffer[c], Message(p))) = Len(buffer[c]) + 1
            /\ Len(buffer[c]) \in Nat
        BY <4>1, <2>2, <2>3
      <4> QED BY <3>2, <4>1, <4>2, <2>2, <1>b
    <3> QED BY <1>7, <3>1, <3>2 DEF Send, Room
  <2> QED BY ZenonT(40), <1>7, <2>2, <2>4 DEF TypeOK, Send, clients
<1>8. ASSUME NEW p \in Publishers, Finish(p) PROVE TypeOK'
  BY ZenonT(40), <1>8, RunsChosen DEF TypeOK, Finish, bus, clients
<1>9. ASSUME NEW p \in Publishers, Panic(p) PROVE TypeOK'
  BY <1>9 DEF TypeOK, Panic, bus, clients, calls
<1>10. CASE IdleBus
  BY <1>10 DEF TypeOK, IdleBus, bus, clients, calls
<1> QED
  BY <1>1, <1>2, <1>3, <1>4, <1>5, <1>6, <1>7, <1>8, <1>9, <1>10
     DEF BusStep, Next, Stream, Done, Overstay, Continue

-----------------------------------------------------------------------------
(* The subscriber lists, and the copies of them that publishers hold.      *)

\* Of a bus step only three actions move a handler or change a list.
LEMMA ListSteps ==
  ASSUME BusStep
  PROVE  \/ \E h \in Handlers : Subscribe(h) \/ LeaveSelect(h) \/ Unsubscribe(h)
         \/ UNCHANGED <<subscribers, open, stream>>
<1>1. ASSUME NEW h \in Handlers, Receive(h) \/ Disconnect(h)
      PROVE  UNCHANGED <<subscribers, open, stream>>
  BY <1>1 DEF Receive, Disconnect, bus
<1>2. ASSUME NEW p \in Publishers, Copy(p) \/ Send(p) \/ Finish(p) \/ Panic(p)
      PROVE  UNCHANGED <<subscribers, open, stream>>
  BY <1>2 DEF Copy, Send, Finish, Panic, bus, clients
<1>3. CASE IdleBus
  BY <1>3 DEF IdleBus, bus, clients
<1> QED BY <1>1, <1>2, <1>3 DEF BusStep, Next, Stream, Done, Overstay, Continue

LEMMA ListStep == ASSUME TypeOK, ListInv, BusStep PROVE ListInv'
<1>1. ASSUME NEW h \in Handlers, Subscribe(h) PROVE ListInv'
  <2>1. PICK r \in Runs : /\ stream' = [stream EXCEPT ![h] = [at |-> "select", run |-> r]]
                          /\ subscribers' = [subscribers EXCEPT ![r] = Append(@, h)]
    BY <1>1 DEF Subscribe
  <2>2. stream[h].at = "start" /\ open' = open \cup {h}
    BY <1>1 DEF Subscribe
  <2>3. subscribers \in [Runs -> Seq(Handlers)]
        /\ stream \in [Handlers -> [at : {"start", "select", "unsub", "returned"}, run : Runs]]
    BY DEF TypeOK
  <2>4. /\ stream'[h] = [at |-> "select", run |-> r]
        /\ \A g \in Handlers \ {h} : stream'[g] = stream[g]
        /\ \A q \in Runs \ {r} : subscribers'[q] = subscribers[q]
        /\ subscribers'[r] = Append(subscribers[r], h)
    BY <2>1, <2>3
  <2>5. \A q \in Runs : \A i \in DOMAIN subscribers[q] :
          subscribers[q][i] # h /\ subscribers[q][i] \in Handlers
    <3> SUFFICES ASSUME NEW q \in Runs, NEW i \in DOMAIN subscribers[q]
                 PROVE  subscribers[q][i] # h /\ subscribers[q][i] \in Handlers
      OBVIOUS
    <3>1. subscribers[q] \in Seq(Handlers)
      BY <2>3
    <3>2. subscribers[q][i] \in Handlers
      BY <3>1
    <3> QED BY <3>2, <2>2 DEF ListInv
  <2>6. /\ DOMAIN subscribers'[r] = 1..(Len(subscribers[r]) + 1)
        /\ DOMAIN subscribers[r] = 1..Len(subscribers[r]) /\ Len(subscribers[r]) \in Nat
        /\ subscribers'[r][Len(subscribers[r]) + 1] = h
        /\ \A i \in DOMAIN subscribers[r] : subscribers'[r][i] = subscribers[r][i]
    <3>1. subscribers[r] \in Seq(Handlers)
      BY <2>3
    <3> QED BY <3>1, <2>4
  <2>7. \A i \in DOMAIN subscribers'[r] :
          i \in DOMAIN subscribers[r] \/ i = Len(subscribers[r]) + 1
    BY <2>6
  <2>8. \A g \in Handlers : g \in open' <=> stream'[g].at \in {"select", "unsub"}
    BY <2>2, <2>4 DEF ListInv
  <2>9. ASSUME NEW g \in Handlers, stream'[g].at \in {"select", "unsub"}
        PROVE  \E i \in DOMAIN subscribers'[stream'[g].run] : subscribers'[stream'[g].run][i] = g
    <3>1. CASE g = h
      BY <3>1, <2>4, <2>6
    <3>2. CASE g # h
      <4>1. PICK i \in DOMAIN subscribers[stream[g].run] : subscribers[stream[g].run][i] = g
        BY <3>2, <2>9, <2>4 DEF ListInv
      <4>2. stream'[g].run = stream[g].run /\ stream[g].run \in Runs
        BY <3>2, <2>4, <2>3
      <4>3. CASE stream[g].run = r
        BY <4>1, <4>2, <4>3, <2>6
      <4>4. CASE stream[g].run # r
        BY <4>1, <4>2, <4>4, <2>4
      <4> QED BY <4>3, <4>4
    <3> QED BY <3>1, <3>2
  <2>10. ASSUME NEW q \in Runs, NEW i \in DOMAIN subscribers'[q]
         PROVE  /\ stream'[subscribers'[q][i]].run = q
                /\ stream'[subscribers'[q][i]].at \in {"select", "unsub"}
                /\ \A j \in DOMAIN subscribers'[q] : subscribers'[q][i] = subscribers'[q][j] => i = j
    <3>1. CASE q = r
      <4>1. CASE i = Len(subscribers[r]) + 1
        BY <3>1, <4>1, <2>4, <2>5, <2>6, <2>7
      <4>2. CASE i \in DOMAIN subscribers[r]
        BY <3>1, <4>2, <2>4, <2>5, <2>6, <2>7 DEF ListInv
      <4> QED BY <3>1, <4>1, <4>2, <2>7
    <3>2. CASE q # r
      BY <3>2, <2>4, <2>5 DEF ListInv
    <3> QED BY <3>1, <3>2
  <2> QED BY <2>8, <2>9, <2>10 DEF ListInv
<1>2. ASSUME NEW h \in Handlers, LeaveSelect(h) PROVE ListInv'
  <2>1. /\ stream[h].at = "select" /\ UNCHANGED <<subscribers, open>>
        /\ stream' = [stream EXCEPT ![h].at = "unsub"]
    BY <1>2 DEF LeaveSelect, Enter, bus
  <2>2. /\ \A g \in Handlers : stream'[g].run = stream[g].run
        /\ \A g \in Handlers : stream'[g].at \in {"select", "unsub"} <=>
                               stream[g].at \in {"select", "unsub"}
    BY <2>1 DEF TypeOK
  <2>3. \A q \in Runs : \A i \in DOMAIN subscribers[q] : subscribers[q][i] \in Handlers
    BY DEF TypeOK
  <2> QED BY <2>1, <2>2, <2>3 DEF ListInv
<1>3. ASSUME NEW h \in Handlers, Unsubscribe(h) PROVE ListInv'
  <2> DEFINE r == stream[h].run
             s == subscribers[r]
  <2>1. PICK i \in DOMAIN s :
          s[i] = h /\ subscribers' = [subscribers EXCEPT ![r] = RemoveAt(@, i)]
    BY <1>3 DEF Unsubscribe
  <2>2. /\ stream' = [stream EXCEPT ![h].at = "returned"] /\ open' = open \ {h}
    BY <1>3 DEF Unsubscribe, Enter
  <2>3. subscribers \in [Runs -> Seq(Handlers)] /\ r \in Runs /\ s \in Seq(Handlers)
        /\ stream \in [Handlers -> [at : {"start", "select", "unsub", "returned"}, run : Runs]]
    BY DEF TypeOK
  <2>4. /\ stream'[h].at = "returned" /\ stream'[h].run = r
        /\ \A g \in Handlers \ {h} : stream'[g] = stream[g]
        /\ \A q \in Runs \ {r} : subscribers'[q] = subscribers[q]
        /\ subscribers'[r] = RemoveAt(s, i)
    BY <2>1, <2>2, <2>3
  <2>5. /\ RemoveAt(s, i) \in Seq(Handlers)
        /\ Len(RemoveAt(s, i)) = Len(s) - 1
        /\ \A j \in 1..(Len(s) - 1) : RemoveAt(s, i)[j] = IF j < i THEN s[j] ELSE s[j + 1]
    BY <2>3, RemoveAtElements
  <2>6. DOMAIN s = 1..Len(s) /\ Len(s) \in Nat /\ i \in 1..Len(s)
    BY <2>3, <2>1
  <2>7. /\ DOMAIN subscribers'[r] = 1..(Len(s) - 1)
        /\ \A j \in 1..(Len(s) - 1) : j < i => subscribers'[r][j] = s[j]
        /\ \A j \in 1..(Len(s) - 1) : ~(j < i) => subscribers'[r][j] = s[j + 1]
    BY <2>4, <2>5
  <2>8. /\ \A q \in Runs : \A k \in DOMAIN subscribers[q] :
              /\ subscribers[q][k] \in Handlers
              /\ stream[subscribers[q][k]].run = q
              /\ stream[subscribers[q][k]].at \in {"select", "unsub"}
        /\ \A q \in Runs : \A j, k \in DOMAIN subscribers[q] :
              subscribers[q][j] = subscribers[q][k] => j = k
    BY <2>3 DEF ListInv
  <2>9. \A j \in DOMAIN subscribers'[r] :
          \E k \in DOMAIN s : k # i /\ ((k = j /\ j < i) \/ (k = j + 1 /\ ~(j < i)))
                             /\ subscribers'[r][j] = s[k]
    <3> SUFFICES ASSUME NEW j \in DOMAIN subscribers'[r]
                 PROVE  \E k \in DOMAIN s : k # i /\ ((k = j /\ j < i) \/ (k = j + 1 /\ ~(j < i)))
                                            /\ subscribers'[r][j] = s[k]
      OBVIOUS
    <3>1. CASE j < i
      <4>1. j \in DOMAIN s /\ j # i /\ subscribers'[r][j] = s[j]
        BY <3>1, <2>6, <2>7
      <4> QED BY <3>1, <4>1
    <3>2. CASE ~(j < i)
      <4>1. j + 1 \in DOMAIN s /\ j + 1 # i /\ subscribers'[r][j] = s[j + 1]
        BY <3>2, <2>6, <2>7
      <4> QED BY <3>2, <4>1
    <3> QED BY <3>1, <3>2
  <2>10. \A k \in DOMAIN s : k # i => \E j \in DOMAIN subscribers'[r] : subscribers'[r][j] = s[k]
    <3> SUFFICES ASSUME NEW k \in DOMAIN s, k # i
                 PROVE  \E j \in DOMAIN subscribers'[r] : subscribers'[r][j] = s[k]
      OBVIOUS
    <3>1. CASE k < i
      <4>1. k \in DOMAIN subscribers'[r] /\ subscribers'[r][k] = s[k]
        BY SMTT(30), <3>1, <2>6, <2>7
      <4> QED BY <4>1
    <3>2. CASE ~(k < i)
      <4>1. k - 1 \in DOMAIN subscribers'[r] /\ ~(k - 1 < i) /\ (k - 1) + 1 = k
        BY <3>2, <2>6, <2>7
      <4>2. subscribers'[r][k - 1] = s[k]
        BY <4>1, <2>7
      <4> QED BY <4>1, <4>2
    <3> QED BY <3>1, <3>2
  <2> HIDE DEF r, s
  <2>s. s = subscribers[r]
    BY DEF s
  <2>11. \A g \in Handlers : g \in open' <=> stream'[g].at \in {"select", "unsub"}
    BY <2>2, <2>4 DEF ListInv
  <2>12. ASSUME NEW g \in Handlers, stream'[g].at \in {"select", "unsub"}
         PROVE  \E j \in DOMAIN subscribers'[stream'[g].run] : subscribers'[stream'[g].run][j] = g
    <3>1. g # h /\ stream'[g] = stream[g] /\ stream[g].run \in Runs
      BY <2>12, <2>4, <2>3
    <3>2. PICK k \in DOMAIN subscribers[stream[g].run] : subscribers[stream[g].run][k] = g
      BY <3>1, <2>12 DEF ListInv
    <3>3. CASE stream[g].run = r
      <4>1. k \in DOMAIN s /\ s[k] = g /\ k # i
        BY <3>1, <3>2, <3>3, <2>1, <2>s
      <4> QED BY <4>1, <3>1, <3>3, <2>10
    <3>4. CASE stream[g].run # r
      BY <3>1, <3>2, <3>4, <2>4
    <3> QED BY <3>3, <3>4
  <2>13. ASSUME NEW q \in Runs, NEW j \in DOMAIN subscribers'[q]
         PROVE  /\ stream'[subscribers'[q][j]].run = q
                /\ stream'[subscribers'[q][j]].at \in {"select", "unsub"}
                /\ \A l \in DOMAIN subscribers'[q] : subscribers'[q][j] = subscribers'[q][l] => j = l
    <3>1. CASE q = r
      <4>1. PICK k \in DOMAIN s : k # i /\ ((k = j /\ j < i) \/ (k = j + 1 /\ ~(j < i)))
                                 /\ subscribers'[r][j] = s[k]
        BY <3>1, <2>9
      <4>2. s[k] # h /\ s[k] \in Handlers /\ stream[s[k]].run = r
            /\ stream[s[k]].at \in {"select", "unsub"}
        BY <4>1, <2>1, <2>3, <2>8, <2>s
      <4>3. ASSUME NEW l \in DOMAIN subscribers'[r], subscribers'[r][j] = subscribers'[r][l]
            PROVE  j = l
        <5>1. PICK m \in DOMAIN s : m # i /\ ((m = l /\ l < i) \/ (m = l + 1 /\ ~(l < i)))
                                   /\ subscribers'[r][l] = s[m]
          BY <2>9
        <5>2. m = k
          BY <4>1, <4>3, <5>1, <2>3, <2>8, <2>s
        <5>3. j \in 1..(Len(s) - 1) /\ l \in 1..(Len(s) - 1)
          BY <3>1, <2>7
        <5>4. j \in Int /\ l \in Int /\ i \in Int
          BY <5>3, <2>6
        <5>5. CASE j < i /\ l < i
          BY <5>1, <5>2, <5>5, <4>1
        <5>6. CASE ~(j < i) /\ ~(l < i)
          <6>1. k = j + 1 /\ k = l + 1
            BY <5>1, <5>2, <5>6, <4>1
          <6> QED BY <6>1, <5>4
        <5>7. CASE j < i /\ ~(l < i)
          <6>1. k = j /\ k = l + 1 /\ k # i
            BY <5>1, <5>2, <5>7, <4>1
          <6> QED BY <6>1, <5>4, <5>7
        <5>8. CASE ~(j < i) /\ l < i
          <6>1. k = j + 1 /\ k = l /\ k # i
            BY <5>1, <5>2, <5>8, <4>1
          <6> QED BY <6>1, <5>4, <5>8
        <5> QED BY <5>5, <5>6, <5>7, <5>8
      <4> QED BY <3>1, <4>1, <4>2, <4>3, <2>4
    <3>2. CASE q # r
      <4>1. subscribers'[q] = subscribers[q] /\ subscribers[q][j] # h
        BY <3>2, <2>4, <2>8, <2>s DEF r
      <4> QED BY <3>2, <4>1, <2>4, <2>8
    <3> QED BY <3>1, <3>2
  <2> QED BY <2>11, <2>12, <2>13 DEF ListInv
<1>4. CASE UNCHANGED <<subscribers, open, stream>>
  BY <1>4 DEF ListInv
<1> QED BY <1>1, <1>2, <1>3, <1>4, ListSteps

\* A handler that has subscribed keeps its run.
LEMMA RunsKept ==
  ASSUME TypeOK, BusStep, NEW h \in Handlers, stream[h].at # "start"
  PROVE  stream'[h].at # "start" /\ stream'[h].run = stream[h].run
<1>1. ASSUME NEW g \in Handlers, Subscribe(g)
      PROVE  stream'[h].at # "start" /\ stream'[h].run = stream[h].run
  BY <1>1 DEF TypeOK, Subscribe
<1>2. ASSUME NEW g \in Handlers, LeaveSelect(g) \/ Unsubscribe(g)
      PROVE  stream'[h].at # "start" /\ stream'[h].run = stream[h].run
  <2>1. PICK l \in {"unsub", "returned"} : stream' = [stream EXCEPT ![g].at = l]
    BY <1>2 DEF LeaveSelect, Unsubscribe, Enter
  <2> QED BY <2>1 DEF TypeOK
<1>3. CASE UNCHANGED stream
  BY <1>3
<1> QED BY <1>1, <1>2, <1>3, ListSteps

LEMMA TailElements ==
  ASSUME NEW S, NEW s \in Seq(S), s # <<>>
  PROVE  /\ Head(s) = s[1] /\ 1 \in DOMAIN s
         /\ Tail(s) \in Seq(S) /\ Len(Tail(s)) = Len(s) - 1
         /\ \A j \in DOMAIN Tail(s) : j \in Int /\ j > 0 /\ j + 1 \in DOMAIN s /\ Tail(s)[j] = s[j + 1]
         /\ \A j \in DOMAIN s \ {1} : j - 1 \in DOMAIN Tail(s) /\ s[j] = Tail(s)[j - 1]
  OBVIOUS

\* What a bus step does to the calls of Publish.
LEMMA PublishSteps ==
  ASSUME BusStep
  PROVE  \/ \E p \in Publishers : Copy(p) \/ Send(p) \/ Finish(p)
         \/ UNCHANGED <<publish, owed>>
<1>1. ASSUME NEW h \in Handlers, Stream(h) \/ Disconnect(h) PROVE UNCHANGED <<publish, owed>>
  BY <1>1 DEF Stream, Subscribe, Receive, Done, Overstay, LeaveSelect, Unsubscribe, Disconnect, calls
<1>2. ASSUME NEW p \in Publishers, Panic(p) PROVE UNCHANGED <<publish, owed>>
  BY <1>2 DEF Panic, calls
<1>3. CASE IdleBus
  BY <1>3 DEF IdleBus, calls
<1> QED BY <1>1, <1>2, <1>3 DEF BusStep, Next, Continue

LEMMA CopyStep == ASSUME TypeOK, ListInv, CopyInv, BusStep PROVE CopyInv'
<1>t. /\ \A p \in Publishers : publish[p].subs \in Seq(Handlers)
      /\ publish \in [Publishers -> [at : {"idle", "send"}, run : Runs, n : Nat, subs : Seq(Handlers)]]
      /\ \A r \in Runs : subscribers[r] \in Seq(Handlers)
  BY DEF TypeOK
<1>k. \A h \in Handlers : stream[h].at # "start" =>
         stream'[h].at # "start" /\ stream'[h].run = stream[h].run
  BY RunsKept
\* The copies of a publisher that keeps its own.
<1>s. ASSUME NEW p \in Publishers, publish'[p] = publish[p], NEW i \in DOMAIN publish'[p].subs
      PROVE  /\ publish'[p].at = "send"
             /\ stream'[publish'[p].subs[i]].at # "start"
             /\ stream'[publish'[p].subs[i]].run = publish'[p].run
             /\ \A j \in DOMAIN publish'[p].subs :
                  publish'[p].subs[i] = publish'[p].subs[j] => i = j
  <2>1. publish[p].subs \in Seq(Handlers) /\ i \in DOMAIN publish[p].subs
    BY <1>s, <1>t
  <2>2. publish[p].subs[i] \in Handlers
    BY <2>1
  <2> QED BY <1>s, <1>k, <2>1, <2>2 DEF CopyInv
<1>1. ASSUME NEW p \in Publishers, Copy(p) PROVE CopyInv'
  <2>1. PICK r \in Runs :
          publish' = [publish EXCEPT ![p] = [at |-> "send", run |-> r, n |-> publish[p].n + 1,
                                             subs |-> subscribers[r]]]
    BY <1>1 DEF Copy
  <2>2. \A q \in Publishers \ {p} : publish'[q] = publish[q]
    BY <2>1, <1>t
  <2>3. publish'[p] = [at |-> "send", run |-> r, n |-> publish[p].n + 1, subs |-> subscribers[r]]
    BY <2>1, <1>t
  <2>4. ASSUME NEW i \in DOMAIN publish'[p].subs
        PROVE  /\ publish'[p].at = "send"
               /\ stream'[publish'[p].subs[i]].at # "start"
               /\ stream'[publish'[p].subs[i]].run = publish'[p].run
               /\ \A j \in DOMAIN publish'[p].subs :
                    publish'[p].subs[i] = publish'[p].subs[j] => i = j
    <3>1. i \in DOMAIN subscribers[r] /\ subscribers[r] \in Seq(Handlers)
      BY <2>3, <1>t
    <3>2. subscribers[r][i] \in Handlers
      BY <3>1
    <3>3. stream[subscribers[r][i]].at # "start" /\ stream[subscribers[r][i]].run = r
          /\ \A j \in DOMAIN subscribers[r] : subscribers[r][i] = subscribers[r][j] => i = j
      BY <3>1 DEF ListInv
    <3> QED BY <2>3, <3>2, <3>3, <1>k
  <2> QED BY <1>s, <2>2, <2>4 DEF CopyInv
<1>2. ASSUME NEW p \in Publishers, Send(p) PROVE CopyInv'
  <2> DEFINE s == publish[p].subs
  <2>1. s # <<>> /\ publish' = [publish EXCEPT ![p].subs = Tail(@)] /\ publish[p].at = "send"
    BY <1>2 DEF Send
  <2>2. \A q \in Publishers \ {p} : publish'[q] = publish[q]
    BY <2>1, <1>t
  <2>3. publish'[p].subs = Tail(s) /\ publish'[p].at = "send" /\ publish'[p].run = publish[p].run
    BY <2>1, <1>t
  <2>4. s \in Seq(Handlers)
    BY <1>t
  <2>5. \A j \in DOMAIN Tail(s) : j \in Int /\ j + 1 \in DOMAIN s /\ Tail(s)[j] = s[j + 1]
    BY <2>1, <2>4, TailElements
  <2>6. \A j \in DOMAIN s : s[j] \in Handlers /\ stream[s[j]].at # "start"
                           /\ stream[s[j]].run = publish[p].run
    BY <2>4 DEF CopyInv
  <2>7. \A i, j \in DOMAIN s : s[i] = s[j] => i = j
    BY DEF CopyInv
  <2> HIDE DEF s
  <2>8. ASSUME NEW i \in DOMAIN publish'[p].subs
        PROVE  /\ publish'[p].at = "send"
               /\ stream'[publish'[p].subs[i]].at # "start"
               /\ stream'[publish'[p].subs[i]].run = publish'[p].run
               /\ \A j \in DOMAIN publish'[p].subs :
                    publish'[p].subs[i] = publish'[p].subs[j] => i = j
    <3>1. i \in DOMAIN Tail(s)
      BY <2>3
    <3>2. \A j \in DOMAIN Tail(s) : Tail(s)[i] = Tail(s)[j] => i = j
      BY <3>1, <2>5, <2>7
    <3> QED BY <3>1, <3>2, <2>3, <2>5, <2>6, <1>k
  <2> QED BY <1>s, <2>2, <2>8 DEF CopyInv
<1>3. ASSUME NEW p \in Publishers, Finish(p) PROVE CopyInv'
  <2>1. \A q \in Publishers \ {p} : publish'[q] = publish[q]
    BY <1>3, <1>t DEF Finish
  <2>2. publish'[p].subs = <<>>
    BY <1>3, <1>t DEF Finish
  <2> QED BY <1>s, <2>1, <2>2 DEF CopyInv
<1>4. CASE UNCHANGED publish
  BY <1>s, <1>4 DEF CopyInv
<1> QED BY <1>1, <1>2, <1>3, <1>4, PublishSteps

-----------------------------------------------------------------------------
(* Nobody is passed over.                                                  *)

LEMMA OwedStep == ASSUME TypeOK, ListInv, CopyInv, OwedInv, BusStep PROVE OwedInv'
<1>t. /\ publish \in [Publishers -> [at : {"idle", "send"}, run : Runs, n : Nat, subs : Seq(Handlers)]]
      /\ \A r \in Runs : subscribers[r] \in Seq(Handlers)
      /\ owed \subseteq Handlers \X Payload
  BY DEF TypeOK
<1>o. \A d \in owed : d[1] \in Handlers /\ d[2] \in Payload /\ d[2].from \in Publishers
                   /\ d = <<d[1], d[2]>>
  BY <1>t DEF Payload
<1>k. \A h \in Handlers : stream[h].at # "start" =>
         stream'[h].at # "start" /\ stream'[h].run = stream[h].run
  BY RunsKept
\* No channel that a payload is owed to is opened again.
<1>c. \A d \in owed : d[1] \in open' => d[1] \in open
  <2>1. ASSUME NEW h \in Handlers, Subscribe(h) PROVE \A d \in owed : d[1] \in open' => d[1] \in open
    BY <2>1, <1>o DEF Subscribe, OwedInv
  <2>2. ASSUME NEW h \in Handlers, LeaveSelect(h) \/ Unsubscribe(h) PROVE open' \subseteq open
    BY <2>2 DEF LeaveSelect, Unsubscribe, bus
  <2> QED BY <2>1, <2>2, ListSteps
<1>p. \A d \in owed : stream'[d[1]].at # "start"
  BY <1>o, <1>k DEF OwedInv
\* A payload that was owed, of a publisher that keeps its call.
<1>s. ASSUME NEW d \in owed, publish'[d[2].from] = publish[d[2].from], d[1] \in open'
      PROVE  LET p == d[2].from
             IN  publish'[p].at = "send" /\ d[2] = Message(p)' /\ d[1] \in Range(publish'[p].subs)
  BY <1>s, <1>c DEF OwedInv, NothingForgotten, Message
<1>1. ASSUME NEW p \in Publishers, Copy(p) PROVE OwedInv'
  <2>1. PICK r \in Runs :
          /\ publish' = [publish EXCEPT ![p] = [at |-> "send", run |-> r, n |-> publish[p].n + 1,
                                                subs |-> subscribers[r]]]
          /\ owed' = owed \cup {<<c, [from |-> p, n |-> publish[p].n + 1, run |-> r]>> :
                                 c \in Range(subscribers[r])}
    BY ZenonT(40), <1>1 DEF Copy
  <2>2. /\ \A q \in Publishers \ {p} : publish'[q] = publish[q]
        /\ publish'[p] = [at |-> "send", run |-> r, n |-> publish[p].n + 1, subs |-> subscribers[r]]
        /\ publish[p].at = "idle"
    BY <2>1, <1>1, <1>t DEF Copy
  <2>3. ASSUME NEW d \in owed, d[1] \in open' PROVE d[2].from # p
    BY <2>2, <2>3, <1>c DEF OwedInv, NothingForgotten
  <2>4. Message(p)' = [from |-> p, n |-> publish[p].n + 1, run |-> r]
    BY <2>2 DEF Message
  <2>5. ASSUME NEW c \in Range(subscribers[r]) PROVE stream'[c].at # "start"
    <3>1. c \in Handlers /\ \E i \in DOMAIN subscribers[r] : subscribers[r][i] = c
      <4>1. subscribers[r] \in Seq(Handlers)
        BY <1>t
      <4> QED BY <4>1, <2>5 DEF Range
    <3> QED BY <3>1, <1>k DEF ListInv
  <2>6. ASSUME NEW d \in owed'
        PROVE  /\ stream'[d[1]].at # "start"
               /\ d[1] \in open' =>
                    /\ publish'[d[2].from].at = "send" /\ d[2] = Message(d[2].from)'
                    /\ d[1] \in Range(publish'[d[2].from].subs)
    <3>1. CASE d \in owed
      <4>1. ASSUME d[1] \in open' PROVE publish'[d[2].from] = publish[d[2].from]
        BY <3>1, <4>1, <2>2, <2>3, <1>o
      <4> QED BY <3>1, <4>1, <1>s, <1>p
    <3>2. CASE \E c \in Range(subscribers[r]) :
                 d = <<c, [from |-> p, n |-> publish[p].n + 1, run |-> r]>>
      BY <3>2, <2>2, <2>4, <2>5
    <3> QED BY <3>1, <3>2, <2>1
  <2> QED BY <2>6 DEF OwedInv, NothingForgotten
<1>2. ASSUME NEW p \in Publishers, Send(p) PROVE OwedInv'
  <2> DEFINE s == publish[p].subs
  <2>1. /\ s # <<>> /\ publish[p].at = "send" /\ publish' = [publish EXCEPT ![p].subs = Tail(@)]
        /\ owed' = owed \ {<<Head(s), Message(p)>>}
    BY <1>2 DEF Send
  <2>2. s \in Seq(Handlers)
    BY <1>t
  <2>3. /\ \A q \in Publishers \ {p} : publish'[q] = publish[q]
        /\ publish'[p].at = "send" /\ publish'[p].subs = Tail(s) /\ Message(p)' = Message(p)
    BY <2>1, <1>t DEF Message
  <2>4. \A c \in Range(s) : c # Head(s) => c \in Range(Tail(s))
    <3>1. /\ Head(s) = s[1]
          /\ \A j \in DOMAIN s \ {1} : j - 1 \in DOMAIN Tail(s) /\ s[j] = Tail(s)[j - 1]
      BY <2>1, <2>2, TailElements
    <3> HIDE DEF s
    <3> QED BY <3>1 DEF Range
  <2> HIDE DEF s
  <2>5. ASSUME NEW d \in owed'
        PROVE  /\ stream'[d[1]].at # "start"
               /\ d[1] \in open' =>
                    /\ publish'[d[2].from].at = "send" /\ d[2] = Message(d[2].from)'
                    /\ d[1] \in Range(publish'[d[2].from].subs)
    <3>1. d \in owed /\ d # <<Head(s), Message(p)>>
      BY <2>1
    <3>2. CASE d[2].from = p
      <4>1. ASSUME d[1] \in open'
            PROVE  d[2] = Message(p) /\ d[1] \in Range(s) /\ d[1] # Head(s)
        BY <3>1, <3>2, <4>1, <1>c, <1>o DEF OwedInv, NothingForgotten, s
      <4> QED BY <3>1, <3>2, <4>1, <2>3, <2>4, <1>p
    <3>3. CASE d[2].from # p
      <4>1. publish'[d[2].from] = publish[d[2].from]
        BY <3>1, <3>3, <2>3, <1>o
      <4> QED BY <3>1, <4>1, <1>s, <1>p
    <3> QED BY <3>2, <3>3
  <2> QED BY <2>5 DEF OwedInv, NothingForgotten
<1>3. ASSUME NEW p \in Publishers, Finish(p) PROVE OwedInv'
  <2>1. /\ publish[p].subs = <<>> /\ owed' = owed
        /\ \A q \in Publishers \ {p} : publish'[q] = publish[q]
    BY <1>3, <1>t DEF Finish
  <2>2. Range(publish[p].subs) = {}
    BY <2>1 DEF Range
  <2>3. ASSUME NEW d \in owed, d[1] \in open' PROVE d[2].from # p
    BY <2>2, <2>3, <1>c DEF OwedInv, NothingForgotten
  <2>4. ASSUME NEW d \in owed, d[1] \in open' PROVE publish'[d[2].from] = publish[d[2].from]
    BY <2>1, <2>3, <2>4, <1>o
  <2> QED BY <2>1, <2>4, <1>s, <1>p DEF OwedInv, NothingForgotten
<1>4. CASE UNCHANGED <<publish, owed>>
  BY <1>4, <1>s, <1>p DEF OwedInv, NothingForgotten
<1> QED BY <1>1, <1>2, <1>3, <1>4, PublishSteps

-----------------------------------------------------------------------------
(* What clients get.                                                       *)

\* A call of Publish gets a new number when it begins, and then works its copy off.
LEMMA PublishMoves ==
  ASSUME TypeOK, BusStep, NEW p \in Publishers
  PROVE  /\ publish[p].n \in Nat /\ publish'[p].n \in Nat
         /\ \/ publish'[p].n = publish[p].n + 1
            \/ /\ publish'[p].n = publish[p].n
               /\ \A k \in DOMAIN publish'[p].subs :
                    \E l \in DOMAIN publish[p].subs : publish[p].subs[l] = publish'[p].subs[k]
<1>t. publish \in [Publishers -> [at : {"idle", "send"}, run : Runs, n : Nat, subs : Seq(Handlers)]]
  BY DEF TypeOK
<1>n. publish[p].n \in Nat /\ publish[p].subs \in Seq(Handlers)
  BY <1>t
<1>1. ASSUME NEW q \in Publishers, Copy(q), p = q PROVE publish'[p].n = publish[p].n + 1
  BY <1>1, <1>t DEF Copy
<1>2. ASSUME NEW q \in Publishers, Send(q), p = q
      PROVE  /\ publish'[p].n = publish[p].n
             /\ \A k \in DOMAIN publish'[p].subs :
                  \E l \in DOMAIN publish[p].subs : publish[p].subs[l] = publish'[p].subs[k]
  <2>1. publish' = [publish EXCEPT ![p].subs = Tail(@)] /\ publish[p].subs # <<>>
    BY <1>2 DEF Send
  <2>2. publish'[p].n = publish[p].n /\ publish'[p].subs = Tail(publish[p].subs)
    BY <2>1, <1>t
  <2>3. \A j \in DOMAIN Tail(publish[p].subs) :
          j + 1 \in DOMAIN publish[p].subs /\ Tail(publish[p].subs)[j] = publish[p].subs[j + 1]
    BY <2>1, <1>n, TailElements
  <2> QED BY <2>2, <2>3
<1>3. ASSUME NEW q \in Publishers, Finish(q), p = q
      PROVE  publish'[p].n = publish[p].n /\ publish'[p].subs = publish[p].subs
  BY <1>3, <1>t DEF Finish
<1>4. ASSUME NEW q \in Publishers, Copy(q) \/ Send(q) \/ Finish(q), p # q
      PROVE  publish'[p] = publish[p]
  BY <1>4, <1>t DEF Copy, Send, Finish
<1> QED BY <1>n, <1>1, <1>2, <1>3, <1>4, PublishSteps

\* A bus step by which a client gets nothing new: what it has is a part of what it
\* had, from some position on.
LEMMA NothingNew ==
  ASSUME TypeOK, TypeOK', OrderInv, BusStep, NEW from \in [Handlers -> Nat],
         \A h \in Handlers : \A i \in DOMAIN Got(h)' :
           i + from[h] \in DOMAIN Got(h) /\ Got(h)'[i] = Got(h)[i + from[h]]
  PROVE  OrderInv'
<1>t. \A h \in Handlers : /\ received[h] \in Seq(Payload) /\ buffer[h] \in Seq(Payload)
                          /\ received'[h] \in Seq(Payload) /\ buffer'[h] \in Seq(Payload)
  BY DEF TypeOK
<1>g. \A h \in Handlers : Got(h) \in Seq(Payload) /\ Got(h)' \in Seq(Payload)
  <2> HIDE DEF Payload
  <2> QED BY <1>t DEF Got
<1>1. ASSUME NEW h \in Handlers, NEW i \in DOMAIN Got(h)'
      PROVE  /\ i \in Nat /\ from[h] \in Nat
             /\ i + from[h] \in DOMAIN Got(h) /\ Got(h)'[i] = Got(h)[i + from[h]]
             /\ stream'[h].run = stream[h].run
  <2>1. i \in Nat
    <3> HIDE DEF Payload
    <3> QED BY <1>g
  <2>2. i + from[h] \in DOMAIN Got(h) /\ Got(h)'[i] = Got(h)[i + from[h]]
    OBVIOUS
  <2>3. stream[h].at # "start"
    <3>1. DOMAIN <<>> = {}
      OBVIOUS
    <3> QED BY <2>2, <3>1, Zenon DEF OrderInv
  <2> QED BY <2>1, <2>2, <2>3, RunsKept
<1>2. ASSUME NEW h \in Handlers
      PROVE  /\ \A i, j \in DOMAIN Got(h)' :
                  i < j /\ Got(h)'[i].from = Got(h)'[j].from => Got(h)'[i].n < Got(h)'[j].n
             /\ \A i \in DOMAIN Got(h)' : Got(h)'[i].run = stream'[h].run
  <2>1. /\ \A i, j \in DOMAIN Got(h) :
              i < j /\ Got(h)[i].from = Got(h)[j].from => Got(h)[i].n < Got(h)[j].n
        /\ \A i \in DOMAIN Got(h) : Got(h)[i].run = stream[h].run
    BY DEF OrderInv, OrderedPerPublisher, Got
  <2>2. ASSUME NEW i \in DOMAIN Got(h)', NEW j \in DOMAIN Got(h)', i < j
        PROVE  i + from[h] < j + from[h]
    BY <1>1, <2>2
  <2> QED BY <2>1, <2>2, <1>1
<1>3. OrderedPerPublisher'
  BY <1>2 DEF OrderedPerPublisher, Got
<1>4. ASSUME NEW h \in Handlers, stream'[h].at = "start" PROVE Got(h)' = <<>>
  <2>1. DOMAIN Got(h) = {}
    <3>1. Got(h) = <<>>
      BY <1>4, RunsKept DEF OrderInv
    <3> QED BY <3>1
  <2>2. DOMAIN Got(h)' = {}
    BY <2>1
  <2> HIDE DEF Payload
  <2> QED BY <2>2, <1>g
<1>5. ASSUME NEW h \in Handlers, NEW i \in DOMAIN Got(h)'
      PROVE  Got(h)'[i].from \in Publishers /\ Got(h)'[i].n \in Nat
  <2>1. Got(h)'[i] \in Payload
    <3> HIDE DEF Payload
    <3> QED BY <1>g
  <2> QED BY <2>1 DEF Payload
<1>6. ASSUME NEW h \in Handlers, NEW i \in DOMAIN Got(h)'
      PROVE  Got(h)'[i].n <= publish'[Got(h)'[i].from].n
  <2>1. Got(h)'[i].n <= publish[Got(h)'[i].from].n
    BY <1>1 DEF OrderInv
  <2> QED BY <2>1, <1>5, PublishMoves
<1>7. ASSUME NEW p \in Publishers, NEW k \in DOMAIN publish'[p].subs, NEW c \in Handlers,
             c = publish'[p].subs[k], NEW i \in DOMAIN Got(c)', Got(c)'[i].from = p
      PROVE  Got(c)'[i].n < publish'[p].n
  <2> DEFINE l == i + from[c]
  <2>1. l \in DOMAIN Got(c) /\ Got(c)'[i] = Got(c)[l] /\ Got(c)[l].from = p /\ Got(c)[l].n \in Nat
    BY <1>1, <1>5, <1>7
  <2> HIDE DEF l
  <2>2. CASE publish'[p].n = publish[p].n + 1
    <3>1. Got(c)[l].n <= publish[p].n
      BY <2>1 DEF OrderInv
    <3>2. publish[p].n \in Nat
      BY PublishMoves
    <3> QED BY <3>1, <3>2, <2>1, <2>2
  <2>3. CASE publish'[p].n # publish[p].n + 1
    <3>1. publish'[p].n = publish[p].n
          /\ \E m \in DOMAIN publish[p].subs : publish[p].subs[m] = publish'[p].subs[k]
      BY <2>3, PublishMoves
    <3>2. Got(c)[l].n < publish[p].n
      BY <3>1, <2>1, <1>7 DEF OrderInv
    <3> QED BY <3>1, <3>2, <2>1
  <2> QED BY <2>2, <2>3
<1> QED BY <1>3, <1>4, <1>6, <1>7 DEF OrderInv

\* In particular when nothing that it has changes.
LEMMA NothingMoves ==
  ASSUME TypeOK, TypeOK', OrderInv, BusStep, \A h \in Handlers : Got(h)' = Got(h)
  PROVE  OrderInv'
<1> DEFINE from == [h \in Handlers |-> 0]
<1>1. ASSUME NEW h \in Handlers, NEW i \in DOMAIN Got(h)'
      PROVE  i + from[h] \in DOMAIN Got(h) /\ Got(h)'[i] = Got(h)[i + from[h]]
  <2>1. Got(h) \in Seq(Payload)
    <3>1. received[h] \in Seq(Payload) /\ buffer[h] \in Seq(Payload)
      BY DEF TypeOK
    <3> HIDE DEF Payload
    <3> QED BY <3>1 DEF Got
  <2>2. i + 0 = i
    <3> HIDE DEF Payload
    <3> QED BY <2>1
  <2> QED BY <2>2
<1>2. from \in [Handlers -> Nat]
  OBVIOUS
<1> HIDE DEF from
<1> QED BY <1>1, <1>2, NothingNew

\* The elements of the parts of a concatenation.
LEMMA PartsOf ==
  ASSUME NEW S, NEW s \in Seq(S), NEW t \in Seq(S)
  PROVE  /\ Len(s) \in Nat
         /\ \A i \in DOMAIN (<<>> \o t) : i + Len(s) \in DOMAIN (s \o t)
                                         /\ (<<>> \o t)[i] = (s \o t)[i + Len(s)]
         /\ \A i \in DOMAIN (s \o <<>>) : /\ i \in DOMAIN (s \o t) /\ i + 0 = i
                                          /\ (s \o <<>>)[i] = (s \o t)[i]
<1>1. <<>> \o t = t /\ s \o <<>> = s
  OBVIOUS
<1>2. /\ DOMAIN t = 1..Len(t) /\ DOMAIN s = 1..Len(s) /\ Len(s) \in Nat /\ Len(t) \in Nat
      /\ DOMAIN (s \o t) = 1..(Len(s) + Len(t))
  OBVIOUS
<1>3. \A i \in 1..Len(t) : (s \o t)[i + Len(s)] = t[i]
  OBVIOUS
<1>4. \A i \in 1..Len(s) : (s \o t)[i] = s[i] /\ i + 0 = i
  OBVIOUS
<1> QED BY <1>1, <1>2, <1>3, <1>4

\* Receiving moves the head of the buffer behind what was received; sending
\* puts the message behind both.
LEMMA HeadMoves ==
  ASSUME NEW S, NEW r \in Seq(S), NEW b \in Seq(S), b # <<>>
  PROVE  Append(r, Head(b)) \o Tail(b) = r \o b
<1>1. /\ Head(b) = b[1] /\ Head(b) \in S /\ Tail(b) \in Seq(S) /\ Len(Tail(b)) = Len(b) - 1
      /\ Len(b) \in Nat \ {0} /\ Len(r) \in Nat
      /\ \A j \in 1..(Len(b) - 1) : Tail(b)[j] = b[j + 1]
  OBVIOUS
<1>2. /\ Append(r, Head(b)) \in Seq(S) /\ Len(Append(r, Head(b))) = Len(r) + 1
      /\ Append(r, Head(b))[Len(r) + 1] = b[1]
      /\ \A j \in 1..Len(r) : Append(r, Head(b))[j] = r[j]
  BY <1>1
<1> DEFINE a == Append(r, Head(b))
           t == Tail(b)
<1> HIDE DEF a, t
<1>3. a \in Seq(S) /\ t \in Seq(S) /\ Len(a) = Len(r) + 1 /\ Len(t) = Len(b) - 1
  BY <1>1, <1>2 DEF a, t
<1>4. a \o t \in Seq(S) /\ r \o b \in Seq(S) /\ Len(a \o t) = Len(r) + Len(b)
      /\ Len(r \o b) = Len(r) + Len(b)
  BY <1>1, <1>3, SMTT(30)
<1>5. ASSUME NEW j \in 1..(Len(r) + Len(b)) PROVE (a \o t)[j] = (r \o b)[j]
  <2>1. CASE j <= Len(r)
    <3>1. (a \o t)[j] = a[j] /\ (r \o b)[j] = r[j]
      BY <2>1, <1>1, <1>3
    <3> QED BY <3>1, <2>1, <1>1, <1>2 DEF a
  <2>2. CASE j = Len(r) + 1
    <3>1. (a \o t)[j] = a[j] /\ (r \o b)[j] = b[1]
      BY <2>2, <1>1, <1>3
    <3> QED BY <3>1, <2>2, <1>2 DEF a
  <2>3. CASE j > Len(r) + 1
    <3>1. (a \o t)[j] = t[j - (Len(r) + 1)] /\ (r \o b)[j] = b[j - Len(r)]
      BY <2>3, <1>1, <1>3
    <3>2. j - (Len(r) + 1) \in 1..(Len(b) - 1) /\ (j - (Len(r) + 1)) + 1 = j - Len(r)
      BY <2>3, <1>1
    <3>3. t[j - (Len(r) + 1)] = b[(j - (Len(r) + 1)) + 1]
      BY <3>2, <1>1 DEF t
    <3> QED BY <3>1, <3>2, <3>3
  <2>4. j <= Len(r) \/ j = Len(r) + 1 \/ j > Len(r) + 1
    BY <1>1
  <2> QED BY <2>1, <2>2, <2>3, <2>4
<1>6. a \o t = r \o b
  BY <1>4, <1>5, SeqEqual
<1> QED BY <1>6 DEF a, t

LEMMA SentLast ==
  ASSUME NEW S, NEW r \in Seq(S), NEW b \in Seq(S), NEW m \in S
  PROVE  /\ DOMAIN (r \o b) = 1..Len(r \o b) /\ Len(r \o b) \in Nat
         /\ DOMAIN (r \o Append(b, m)) = 1..(Len(r \o b) + 1)
         /\ \A i \in DOMAIN (r \o b) : (r \o Append(b, m))[i] = (r \o b)[i] /\ (r \o b)[i] \in S
         /\ (r \o Append(b, m))[Len(r \o b) + 1] = m
<1>1. /\ Append(b, m) \in Seq(S) /\ Len(Append(b, m)) = Len(b) + 1 /\ Len(b) \in Nat
      /\ Append(b, m)[Len(b) + 1] = m /\ Len(r) \in Nat
      /\ \A j \in 1..Len(b) : Append(b, m)[j] = b[j]
  OBVIOUS
<1> DEFINE a == Append(b, m)
<1> HIDE DEF a
<1>2. /\ a \in Seq(S) /\ Len(a) = Len(b) + 1 /\ a[Len(b) + 1] = m
      /\ \A j \in 1..Len(b) : a[j] = b[j]
  BY <1>1 DEF a
<1>3. /\ r \o b \in Seq(S) /\ Len(r \o b) = Len(r) + Len(b)
      /\ r \o a \in Seq(S) /\ Len(r \o a) = Len(r) + Len(b) + 1
  BY <1>1, <1>2
<1>4. ASSUME NEW j \in 1..(Len(r) + Len(b)) PROVE (r \o a)[j] = (r \o b)[j]
  <2>1. CASE j <= Len(r)
    BY <2>1, <1>1, <1>2
  <2>2. CASE j > Len(r)
    <3>1. (r \o a)[j] = a[j - Len(r)] /\ (r \o b)[j] = b[j - Len(r)]
      BY <2>2, <1>1, <1>2
    <3>2. j - Len(r) \in 1..Len(b)
      BY <2>2, <1>1
    <3> QED BY <3>1, <3>2, <1>2
  <2>3. j <= Len(r) \/ j > Len(r)
    BY <1>1
  <2> QED BY <2>1, <2>2, <2>3
<1>5. (r \o a)[Len(r) + Len(b) + 1] = m
  <2>1. (r \o a)[Len(r) + Len(b) + 1] = a[Len(b) + 1]
    BY <1>1, <1>2
  <2> QED BY <2>1, <1>2
<1> QED BY <1>1, <1>3, <1>4, <1>5 DEF a

LEMMA OrderStep == ASSUME TypeOK, TypeOK', CopyInv, OrderInv, BusStep PROVE OrderInv'
<1>t. /\ \A h \in Handlers : received[h] \in Seq(Payload) /\ buffer[h] \in Seq(Payload)
      /\ buffer \in [Handlers -> Seq(Payload)] /\ received \in [Handlers -> Seq(Payload)]
      /\ publish \in [Publishers -> [at : {"idle", "send"}, run : Runs, n : Nat, subs : Seq(Handlers)]]
  BY DEF TypeOK
<1>1. ASSUME NEW h \in Handlers, Receive(h) PROVE OrderInv'
  <2>1. /\ received' = [received EXCEPT ![h] = Append(@, Head(buffer[h]))]
        /\ buffer' = [buffer EXCEPT ![h] = Tail(@)] /\ buffer[h] # <<>>
    BY <1>1 DEF Receive
  <2>2. Append(received[h], Head(buffer[h])) \o Tail(buffer[h]) = received[h] \o buffer[h]
    <3> HIDE DEF Payload
    <3> QED BY <2>1, <1>t, HeadMoves
  <2>3. Got(h)' = Got(h)
    BY <2>1, <2>2, <1>t DEF Got
  <2>4. \A g \in Handlers \ {h} : Got(g)' = Got(g)
    BY <2>1, <1>t DEF Got
  <2> QED BY <2>3, <2>4, NothingMoves
<1>2. ASSUME NEW h \in Handlers, LeaveSelect(h) \/ Unsubscribe(h) PROVE OrderInv'
  <2> DEFINE from == [g \in Handlers |-> IF g = h /\ LeaveSelect(h) THEN Len(received[h]) ELSE 0]
  <2>1. \/ received' = [received EXCEPT ![h] = <<>>] /\ buffer' = buffer /\ LeaveSelect(h)
        \/ buffer' = [buffer EXCEPT ![h] = <<>>] /\ received' = received /\ ~LeaveSelect(h)
    BY <1>2 DEF LeaveSelect, Unsubscribe, bus
  <2>2. received[h] \in Seq(Payload) /\ buffer[h] \in Seq(Payload)
    BY <1>t
  <2>3. from \in [Handlers -> Nat]
    <3> HIDE DEF Payload
    <3> QED BY <2>2
  <2>4. ASSUME NEW g \in Handlers, NEW i \in DOMAIN Got(g)'
        PROVE  i + from[g] \in DOMAIN Got(g) /\ Got(g)'[i] = Got(g)[i + from[g]]
    <3>1. CASE g # h
      <4>1. Got(g)' = Got(g) /\ from[g] = 0
        BY <2>1, <3>1, <1>t DEF Got
      <4>2. Got(g) \in Seq(Payload)
        <5>1. received[g] \in Seq(Payload) /\ buffer[g] \in Seq(Payload)
          BY <1>t
        <5> HIDE DEF Payload
        <5> QED BY <5>1 DEF Got
      <4>3. i + 0 = i
        <5> HIDE DEF Payload
        <5> QED BY <4>1, <4>2
      <4> QED BY <4>1, <4>3
    <3>2. CASE g = h /\ LeaveSelect(h)
      <4>1. Got(g)' = <<>> \o buffer[g] /\ from[g] = Len(received[g])
        BY <2>1, <3>2, <1>t DEF Got
      <4>2. \A k \in DOMAIN (<<>> \o buffer[h]) :
              /\ k + Len(received[h]) \in DOMAIN (received[h] \o buffer[h])
              /\ (<<>> \o buffer[h])[k] = (received[h] \o buffer[h])[k + Len(received[h])]
        <5> HIDE DEF Payload
        <5> QED BY ZenonT(40), <2>2, PartsOf
      <4>3. Got(g) = received[h] \o buffer[h] /\ i \in DOMAIN (<<>> \o buffer[h])
        BY <3>2, <4>1 DEF Got
      <4> HIDE DEF from
      <4> QED BY <4>1, <4>2, <4>3, <3>2, Zenon
    <3>3. CASE g = h /\ ~LeaveSelect(h)
      <4>1. Got(g)' = received[g] \o <<>> /\ from[g] = 0
        BY <2>1, <3>3, <1>t DEF Got
      <4>2. \A k \in DOMAIN (received[h] \o <<>>) :
              /\ k \in DOMAIN (received[h] \o buffer[h]) /\ k + 0 = k
              /\ (received[h] \o <<>>)[k] = (received[h] \o buffer[h])[k]
        <5> HIDE DEF Payload
        <5> QED BY ZenonT(40), <2>2, PartsOf
      <4>3. Got(g) = received[h] \o buffer[h] /\ i \in DOMAIN (received[h] \o <<>>)
        BY <3>3, <4>1 DEF Got
      <4>4. i \in DOMAIN Got(g) /\ Got(g)'[i] = Got(g)[i] /\ i + 0 = i
        <5> HIDE DEF from
        <5> QED BY <4>1, <4>2, <4>3, <3>3, Zenon
      <4> QED BY <4>1, <4>4
    <3> QED BY <3>1, <3>2, <3>3
  <2> HIDE DEF from
  <2> QED BY <2>3, <2>4, NothingNew
<1>3. ASSUME NEW p \in Publishers, Send(p), ~UNCHANGED buffer PROVE OrderInv'
  <2>0. publish[p].subs # <<>> /\ publish[p].subs \in Seq(Handlers) /\ publish[p].n \in Nat
    BY <1>3, <1>t DEF Send
  <2>c. PICK c \in Handlers : c = Head(publish[p].subs)
    BY <2>0, TailElements
  <2>m. PICK m \in Payload : m = Message(p)
    BY <1>t DEF Message, Payload
  <2> DEFINE old == Got(c)
  <2>1. /\ publish[p].at = "send" /\ publish[p].subs # <<>>
        /\ buffer' = [buffer EXCEPT ![c] = Append(@, m)]
        /\ publish' = [publish EXCEPT ![p].subs = Tail(@)] /\ UNCHANGED <<received, stream>>
    BY <1>3, <2>c, <2>m DEF Send, clients
  <2>2. publish[p].subs \in Seq(Handlers) /\ publish[p].n \in Nat
    BY <2>0
  <2>3. /\ c = publish[p].subs[1] /\ 1 \in DOMAIN publish[p].subs
        /\ Tail(publish[p].subs) \in Seq(Handlers)
        /\ \A j \in DOMAIN Tail(publish[p].subs) :
             j \in Int /\ j > 0 /\ j + 1 \in DOMAIN publish[p].subs
             /\ Tail(publish[p].subs)[j] = publish[p].subs[j + 1]
    BY <2>0, <2>c, TailElements
  <2>4. m \in Payload /\ m.from = p /\ m.n = publish[p].n /\ m.run = publish[p].run
    BY <2>m DEF Message
  <2>5. stream[c].run = publish[p].run /\ stream[c].at # "start"
    BY <2>3 DEF CopyInv
  <2>6. /\ publish'[p].subs = Tail(publish[p].subs) /\ publish'[p].n = publish[p].n
        /\ \A q \in Publishers \ {p} : publish'[q] = publish[q]
        /\ \A q \in Publishers : publish'[q].n = publish[q].n
    BY <2>1, <1>t
  <2>7. \A k \in DOMAIN publish'[p].subs : publish'[p].subs[k] # c
    BY <2>3, <2>6 DEF CopyInv
  <2>8. \A g \in Handlers \ {c} : Got(g)' = Got(g)
    BY <2>1, <1>t DEF Got
  <2>9. Got(c)' = received[c] \o Append(buffer[c], m)
    BY <2>1, <2>3, <1>t DEF Got
  <2>10. /\ DOMAIN old = 1..Len(old) /\ Len(old) \in Nat
         /\ DOMAIN Got(c)' = 1..(Len(old) + 1)
         /\ \A i \in DOMAIN old : Got(c)'[i] = old[i] /\ old[i] \in Payload
         /\ Got(c)'[Len(old) + 1] = m
    <3> HIDE DEF Payload
    <3>1. received[c] \in Seq(Payload) /\ buffer[c] \in Seq(Payload) /\ m \in Payload
      BY <1>t, <2>3, <2>4
    <3>2. old = received[c] \o buffer[c]
      BY DEF Got
    <3> HIDE DEF old
    <3>3. ASSUME NEW r \in Seq(Payload), NEW b \in Seq(Payload), r = received[c], b = buffer[c]
          PROVE  /\ DOMAIN old = 1..Len(old) /\ Len(old) \in Nat
                 /\ DOMAIN Got(c)' = 1..(Len(old) + 1)
                 /\ \A i \in DOMAIN old : Got(c)'[i] = old[i] /\ old[i] \in Payload
                 /\ Got(c)'[Len(old) + 1] = m
      <4>1. old = r \o b /\ Got(c)' = r \o Append(b, m)
        BY <3>2, <3>3, <2>9
      <4>2. /\ DOMAIN (r \o b) = 1..Len(r \o b) /\ Len(r \o b) \in Nat
            /\ DOMAIN (r \o Append(b, m)) = 1..(Len(r \o b) + 1)
            /\ \A i \in DOMAIN (r \o b) :
                 (r \o Append(b, m))[i] = (r \o b)[i] /\ (r \o b)[i] \in Payload
            /\ (r \o Append(b, m))[Len(r \o b) + 1] = m
        BY SentLast
      <4> QED BY <4>1, <4>2, Zenon
    <3> QED BY <3>1, <3>3
  <2>11. \A i \in DOMAIN old : old[i].from \in Publishers /\ old[i].n \in Nat
    BY <2>10 DEF Payload
  <2>12. \A i \in DOMAIN old : old[i].from = p => old[i].n < publish[p].n
    BY <2>3 DEF OrderInv
  <2>13. /\ \A i, j \in DOMAIN old : i < j /\ old[i].from = old[j].from => old[i].n < old[j].n
         /\ \A i \in DOMAIN old : old[i].run = stream[c].run
         /\ \A i \in DOMAIN old : old[i].n <= publish[old[i].from].n
    BY ZenonT(40), <2>3 DEF OrderInv, OrderedPerPublisher, Got
  <2> HIDE DEF old
  <2>14. \A i \in DOMAIN Got(c)' :
           \/ i \in DOMAIN old /\ Got(c)'[i] = old[i]
           \/ i = Len(old) + 1 /\ Got(c)'[i] = m
    BY <2>10
  <2>15. ASSUME NEW h \in Handlers
         PROVE  /\ \A i, j \in DOMAIN Got(h)' :
                     i < j /\ Got(h)'[i].from = Got(h)'[j].from => Got(h)'[i].n < Got(h)'[j].n
                /\ \A i \in DOMAIN Got(h)' : Got(h)'[i].run = stream'[h].run
                /\ \A i \in DOMAIN Got(h)' : Got(h)'[i].n <= publish'[Got(h)'[i].from].n
                /\ stream'[h].at = "start" => Got(h)' = <<>>
    <3>1. CASE h = c
      <4>1. ASSUME NEW i \in DOMAIN Got(c)', NEW j \in DOMAIN Got(c)', i < j,
                   Got(c)'[i].from = Got(c)'[j].from
            PROVE  Got(c)'[i].n < Got(c)'[j].n
        <5>1. i \in DOMAIN old /\ Got(c)'[i] = old[i]
          BY <4>1, <2>10, <2>14
        <5>2. CASE j \in DOMAIN old /\ Got(c)'[j] = old[j]
          BY <4>1, <5>1, <5>2, <2>13
        <5>3. CASE Got(c)'[j] = m
          BY <4>1, <5>1, <5>3, <2>4, <2>12
        <5> QED BY <5>2, <5>3, <2>14
      <4>2. ASSUME NEW i \in DOMAIN Got(c)'
            PROVE  /\ Got(c)'[i].run = stream'[c].run
                   /\ Got(c)'[i].n <= publish'[Got(c)'[i].from].n
        <5>1. CASE i \in DOMAIN old /\ Got(c)'[i] = old[i]
          BY <5>1, <2>1, <2>6, <2>11, <2>13
        <5>2. CASE Got(c)'[i] = m
          BY <5>2, <2>1, <2>2, <2>4, <2>5, <2>6
        <5> QED BY <5>1, <5>2, <2>14
      <4> QED BY <3>1, <4>1, <4>2, <2>1, <2>5
    <3>2. CASE h # c
      <4>1. Got(h)' = Got(h)
        BY <3>2, <2>8
      <4>2. /\ \A i, j \in DOMAIN Got(h) :
                 i < j /\ Got(h)[i].from = Got(h)[j].from => Got(h)[i].n < Got(h)[j].n
            /\ \A i \in DOMAIN Got(h) : Got(h)[i].run = stream[h].run
            /\ \A i \in DOMAIN Got(h) : Got(h)[i].n <= publish[Got(h)[i].from].n
            /\ stream[h].at = "start" => Got(h) = <<>>
        BY DEF OrderInv, OrderedPerPublisher, Got
      <4>3. \A i \in DOMAIN Got(h) : Got(h)[i].from \in Publishers
        <5>1. \A i \in DOMAIN Got(h) : Got(h)[i] \in Payload
          <6> HIDE DEF Payload
          <6>1. Got(h) \in Seq(Payload)
            BY <1>t DEF Got
          <6> QED BY <6>1
        <5> QED BY <5>1 DEF Payload
      <4> QED BY <4>1, <4>2, <4>3, <2>1, <2>6
    <3> QED BY <3>1, <3>2
  <2>16. ASSUME NEW q \in Publishers, NEW k \in DOMAIN publish'[q].subs, NEW g \in Handlers,
                g = publish'[q].subs[k], NEW i \in DOMAIN Got(g)', Got(g)'[i].from = q
         PROVE  Got(g)'[i].n < publish'[q].n
    <3>1. \E l \in DOMAIN publish[q].subs : publish[q].subs[l] = g
      <4>1. CASE q = p
        <5>1. k + 1 \in DOMAIN publish[p].subs /\ publish'[p].subs[k] = publish[p].subs[k + 1]
          BY <4>1, <2>3, <2>6
        <5> QED BY <5>1, <4>1, <2>16
      <4>2. CASE q # p
        BY <4>2, <2>6, <2>16
      <4> QED BY <4>1, <4>2
    <3>2. \A j \in DOMAIN Got(g) : Got(g)[j].from = q => Got(g)[j].n < publish[q].n
      BY <3>1 DEF OrderInv
    <3>3. CASE g = c
      <4>1. q # p
        BY <3>3, <2>7, <2>16
      <4>2. i \in DOMAIN old /\ Got(c)'[i] = old[i]
        BY <4>1, <3>3, <2>4, <2>14, <2>16
      <4> QED BY <4>2, <3>2, <3>3, <2>6, <2>16 DEF old
    <3>4. CASE g # c
      BY <3>2, <3>4, <2>6, <2>8, <2>16
    <3> QED BY <3>3, <3>4
  <2>17. OrderedPerPublisher'
    BY <2>15 DEF OrderedPerPublisher, Got
  <2> QED BY <2>15, <2>16, <2>17 DEF OrderInv
<1>4. CASE UNCHANGED <<buffer, received>>
  <2>1. \A h \in Handlers : Got(h)' = Got(h)
    BY <1>4 DEF Got
  <2> QED BY <2>1, NothingMoves
<1>5. ASSUME NEW h \in Handlers, Subscribe(h) \/ Disconnect(h)
      PROVE  UNCHANGED <<buffer, received>>
  BY <1>5 DEF Subscribe, Disconnect, bus
<1>6. ASSUME NEW p \in Publishers, Copy(p) \/ Finish(p) \/ Panic(p)
      PROVE  UNCHANGED <<buffer, received>>
  BY <1>6 DEF Copy, Finish, Panic, bus, clients
<1>7. ASSUME NEW p \in Publishers, Send(p), UNCHANGED buffer PROVE UNCHANGED <<buffer, received>>
  BY <1>7 DEF Send, clients
<1>8. CASE IdleBus
  BY <1>8, <1>4 DEF IdleBus, bus, clients
<1> QED BY <1>1, <1>2, <1>3, <1>4, <1>5, <1>6, <1>7, <1>8 DEF BusStep, Next, Stream, Done, Overstay, Continue

-----------------------------------------------------------------------------
(* What is lost.                                                           *)

LEMMA OneMoves == ASSUME NEW a \in Nat, NEW b \in Nat PROVE (a + 1) + (b - 1) = a + b
  OBVIOUS

LEMMA LossStep == ASSUME TypeOK, LossNeedsBacklog, BusStep PROVE LossNeedsBacklog'
<1>t. /\ received \in [Handlers -> Seq(Payload)] /\ buffer \in [Handlers -> Seq(Payload)]
      /\ lost \subseteq Handlers
      /\ \A p \in Publishers : publish[p].subs \in Seq(Handlers)
  BY DEF TypeOK
<1>n. /\ \A h \in Handlers : Len(received[h]) \in Nat /\ Len(buffer[h]) \in Nat
      /\ subBufferSize \in Nat
  <2> HIDE DEF Payload
  <2> QED BY <1>t, EventBusAssumption
<1>1. ASSUME NEW h \in Handlers, Receive(h) PROVE LossNeedsBacklog'
  <2>1. /\ Len(Append(received[h], Head(buffer[h]))) = Len(received[h]) + 1
        /\ Len(Tail(buffer[h])) = Len(buffer[h]) - 1
    <3>1. received[h] \in Seq(Payload) /\ buffer[h] \in Seq(Payload) /\ buffer[h] # <<>>
      BY <1>1, <1>t DEF Receive
    <3> HIDE DEF Payload
    <3>2. Head(buffer[h]) \in Payload
      BY <3>1
    <3> QED BY <3>1, <3>2
  <2>2. /\ received'[h] = Append(received[h], Head(buffer[h])) /\ buffer'[h] = Tail(buffer[h])
        /\ \A g \in Handlers \ {h} : received'[g] = received[g] /\ buffer'[g] = buffer[g]
        /\ lost' = lost
    BY <1>1, <1>t DEF Receive, calls
  <2>3. ASSUME NEW g \in lost
        PROVE  Len(received'[g]) + Len(buffer'[g]) = Len(received[g]) + Len(buffer[g])
    <3> HIDE DEF Payload
    <3>1. g \in Handlers /\ Len(received[g]) \in Nat /\ Len(buffer[g]) \in Nat
      BY <1>t, <1>n
    <3>2. CASE g = h
      <4>1. Len(received'[g]) = Len(received[g]) + 1 /\ Len(buffer'[g]) = Len(buffer[g]) - 1
        BY <2>1, <2>2, <3>2
      <4>2. (Len(received[g]) + 1) + (Len(buffer[g]) - 1) = Len(received[g]) + Len(buffer[g])
        BY <3>1, OneMoves
      <4> QED BY <4>1, <4>2, Zenon
    <3>3. CASE g # h
      BY <2>2, <3>1, <3>3
    <3> QED BY <3>2, <3>3
  <2> QED BY <2>2, <2>3 DEF LossNeedsBacklog
<1>2. ASSUME NEW h \in Handlers, LeaveSelect(h) \/ Unsubscribe(h) PROVE LossNeedsBacklog'
  <2>1. /\ lost' = lost \ {h}
        /\ \A g \in Handlers \ {h} : received'[g] = received[g] /\ buffer'[g] = buffer[g]
    BY <1>2, <1>t DEF LeaveSelect, Unsubscribe, bus
  <2> QED BY <2>1, <1>t DEF LossNeedsBacklog
<1>3. ASSUME NEW p \in Publishers, Send(p) PROVE LossNeedsBacklog'
  <2> DEFINE c == Head(publish[p].subs)
  <2>1. c \in Handlers /\ received' = received
    BY <1>3, <1>t DEF Send, clients
  <2> HIDE DEF c
  <2>2. CASE buffer' = [buffer EXCEPT ![c] = Append(@, Message(p))] /\ lost' = lost
    <3>1. Len(Append(buffer[c], Message(p))) = Len(buffer[c]) + 1
      <4>1. buffer[c] \in Seq(Payload) /\ Message(p) \in Payload
        BY <2>1, <1>t DEF TypeOK, Message, Payload
      <4> HIDE DEF Payload
      <4> QED BY <4>1
    <3>2. ASSUME NEW g \in lost PROVE Len(buffer'[g]) >= Len(buffer[g])
      BY <2>2, <3>1, <2>1, <1>n, <1>t
    <3>3. ASSUME NEW g \in lost PROVE Len(buffer'[g]) \in Nat
      BY <2>2, <3>1, <2>1, <1>n, <1>t
    <3> QED BY <2>1, <2>2, <3>2, <3>3, <1>n, <1>t DEF LossNeedsBacklog
  <2>3. CASE ~Room(c) /\ lost' = lost \cup {c} /\ UNCHANGED buffer
    BY <2>1, <2>3, <1>n, <1>t DEF LossNeedsBacklog, Room
  <2> QED BY <1>3, <2>2, <2>3 DEF Send, c
<1>4. CASE UNCHANGED <<received, buffer, lost>>
  BY <1>4 DEF LossNeedsBacklog
<1>5. ASSUME NEW h \in Handlers, Subscribe(h) \/ Disconnect(h)
      PROVE  UNCHANGED <<received, buffer, lost>>
  BY <1>5 DEF Subscribe, Disconnect, bus, calls
<1>6. ASSUME NEW p \in Publishers, Copy(p) \/ Finish(p) \/ Panic(p)
      PROVE  UNCHANGED <<received, buffer, lost>>
  BY <1>6 DEF Copy, Finish, Panic, bus, clients, calls
<1>7. CASE IdleBus
  BY <1>7, <1>4 DEF IdleBus, bus, clients, calls
<1> QED
  BY <1>1, <1>2, <1>3, <1>4, <1>5, <1>6, <1>7
     DEF BusStep, Next, Stream, Done, Overstay, Continue

-----------------------------------------------------------------------------
(* The server around the bus.                                              *)

LEMMA ServeType == ASSUME ServeTypeOK, [ServeNext]_serveVars PROVE ServeTypeOK'
<1>t. /\ TypeOK /\ main \in {"starting", "select", "draining"}
      /\ listener \in {"binding", "open", "closed", "error"} /\ plain \in BOOLEAN
      /\ request \in [Handlers -> {"none", "active", "hijacked", "over"}]
      /\ socket \in [Handlers -> [main : {"none", "loop", "returned"},
                                  reader : {"none", "reading", "done"}]]
  BY DEF ServeTypeOK
<1>p. process' \in {"up", "panicked", "killed", "stopped", "failed"}
  <2>1. ASSUME NEW h \in Handlers,
               \/ StreamRun(h) \/ Leave(h) \/ Accept(h) \/ RefuseHandler(h)
               \/ Upgrade(h) \/ ReadEnds(h) \/ SocketReturns(h)
        PROVE  process' = process
    BY <2>1 DEF StreamRun, Leave, Accept, RefuseHandler, Upgrade, ReadEnds, SocketReturns,
       Stream, Subscribe, Receive, Done, Overstay, LeaveSelect, Unsubscribe, Disconnect, Alive
  <2>2. ASSUME NEW p \in Publishers, Publish(p) PROVE process' \in {process, "panicked"}
    BY <2>2 DEF Publish, Continue, Copy, Send, Finish, Panic, Alive
  <2>3. ASSUME \/ Bind \/ BindFails \/ Killed \/ Notify \/ ServerError
               \/ BeginShutdown \/ Drained \/ DrainTimesOut
        PROVE  process' \in {process, "killed", "stopped", "failed"}
    BY <2>3 DEF Bind, BindFails, Killed, Notify, ServerError, BeginShutdown, Drained,
       DrainTimesOut, Alive
  <2>4. ASSUME UNCHANGED serveVars PROVE process' = process
    BY <2>4 DEF serveVars, vars
  <2>5. process \in {"up", "panicked", "killed", "stopped", "failed"}
    BY <1>t DEF TypeOK
  <2> QED
    BY <2>1, <2>2, <2>3, <2>4, <2>5 DEF ServeNext
<1>b. TypeOK'
  BY <1>t, <1>p, Steps, BusType
<1>1. ASSUME NEW h \in Handlers, StreamRun(h) \/ Leave(h) PROVE UNCHANGED <<serve, plain, requests>>
  BY <1>1 DEF StreamRun, Leave
<1>2. ASSUME NEW p \in Publishers, Publish(p) PROVE UNCHANGED <<serve, plain, requests>>
  BY <1>2 DEF Publish
<1>3. CASE UNCHANGED <<serve, plain, requests>>
  BY <1>3, <1>b, <1>t DEF serve, requests, ServeTypeOK
<1>4. ASSUME NEW h \in Handlers, Accept(h) \/ RefuseHandler(h) PROVE ServeTypeOK'
  BY <1>4, <1>b, <1>t DEF Accept, RefuseHandler, serve, ServeTypeOK
<1>5. ASSUME NEW h \in Handlers, Upgrade(h) PROVE ServeTypeOK'
  BY <1>5, <1>b, <1>t DEF Upgrade, serve, ServeTypeOK
<1>6. ASSUME NEW h \in Handlers, ReadEnds(h) PROVE ServeTypeOK'
  BY <1>6, <1>b, <1>t DEF ReadEnds, serve, ServeTypeOK
<1>7. ASSUME NEW h \in Handlers, SocketReturns(h) PROVE ServeTypeOK'
  BY <1>7, <1>b, <1>t DEF SocketReturns, serve, ServeTypeOK
<1>8. CASE Bind \/ BindFails \/ Notify \/ BeginShutdown
  BY <1>8, <1>b, <1>t DEF Bind, BindFails, Notify, BeginShutdown, requests, ServeTypeOK
<1>9. CASE Killed \/ ServerError \/ Drained \/ DrainTimesOut
  BY <1>9, <1>3 DEF Killed, ServerError, Drained, DrainTimesOut
<1>10. CASE UNCHANGED serveVars
  BY <1>10, <1>3 DEF serveVars
<1> QED BY <1>1, <1>2, <1>3, <1>4, <1>5, <1>6, <1>7, <1>8, <1>9, <1>10 DEF ServeNext

-----------------------------------------------------------------------------
LEMMA Initially == ServeInit => Inv
<1> SUFFICES ASSUME ServeInit PROVE Inv
  OBVIOUS
<1>i. /\ subscribers = [r \in Runs |-> <<>>] /\ buffer = [h \in Handlers |-> <<>>]
      /\ received = [h \in Handlers |-> <<>>] /\ open = {} /\ gone = {} /\ owed = {}
      /\ lost = {}
      /\ stream = [h \in Handlers |-> [at |-> "start", run |-> NoRun]]
      /\ publish = [p \in Publishers |-> [at |-> "idle", run |-> NoRun, n |-> 0, subs |-> <<>>]]
      /\ process = "up"
  BY DEF ServeInit, Init
<1>1. ServeTypeOK
  <2>1. TypeOK
    <3>1. <<>> \in Seq(Payload) /\ Len(<<>>) =< subBufferSize
      BY EventBusAssumption
    <3>2. buffer \in [Handlers -> Seq(Payload)] /\ received \in [Handlers -> Seq(Payload)]
          /\ \A h \in Handlers : Len(buffer[h]) =< subBufferSize
      <4> HIDE DEF Payload
      <4> QED BY <1>i, <3>1
    <3> HIDE DEF Payload
    <3> QED BY <1>i, <3>2, RunsChosen DEF TypeOK
  <2> QED BY <2>1 DEF ServeInit, ServeTypeOK
<1>2. ListInv /\ CopyInv /\ OwedInv
  BY <1>i DEF ListInv, CopyInv, OwedInv, NothingForgotten
<1>3. \A h \in Handlers : Got(h) = <<>>
  <2>1. <<>> \o <<>> = <<>>
    OBVIOUS
  <2> QED BY <2>1, <1>i DEF Got
<1>4. OrderInv
  <2>1. ASSUME NEW h \in Handlers PROVE DOMAIN (received[h] \o buffer[h]) = {}
    <3>1. DOMAIN <<>> = {}
      OBVIOUS
    <3>2. received[h] \o buffer[h] = <<>>
      BY <1>3 DEF Got
    <3> QED BY <3>1, <3>2, Zenon
  <2>2. OrderedPerPublisher
    <3>1. ASSUME NEW h \in Handlers
          PROVE  LET got == received[h] \o buffer[h]
                 IN  /\ \A i, j \in DOMAIN got :
                          i < j /\ got[i].from = got[j].from => got[i].n < got[j].n
                     /\ \A i \in DOMAIN got : got[i].run = stream[h].run
      BY <2>1, Zenon
    <3> QED BY <3>1, Zenon DEF OrderedPerPublisher
  <2>3. \A h \in Handlers : DOMAIN Got(h) = {}
    BY <2>1 DEF Got
  <2> QED BY <2>2, <2>3, <1>3, <1>i DEF OrderInv
<1>5. LossNeedsBacklog
  BY <1>i DEF LossNeedsBacklog
<1> QED BY <1>1, <1>2, <1>4, <1>5 DEF Inv

\* The types, the lists, the copies, the order, what is owed and what is
\* lost: all of them in every reachable state (Subscribe, Publish, StreamRun).
THEOREM ServeInductive == ServeSpec => []Inv
<1>1. ASSUME Inv, [ServeNext]_serveVars PROVE Inv'
  <2>1. ServeTypeOK /\ TypeOK /\ ListInv /\ CopyInv /\ OrderInv /\ OwedInv
        /\ LossNeedsBacklog /\ BusStep
    BY <1>1, Steps DEF Inv, ServeTypeOK
  <2>2. ServeTypeOK' /\ TypeOK'
    BY <1>1, <2>1, ServeType DEF ServeTypeOK
  <2> QED
    BY <1>1, <2>1, <2>2, ListStep, CopyStep, OrderStep, OwedStep, LossStep DEF Inv
<1> QED BY <1>1, Initially, PTL DEF ServeSpec

\* Every variable of the server and of its bus keeps its type, and no buffer is
\* ever longer than subBufferSize (Publish, StreamRun, WebSocket, serveCmd).
THEOREM ServeTypes == ServeSpec => []ServeTypeOK
<1>1. Inv => ServeTypeOK
  BY DEF Inv
<1> QED BY <1>1, ServeInductive, PTL

\* A channel is on the list of its handler's run, once, exactly while it is open
\* (Subscribe and its unsub).
THEOREM ListsAreOpen == ServeSpec => []ListedWhileOpen
<1>1. ASSUME Inv PROVE ListedWhileOpen
  <2>t. /\ \A r \in Runs : subscribers[r] \in Seq(Handlers)
        /\ \A h \in Handlers : stream[h].run \in Runs
    BY <1>1 DEF Inv, ServeTypeOK, TypeOK
  <2>l. ListInv
    BY <1>1 DEF Inv
  <2>1. ASSUME NEW h \in Handlers
        PROVE  /\ h \in open <=> stream[h].at \in {"select", "unsub"}
               /\ h \in open <=> h \in Listed(stream[h].run)
               /\ \A r \in Runs : h \in Listed(r) => r = stream[h].run
    <3>1. h \in open <=> stream[h].at \in {"select", "unsub"}
      BY <2>l DEF ListInv
    <3>2. h \in open => h \in Listed(stream[h].run)
      BY <2>l, <3>1 DEF ListInv, Listed, Range
    <3>3. ASSUME NEW r \in Runs, h \in Listed(r) PROVE r = stream[h].run /\ h \in open
      <4>1. PICK i \in DOMAIN subscribers[r] : subscribers[r][i] = h
        BY <3>3 DEF Listed, Range
      <4> QED BY <4>1, <3>1, <2>l DEF ListInv
    <3> QED BY <3>1, <3>2, <3>3, <2>t
  <2>2. ASSUME NEW h \in Handlers, NEW r \in Runs
        PROVE  Cardinality({i \in DOMAIN subscribers[r] : subscribers[r][i] = h}) =< 1
    <3> DEFINE places == {i \in DOMAIN subscribers[r] : subscribers[r][i] = h}
    <3>1. \A i, j \in places : i = j
      BY <2>l DEF ListInv
    <3> HIDE DEF places
    <3>2. CASE places = {}
      BY <3>2, FS_EmptySet DEF places
    <3>3. CASE \E i : places = {i}
      BY <3>3, FS_Singleton DEF places
    <3>4. places = {} \/ \E i : places = {i}
      BY <3>1
    <3> QED BY <3>2, <3>3, <3>4
  <2> QED BY <2>1, <2>2 DEF ListedWhileOpen
<1> QED BY <1>1, ServeInductive, PTL

\* What a client gets of one publisher is in the order published, without
\* repetition, and of the run it asked for (Publish, StreamRun).
THEOREM Ordered == ServeSpec => []OrderedPerPublisher
<1>1. Inv => OrderedPerPublisher
  BY DEF Inv, OrderInv
<1> QED BY <1>1, ServeInductive, PTL

\* No Publish passes over a channel that stays subscribed (Publish).
THEOREM NobodyPassedOver == ServeSpec => []NothingForgotten
<1>1. Inv => NothingForgotten
  BY DEF Inv, OwedInv
<1> QED BY <1>1, ServeInductive, PTL

\* Only a subscriber that has had as many payloads as its buffer holds loses any
\* (Publish: "Drops the message ... if a subscriber's buffer is full").
THEOREM OnlyTheSlowLose == ServeSpec => []LossNeedsBacklog
<1>1. Inv => LossNeedsBacklog
  BY DEF Inv
<1> QED BY <1>1, ServeInductive, PTL
=============================================================================
