--------------------------- MODULE LlmStreamProofs ---------------------------
(***************************************************************************)
(* For any providers, size of the channel and length of the response: the  *)
(* type correctness of LlmStream, that no text is lost or reordered on its *)
(* way to the caller, and that a failure of the response reaches it.       *)
(***************************************************************************)
EXTENDS LlmStream, TLAPS

\* All that was ever handed to send, what is still to be sent included.
Pending == Sent \o todo

\* The loop is over: drainStream reads no more.
Finishing == at \in {"error", "close", "closed"} \/ (at = "send" /\ after # "next")

\* What the three parts of TextIsComplete say of a stream s of events and of the
\* text of a response.
Ordered(s) == \A i, j \in Deltas(s) : i < j => s[i].text[1] < s[j].text[1]

EndsWith(s, text) ==
  \A i \in DOMAIN s : s[i].kind = "end" =>
    s[i].text = text /\ \A j \in Deltas(s) : j < i

Tells(s, text) == Ordered(s) /\ Heard(s) \subseteq Range(text) /\ EndsWith(s, text)

NoEnd(s) == \A i \in DOMAIN s : s[i].kind # "end"

TextInv ==
  /\ allContent = said
  /\ Range(said) \subseteq 1..chunks
  /\ at # "send" => todo = <<>>
  /\ Tells(Pending, said)
  /\ NoEnd(Pending) \/ Finishing
  /\ ~cancelled => Heard(Pending) = Range(said)

\* How the stream ends says how the response did, while nobody cancels.
EndInv ==
  ~cancelled =>
    /\ ended # "no" <=> Finishing
    /\ Whole =>
         /\ at # "error" /\ (at = "send" => after = "close")
         /\ Pending # <<>> /\ Last(Pending).kind = "end"
    /\ ended = "eof" /\ ~Whole => NoEnd(Pending) /\ at \in {"close", "closed"}
    /\ ended = "failed" =>
         /\ at = "send" => after = "error"
         /\ at \in {"close", "closed"} =>
              Pending # <<>> /\ Last(Pending).kind = "error"

NoError(s) == \A i \in DOMAIN s : s[i].kind # "error"

\* An error event is for a response that failed, or for a cancellation.
ErrorInv ==
  NoError(Pending) \/ (at \in {"close", "closed"} /\ (cancelled \/ ended = "failed"))

-----------------------------------------------------------------------------
(* Types.                                                                  *)

\* The events of drainStream are events.
LEMMA EventsAreEvents ==
  /\ \A n \in 1..MaxChunks : Delta(n) \in Event
  /\ ToolDelta \in Event /\ Error \in Event
  /\ \A text \in Texts : End(text) \in Event
<1>1. \A n \in 1..MaxChunks : <<n>> \in Texts
  BY DEF Texts
<1>2. <<>> \in Texts
  BY DEF Texts
<1> QED
  BY <1>1, <1>2 DEF Event, Delta, ToolDelta, Error, End

\* Reading a chunk keeps the types.
LEMMA ReadTypes == TypeOK /\ ReadChunk => TypeOK'
<1> SUFFICES ASSUME TypeOK, ReadChunk PROVE TypeOK'
  OBVIOUS
<1> USE LlmStreamAssumption, EventsAreEvents
<1>1. CASE ReadCancelled
  BY <1>1 DEF ReadCancelled, Read, TypeOK, caller
<1>2. CASE ReadText
  <2> DEFINE n == chunks + 1
  <2>1. n \in 1..MaxChunks /\ n \in Int
    BY <1>2 DEF ReadText, Read, TypeOK
  <2>2. said' \in Texts /\ allContent' \in Texts
    BY <1>2, <2>1 DEF ReadText, Accumulate, TypeOK, Texts
  <2>3. Delta(n) \in Event /\ End(allContent') \in Event
    BY <2>1, <2>2
  <2> HIDE DEF n
  <2>4. /\ at' = "send" /\ todo' \in Seq(Event) /\ after' \in {"next", "close"}
        /\ ended' \in {"no", "stop", "eof", "failed"}
    <3>1. CASE Handle(<<Delta(n)>>, "next") /\ UNCHANGED ended
      BY <3>1, <2>3 DEF Handle, TypeOK
    <3>2. CASE Handle(<<Delta(n), ToolDelta>>, "next") /\ UNCHANGED ended
      BY <3>2, <2>3 DEF Handle, TypeOK
    <3>3. CASE Handle(<<Delta(n), End(allContent')>>, "close") /\ ended' = "stop"
      BY <3>3, <2>3 DEF Handle
    <3> QED
      BY <1>2, <3>1, <3>2, <3>3 DEF ReadText, n
  <2> QED
    BY <1>2, <2>1, <2>2, <2>4 DEF ReadText, Read, TypeOK, caller, n
<1>3. CASE ReadToolCall
  BY <1>3 DEF ReadToolCall, Read, Handle, TypeOK, caller
<1>4. CASE ReadOther
  BY <1>4 DEF ReadOther, Read, Handle, TypeOK, caller
<1>5. CASE ReadStop
  BY <1>5 DEF ReadStop, Read, Handle, TypeOK, caller
<1>6. CASE ReadMalformed
  BY <1>6 DEF ReadMalformed, Read, TypeOK, caller
<1> QED
  BY <1>1, <1>2, <1>3, <1>4, <1>5, <1>6 DEF ReadChunk

\* Sending an event, or dropping it, leaves a buffer that is not too long.
LEMMA PassTypes ==
  ASSUME TypeOK, NEW e \in Event, Passes(e)
  PROVE  buffer' \in Seq(Event) /\ Len(buffer') =< bufferSize
<1>1. buffer \in Seq(Event) /\ Len(buffer) \in Nat /\ Len(buffer) =< bufferSize
  BY DEF TypeOK
<1>2. CASE Len(buffer) < bufferSize /\ buffer' = Append(buffer, e)
  <2>1. buffer' \in Seq(Event) /\ Len(buffer') = Len(buffer) + 1
    BY <1>1, <1>2
  <2> QED
    BY <1>1, <1>2, <2>1, LlmStreamAssumption
<1>3. CASE UNCHANGED buffer
  BY <1>1, <1>3
<1> QED
  BY <1>2, <1>3 DEF Passes

LEMMA TypeInductive == TypeOK /\ [Next]_vars => TypeOK'
<1> SUFFICES ASSUME TypeOK, [Next]_vars PROVE TypeOK'
  OBVIOUS
<1> USE LlmStreamAssumption, EventsAreEvents
<1>1. CASE ReadChunk
  BY <1>1, ReadTypes
<1>2. CASE Exhausted
  <2>1. PICK failed \in BOOLEAN :
          ended' = (IF failed THEN "failed" ELSE "eof") /\ Conclude(failed)
    BY <1>2 DEF Exhausted
  <2>2. ended' \in {"no", "stop", "eof", "failed"}
    BY <2>1
  <2>3. End(allContent) \in Event
    BY DEF TypeOK
  <2>4. /\ at' \in {"next", "send", "error", "close", "closed"}
        /\ todo' \in Seq(Event) /\ after' \in {"next", "error", "close"}
    <3>1. CASE provider = "openai"
      <4>1. at' = "send" /\ todo' = <<End(allContent)>> /\ after' \in {"error", "close"}
        BY <2>1, <3>1 DEF Conclude, Handle
      <4> QED
        BY <4>1, <2>3
    <3>2. CASE provider # "openai"
      <4>1. at' \in {"error", "close"} /\ todo' = todo /\ after' = after
        BY <2>1, <3>2 DEF Conclude
      <4> QED
        BY <4>1 DEF TypeOK
    <3> QED
      BY <3>1, <3>2
  <2> QED
    BY <1>2, <2>2, <2>4 DEF Exhausted, TypeOK, caller
<1>3. CASE Send
  <2>1. CASE todo = <<>>
    BY <1>3, <2>1 DEF Send, TypeOK, caller
  <2>2. CASE todo # <<>>
    <3>1. Head(todo) \in Event /\ Tail(todo) \in Seq(Event)
      BY <2>2 DEF TypeOK
    <3> QED
      BY <1>3, <2>2, <3>1, PassTypes DEF Send, TypeOK, caller
  <2> QED
    BY <2>1, <2>2
<1>4. CASE SendError
  BY <1>4, PassTypes DEF SendError, TypeOK, caller
<1>5. CASE Close
  BY <1>5 DEF Close, TypeOK, caller
<1>6. CASE Receive
  <2>1. Head(buffer) \in Event /\ Tail(buffer) \in Seq(Event) /\ Len(Tail(buffer)) =< bufferSize
    BY <1>6 DEF Receive, TypeOK
  <2> QED
    BY <1>6, <2>1 DEF Receive, TypeOK, reader
<1>7. CASE StopReading
  BY <1>7 DEF StopReading, TypeOK, reader
<1>8. CASE Cancel
  BY <1>8 DEF Cancel, TypeOK, reader
<1>9. CASE UNCHANGED vars
  BY <1>9 DEF vars, reader, caller, TypeOK
<1> QED
  BY <1>1, <1>2, <1>3, <1>4, <1>5, <1>6, <1>7, <1>8, <1>9 DEF Next

LEMMA TypeInitial == Init => TypeOK
<1> SUFFICES ASSUME Init PROVE TypeOK
  OBVIOUS
<1>1. <<>> \in Seq(Event) /\ <<>> \in Texts /\ Len(<<>>) = 0
  BY DEF Texts
<1>2. chunks \in 0..MaxChunks /\ Len(buffer) =< bufferSize
  BY <1>1, LlmStreamAssumption DEF Init
<1> QED
  BY <1>1, <1>2 DEF Init, TypeOK

\* The channel never holds more than it has room for, and every variable keeps
\* its type.
THEOREM TypeCorrect == Spec => []TypeOK
BY TypeInitial, TypeInductive, PTL DEF Spec

-----------------------------------------------------------------------------
(* Streams of events.                                                      *)

LEMMA RangeAppend ==
  ASSUME NEW s \in Texts, NEW e \in 1..MaxChunks
  PROVE  Range(Append(s, e)) = Range(s) \cup {e}
<1> DEFINE t == Append(s, e)
<1>1. /\ DOMAIN s = 1..Len(s) /\ DOMAIN t = 1..(Len(s) + 1) /\ Len(s) \in Nat
      /\ t[Len(s) + 1] = e /\ \A i \in 1..Len(s) : t[i] = s[i]
  BY DEF Texts
<1> HIDE DEF t
<1>2. Range(t) \subseteq Range(s) \cup {e}
  <2> SUFFICES ASSUME NEW i \in 1..(Len(s) + 1) PROVE t[i] \in Range(s) \cup {e}
    BY <1>1 DEF Range
  <2>1. i \in 1..Len(s) \/ i = Len(s) + 1
    BY <1>1
  <2> QED
    BY <1>1, <2>1 DEF Range
<1>3. Range(s) \cup {e} \subseteq Range(t)
  <2>1. \A i \in 1..Len(s) : i \in 1..(Len(s) + 1)
    BY <1>1
  <2>2. Len(s) + 1 \in 1..(Len(s) + 1)
    BY <1>1
  <2> QED
    BY <1>1, <2>1, <2>2 DEF Range
<1> QED
  BY <1>2, <1>3 DEF t

\* An event put at the end leaves the others where they are.
LEMMA AtTheEnd ==
  ASSUME NEW s \in Seq(Event), NEW e \in Event, NEW t, t = Append(s, e)
  PROVE  /\ t \in Seq(Event) /\ Len(t) = Len(s) + 1 /\ Len(s) \in Nat
         /\ t[Len(t)] = e
         /\ DOMAIN s = 1..Len(s) /\ DOMAIN t = 1..Len(t)
         /\ \A i \in DOMAIN s : i \in DOMAIN t /\ i < Len(t) /\ t[i] = s[i]
         /\ \A i \in DOMAIN t : i \in DOMAIN s \/ i = Len(t)
OBVIOUS

\* An event that is no delta changes nothing of what is heard.
LEMMA OtherEvent ==
  ASSUME NEW s \in Seq(Event), NEW e \in Event, e.kind # "delta", NEW t, t = Append(s, e)
  PROVE  /\ Deltas(t) = Deltas(s) /\ Heard(t) = Heard(s)
         /\ Ordered(s) => Ordered(t)
         /\ NoEnd(s) /\ e.kind # "end" => NoEnd(t)
<1>1. Deltas(t) = Deltas(s)
  BY AtTheEnd DEF Deltas
<1>2. \A i \in Deltas(s) : t[i] = s[i]
  BY AtTheEnd DEF Deltas
<1>3. Heard(t) = Heard(s)
  BY <1>1, <1>2 DEF Heard
<1>4. Ordered(s) => Ordered(t)
  BY ZenonT(40), <1>1, <1>2 DEF Ordered
<1>5. NoEnd(s) /\ e.kind # "end" => NoEnd(t)
  BY AtTheEnd DEF NoEnd
<1> QED
  BY <1>1, <1>3, <1>4, <1>5

\* The error event and a tool call tell no text.
LEMMA TellsOther ==
  ASSUME NEW s \in Seq(Event), NEW e \in Event, e.kind \notin {"delta", "end"},
         NEW text, Tells(s, text), NEW t, t = Append(s, e)
  PROVE  Tells(t, text) /\ Heard(t) = Heard(s) /\ (NoEnd(s) => NoEnd(t))
<1>1. /\ Deltas(t) = Deltas(s) /\ Heard(t) = Heard(s)
      /\ Ordered(t) /\ (NoEnd(s) => NoEnd(t))
  BY OtherEvent DEF Tells
<1>2. EndsWith(t, text)
  BY <1>1, AtTheEnd DEF EndsWith, Tells
<1> QED
  BY <1>1, <1>2 DEF Tells

\* The final response carries the whole text and comes after every delta.
LEMMA TellsEnd ==
  ASSUME NEW s \in Seq(Event), NEW text \in Texts, Tells(s, text),
         NEW t, t = Append(s, End(text))
  PROVE  Tells(t, text) /\ Heard(t) = Heard(s)
<1>e. End(text) \in Event /\ End(text).kind = "end" /\ End(text).text = text
  BY DEF End, Event
<1>1. Deltas(t) = Deltas(s) /\ Heard(t) = Heard(s) /\ Ordered(t)
  BY <1>e, OtherEvent DEF Tells
<1>2. \A j \in Deltas(s) : j < Len(t)
  BY <1>e, AtTheEnd DEF Deltas
<1>3. EndsWith(t, text)
  <2> SUFFICES ASSUME NEW i \in DOMAIN t, t[i].kind = "end"
               PROVE  t[i].text = text /\ \A j \in Deltas(t) : j < i
    BY DEF EndsWith
  <2>1. CASE i \in DOMAIN s
    <3>1. t[i] = s[i]
      BY <2>1, <1>e, AtTheEnd
    <3> QED
      BY <2>1, <3>1, <1>1 DEF Tells, EndsWith
  <2>2. CASE i = Len(t)
    <3>1. t[i] = End(text)
      BY <2>2, <1>e, AtTheEnd
    <3> QED
      BY <2>2, <3>1, <1>e, <1>1, <1>2
  <2> QED
    BY <2>1, <2>2, <1>e, AtTheEnd
<1> QED
  BY <1>1, <1>3 DEF Tells

Newer(n, text) == \A m \in Range(text) : m < n

\* A delta of a chunk that was just read comes after all text before it.
LEMMA TellsDelta ==
  ASSUME NEW s \in Seq(Event), NEW text \in Texts, NEW n \in 1..MaxChunks, Newer(n, text), Tells(s, text), NoEnd(s)
  PROVE  /\ Tells(Append(s, Delta(n)), Append(text, n)) /\ NoEnd(Append(s, Delta(n)))
         /\ Heard(Append(s, Delta(n))) = Heard(s) \cup {n}
<1> DEFINE d == Delta(n)
           t == Append(s, d)
<1>d. d \in Event /\ d.kind = "delta" /\ d.text[1] = n
  BY EventsAreEvents DEF Delta
<1>r. Range(Append(text, n)) = Range(text) \cup {n}
  BY RangeAppend
<1>t. t = Append(s, d)
  OBVIOUS
<1> HIDE DEF d, t
<1>1. Deltas(t) = Deltas(s) \cup {Len(t)}
  BY <1>d, <1>t, AtTheEnd DEF Deltas
<1>2. \A i \in Deltas(s) : i < Len(t) /\ t[i] = s[i]
  BY <1>d, <1>t, AtTheEnd DEF Deltas
<1>3. t[Len(t)].text[1] = n
  BY <1>d, <1>t, AtTheEnd
<1>4. Heard(t) = Heard(s) \cup {n}
  <2>1. \A i \in Deltas(s) : t[i].text[1] = s[i].text[1]
    BY <1>2
  <2>2. Heard(t) \subseteq Heard(s) \cup {n}
    BY <1>1, <1>3, <2>1 DEF Heard
  <2>3. Heard(s) \subseteq Heard(t)
    BY <1>1, <2>1 DEF Heard
  <2>4. n \in Heard(t)
    BY <1>1, <1>3 DEF Heard
  <2> QED
    BY <2>2, <2>3, <2>4
<1>5. \A i \in Deltas(s) : s[i].text[1] < n
  BY DEF Tells, Heard, Newer
<1>6. Ordered(t)
  <2> SUFFICES ASSUME NEW i \in Deltas(t), NEW j \in Deltas(t), i < j
               PROVE  t[i].text[1] < t[j].text[1]
    BY DEF Ordered
  <2>0. Len(t) \in Nat /\ Deltas(t) \subseteq Nat
    BY <1>d, <1>t, AtTheEnd DEF Deltas
  <2>1. i \in Deltas(s)
    BY <1>1, <1>2, <2>0
  <2>2. CASE j \in Deltas(s)
    BY <2>1, <2>2, <1>2 DEF Tells, Ordered
  <2>3. CASE j = Len(t)
    <3>1. t[i].text[1] < n
      BY <2>1, <1>2, <1>5
    <3>2. t[j].text[1] = n
      BY <2>3, <1>3
    <3> QED
      BY <3>1, <3>2
  <2> QED
    BY <2>2, <2>3, <1>1
<1>7. NoEnd(t)
  BY <1>d, <1>t, AtTheEnd DEF NoEnd
<1>8. EndsWith(t, Append(text, n))
  BY <1>7 DEF EndsWith, NoEnd
<1>9. Heard(t) \subseteq Range(Append(text, n))
  BY <1>4, <1>r DEF Tells
<1> QED
  BY <1>4, <1>6, <1>7, <1>8, <1>9, <1>r DEF Tells, t, d

\* What is left after one event of s \o t is dropped tells no more than before.
LEMMA TellsDropped ==
  ASSUME NEW s \in Seq(Event), NEW t \in Seq(Event), t # <<>>,
         NEW text, Tells(s \o t, text), NEW u, u = s \o Tail(t)
  PROVE  Tells(u, text) /\ (NoEnd(s \o t) => NoEnd(u))
<1> DEFINE w == s \o t
           from(i) == IF i =< Len(s) THEN i ELSE i + 1
<1>1. /\ Len(s) \in Nat /\ Len(t) \in Nat \ {0}
      /\ DOMAIN w = 1..(Len(s) + Len(t)) /\ DOMAIN u = 1..(Len(s) + Len(t) - 1)
  OBVIOUS
<1>2. \A i \in DOMAIN u : from(i) \in DOMAIN w /\ u[i] = w[from(i)]
  <2> SUFFICES ASSUME NEW i \in DOMAIN u PROVE from(i) \in DOMAIN w /\ u[i] = w[from(i)]
    OBVIOUS
  <2>1. CASE i =< Len(s)
    BY <1>1, <2>1
  <2>2. CASE i > Len(s)
    <3>1. i - Len(s) \in 1..Len(Tail(t)) /\ i \in Int
      BY <1>1, <2>2
    <3>2. u[i] = Tail(t)[i - Len(s)] /\ Tail(t)[i - Len(s)] = t[i - Len(s) + 1]
      BY <1>1, <2>2, <3>1
    <3>3. w[i + 1] = t[i + 1 - Len(s)]
      BY <1>1, <2>2, <3>1
    <3> QED
      BY SMTT(30), <1>1, <2>2, <3>1, <3>2, <3>3
  <2> QED
    BY <2>1, <2>2, <1>1
<1>3. \A i, j \in DOMAIN u : (i < j <=> from(i) < from(j)) 
  BY <1>1
<1> HIDE DEF w, from
<1>w. Tells(w, text)
  BY DEF w
<1>4. \A i \in Deltas(u) : from(i) \in Deltas(w) /\ i \in DOMAIN u
  BY <1>2 DEF Deltas
<1>5. Ordered(u)
  BY <1>2, <1>3, <1>4, <1>w, SMTT(30) DEF Ordered, Tells
<1>6. Heard(u) \subseteq Heard(w)
  BY <1>2, <1>4 DEF Heard
<1>7. EndsWith(u, text)
  BY <1>2, <1>3, <1>4, <1>w DEF EndsWith, Tells
<1>8. NoEnd(w) => NoEnd(u)
  BY <1>2 DEF NoEnd
<1> QED
  BY <1>5, <1>6, <1>7, <1>8, <1>w DEF Tells, w

-----------------------------------------------------------------------------
(* The steps of drainStream.                                               *)

LEMMA Concatenations ==
  ASSUME NEW s \in Seq(Event)
  PROVE  /\ s \o <<>> = s
         /\ \A a \in Event : s \o <<a>> = Append(s, a)
         /\ \A a, b \in Event : s \o <<a, b>> = Append(Append(s, a), b)
OBVIOUS

\* An event that is moved on is neither lost nor overtaken.
LEMMA Moves ==
  ASSUME NEW s \in Seq(Event), NEW t \in Seq(Event), t # <<>>
  PROVE  Append(s, Head(t)) \o Tail(t) = s \o t
<1> DEFINE u == Append(s, Head(t)) \o Tail(t)
           w == s \o t
<1>1. Len(s) \in Nat /\ Len(t) \in Nat \ {0} /\ Head(t) = t[1] /\ Head(t) \in Event
  OBVIOUS
<1>2. /\ Len(Append(s, Head(t))) = Len(s) + 1 /\ Len(Tail(t)) = Len(t) - 1
      /\ Append(s, Head(t)) \in Seq(Event) /\ Tail(t) \in Seq(Event)
  BY <1>1
<1>3. u \in Seq(Event) /\ w \in Seq(Event) /\ Len(u) = Len(s) + Len(t) /\ Len(w) = Len(u)
  BY <1>1, <1>2
<1>4. ASSUME NEW i \in 1..(Len(s) + Len(t)) PROVE u[i] = w[i]
  <2>1. CASE i =< Len(s)
    BY <1>1, <1>2, <2>1
  <2>2. CASE i = Len(s) + 1
    BY <1>1, <1>2, <2>2
  <2>3. CASE i > Len(s) + 1
    <3>1. u[i] = Tail(t)[i - (Len(s) + 1)]
      BY <1>1, <1>2, <2>3
    <3>2. Tail(t)[i - (Len(s) + 1)] = t[i - (Len(s) + 1) + 1]
      BY <1>1, <1>2, <2>3
    <3>3. i - (Len(s) + 1) + 1 = i - Len(s)
      BY <1>1
    <3>4. w[i] = t[i - Len(s)]
      BY <1>1, <2>3
    <3> QED
      BY <3>1, <3>2, <3>3, <3>4
  <2> QED
    BY <2>1, <2>2, <2>3, <1>1
<1> HIDE DEF u, w
<1> QED
  BY <1>3, <1>4 DEF u, w

\* The invariant of the next state, said of what Pending and said become.
LEMMA Becomes ==
  ASSUME NEW p, NEW x, Pending' = p, said' = x
  PROVE  /\ Tells(p, x) => Tells(Pending, said)'
         /\ NoEnd(p) => NoEnd(Pending)'
         /\ Heard(Pending)' = Heard(p) /\ Range(said)' = Range(x)
         /\ (Pending # <<>>)' <=> p # <<>>
         /\ Last(Pending)' = Last(p)
BY DEF Tells, Ordered, Heard, EndsWith, Deltas, NoEnd, Range, Last

\* What is known whenever the loop reads on.
LEMMA AtNext ==
  ASSUME TypeOK, TextInv, at = "next"
  PROVE  /\ Sent \in Seq(Event) /\ Tells(Sent, said) /\ NoEnd(Sent)
         /\ ~cancelled => Heard(Sent) = Range(said)
         /\ Pending = Sent /\ ~Finishing
<1>1. Sent \in Seq(Event)
  BY DEF TypeOK, Sent
<1>2. todo = <<>> /\ ~Finishing
  BY DEF TextInv, Finishing
<1>3. Pending = Sent
  BY <1>1, <1>2, Concatenations DEF Pending
<1> QED
  BY <1>1, <1>2, <1>3 DEF TextInv

\* A step that hands events to send.
LEMMA Hands ==
  ASSUME TypeOK, NEW events, NEW next, Handle(events, next), UNCHANGED <<buffer, got>>
  PROVE  Pending' = Sent \o events
BY DEF Handle, Pending, Sent

LEMMA ReadTextKeeps ==
  ASSUME TypeOK, TextInv, EndInv, ReadText
  PROVE  TextInv' /\ EndInv'
<1> DEFINE n == chunks + 1
           t == Append(Sent, Delta(n))
           x == Append(said, n)
<1>1. /\ n \in 1..MaxChunks /\ chunks' = n /\ ~cancelled /\ ~cancelled'
      /\ at = "next" /\ UNCHANGED <<buffer, got>>
      /\ said' = x /\ allContent' = x /\ allContent' = said'
  <2>1. n \in 1..MaxChunks /\ chunks' = n
    BY LlmStreamAssumption DEF ReadText, Read, TypeOK
  <2>2. ~cancelled /\ ~cancelled' /\ at = "next" /\ UNCHANGED <<buffer, got>>
    BY DEF ReadText, Read, caller
  <2>3. said' = x /\ allContent' = x
    BY DEF ReadText, TextInv, Accumulate
  <2> QED
    BY <2>1, <2>2, <2>3
<1>2. /\ Sent \in Seq(Event) /\ Tells(Sent, said) /\ NoEnd(Sent)
      /\ Heard(Sent) = Range(said) /\ ~Finishing
  BY <1>1, AtNext
<1>3. \A m \in Range(said) : m < n
  BY DEF TextInv, TypeOK
<1>4. /\ n \in Nat /\ x \in Texts /\ Delta(n) \in Event /\ End(x) \in Event
      /\ ToolDelta \in Event
  <2> HIDE DEF n
  <2>1. x \in Texts
    BY <1>1 DEF TypeOK, Texts
  <2> HIDE DEF x
  <2> QED
    BY <1>1, <2>1, EventsAreEvents
<1>5. /\ Tells(t, x) /\ NoEnd(t) /\ t \in Seq(Event)
      /\ Heard(t) = Range(x) /\ Range(x) = Range(said) \cup {n}
  <2>1. t \in Seq(Event)
    BY <1>2, <1>4
  <2>2. said \in Texts
    BY DEF TypeOK
  <2> HIDE DEF n
  <2>3. Tells(t, x) /\ NoEnd(t) /\ Heard(t) = Heard(Sent) \cup {n}
    <3>1. Newer(n, said)
      BY <1>3 DEF Newer
    <3> QED
      BY <1>1, <1>2, <2>2, <3>1, TellsDelta
  <2>4. Range(x) = Range(said) \cup {n}
    BY <1>1, <2>2, RangeAppend
  <2> QED
    BY <1>2, <2>1, <2>3, <2>4
<1>6. Range(x) \subseteq 1..n
  BY SMTT(30), <1>5, <1>1 DEF TextInv, TypeOK
<1>7. ended = "no"
  BY <1>1, <1>2 DEF EndInv, Whole
<1> HIDE DEF n, t, x
<1>8. ASSUME NEW p, Pending' = p, Tells(p, x), Heard(p) = Range(x), at' = "send",
             (NoEnd(p) /\ UNCHANGED ended /\ after' = "next")
               \/ (ended' = "stop" /\ after' = "close" /\ p # <<>> /\ Last(p).kind = "end")
      PROVE  TextInv' /\ EndInv'
  <2>1. /\ Tells(Pending, said)' /\ (NoEnd(p) => NoEnd(Pending)')
        /\ Heard(Pending)' = Heard(p) /\ Range(said)' = Range(x)
        /\ (Pending # <<>>)' <=> p # <<>>
        /\ Last(Pending)' = Last(p)
    BY <1>1, <1>8, Becomes
  <2>2. Finishing' <=> after' # "next"
    BY <1>8 DEF Finishing
  <2>3. TextInv'
    BY <1>1, <1>6, <1>8, <2>1, <2>2 DEF TextInv
  <2>4. EndInv'
    BY <1>1, <1>7, <1>8, <2>1, <2>2 DEF EndInv, Whole
  <2> QED
    BY <2>3, <2>4
<1>9. CASE Handle(<<Delta(n)>>, "next") /\ UNCHANGED ended
  <2>1. Pending' = t
    BY ZenonT(40), <1>1, <1>2, <1>4, <1>9, Hands, Concatenations DEF t
  <2> QED
    BY <1>5, <1>8, <1>9, <2>1 DEF Handle
<1>10. CASE Handle(<<Delta(n), ToolDelta>>, "next") /\ UNCHANGED ended
  <2>1. Pending' = Append(t, ToolDelta)
    <3>1. Pending' = Sent \o <<Delta(n), ToolDelta>>
      BY <1>1, <1>10, Hands
    <3> QED
      BY <1>2, <1>4, <3>1, Concatenations DEF t
  <2>2. ToolDelta.kind \notin {"delta", "end"}
    BY DEF ToolDelta
  <2>3. /\ Tells(Append(t, ToolDelta), x) /\ NoEnd(Append(t, ToolDelta))
        /\ Heard(Append(t, ToolDelta)) = Range(x)
    BY <1>4, <1>5, <2>2, TellsOther
  <2> QED
    BY <1>8, <1>10, <2>1, <2>3 DEF Handle
<1>11. CASE Handle(<<Delta(n), End(allContent')>>, "close") /\ ended' = "stop"
  <2>1. Pending' = Append(t, End(x))
    <3>1. Pending' = Sent \o <<Delta(n), End(x)>>
      BY <1>1, <1>11, Hands
    <3> QED
      BY <1>2, <1>4, <3>1, Concatenations DEF t
  <2>2. Tells(Append(t, End(x)), x) /\ Heard(Append(t, End(x))) = Range(x)
    BY <1>4, <1>5, TellsEnd
  <2>3. Append(t, End(x)) # <<>> /\ Last(Append(t, End(x))).kind = "end"
    BY <1>4, <1>5 DEF Last, End
  <2> QED
    BY <1>8, <1>11, <2>1, <2>2, <2>3 DEF Handle
<1> QED
  BY <1>9, <1>10, <1>11 DEF ReadText, n

\* A step that leaves the text of the response, and to send what TextInv says
\* one may, keeps TextInv.
LEMMA TextKept ==
  ASSUME TextInv, NEW p, Pending' = p, UNCHANGED <<said, allContent>>,
         Range(said) \subseteq 1..chunks', at' # "send" => todo' = <<>>,
         Tells(p, said), NoEnd(p) \/ Finishing',
         ~cancelled' => Heard(p) = Range(said)
  PROVE  TextInv'
<1>1. /\ Tells(Pending, said)' /\ (NoEnd(p) => NoEnd(Pending)')
      /\ Heard(Pending)' = Heard(p) /\ Range(said)' = Range(said)
  BY Becomes
<1>2. Tells(Pending, said)' /\ (NoEnd(Pending) \/ Finishing)'
  BY <1>1
<1>3. (~cancelled => Heard(Pending) = Range(said))'
  BY <1>1
<1>4. (allContent = said)' /\ (Range(said) \subseteq 1..chunks)'
  BY <1>1 DEF TextInv
<1> QED
  BY <1>2, <1>3, <1>4 DEF TextInv

\* A chunk without text, handed to send with at most a tool call.
LEMMA ReadOtherKeeps ==
  ASSUME TypeOK, TextInv, EndInv, ReadToolCall \/ ReadOther
  PROVE  TextInv' /\ EndInv'
<1>1. /\ at = "next" /\ UNCHANGED <<buffer, got, said, allContent, ended>>
      /\ ~cancelled /\ ~cancelled' /\ chunks' = chunks + 1 /\ chunks \in Nat
      /\ at' = "send" /\ after' = "next"
  BY DEF ReadToolCall, ReadOther, Read, Handle, caller, TypeOK
<1>2. /\ Sent \in Seq(Event) /\ Tells(Sent, said) /\ NoEnd(Sent)
      /\ Heard(Sent) = Range(said) /\ ~Finishing
  BY <1>1, AtNext
<1>3. Range(said) \subseteq 1..chunks'
  BY <1>1 DEF TextInv
<1>4. PICK p : Pending' = p /\ Tells(p, said) /\ NoEnd(p) /\ Heard(p) = Range(said)
  <2>1. CASE ReadOther
    <3>1. Pending' = Sent \o <<>>
      BY <2>1, <1>1, Hands DEF ReadOther
    <3> QED
      BY <3>1, <1>2, Concatenations
  <2>2. CASE ReadToolCall
    <3>1. Pending' = Sent \o <<ToolDelta>>
      BY <2>2, <1>1, Hands DEF ReadToolCall
    <3>2. Pending' = Append(Sent, ToolDelta)
      BY <3>1, <1>2, Concatenations, EventsAreEvents
    <3>3. ToolDelta \in Event /\ ToolDelta.kind \notin {"delta", "end"}
      BY EventsAreEvents DEF ToolDelta
    <3>4. /\ Tells(Append(Sent, ToolDelta), said) /\ NoEnd(Append(Sent, ToolDelta))
          /\ Heard(Append(Sent, ToolDelta)) = Heard(Sent)
      BY <1>2, <3>3, TellsOther
    <3> QED
      BY <3>2, <3>4, <1>2
  <2> QED
    BY <2>1, <2>2
<1>5. TextInv'
  BY <1>1, <1>3, <1>4, TextKept
<1>6. EndInv'
  BY <1>1, <1>2 DEF EndInv, Whole, Finishing
<1> QED
  BY <1>5, <1>6

\* The final response, handed to send when the response is over.
LEMMA EndHanded ==
  ASSUME TypeOK, TextInv, at = "next", Handle(<<End(allContent)>>, after'),
         after' # "next", UNCHANGED <<buffer, got, said, allContent, cancelled>>,
         Range(said) \subseteq 1..chunks'
  PROVE  TextInv' /\ Finishing' /\ Pending' # <<>> /\ (Last(Pending).kind = "end")'
<1>1. /\ Sent \in Seq(Event) /\ Tells(Sent, said) /\ NoEnd(Sent)
      /\ ~cancelled => Heard(Sent) = Range(said)
  BY AtNext
<1>2. allContent = said /\ said \in Texts /\ End(said) \in Event
  BY EventsAreEvents DEF TextInv, TypeOK
<1>3. Pending' = Append(Sent, End(said))
  <2>1. Pending' = Sent \o <<End(said)>>
    BY <1>2, Hands
  <2> QED
    BY <2>1, <1>1, <1>2, Concatenations
<1> DEFINE p == Append(Sent, End(said))
<1>4. Tells(p, said) /\ Heard(p) = Heard(Sent)
  BY <1>1, <1>2, TellsEnd
<1>5. p # <<>> /\ Last(p).kind = "end"
  BY <1>1, <1>2 DEF Last, End
<1>6. Finishing' /\ at' = "send"
  BY DEF Handle, Finishing
<1> HIDE DEF p
<1>7. TextInv'
  BY <1>1, <1>3, <1>4, <1>6, TextKept DEF p
<1>8. Pending' # <<>> /\ Last(Pending)' = Last(p)
  BY <1>3, <1>5, Becomes DEF p
<1> QED
  BY <1>5, <1>6, <1>7, <1>8

\* A step that leaves what was handed to send, the text and how the response
\* ended; it may go on to where drainStream was to go, and it may cancel.
LEMMA SameStream ==
  ASSUME TypeOK, TextInv, EndInv, Pending' = Pending,
         UNCHANGED <<provider, after, said, allContent, ended, chunks>>,
         cancelled => cancelled', at' # "send" => todo' = <<>>,
         \/ at' = at
         \/ at = "send" /\ at' = after
         \/ at = "close" /\ at' = "closed"
  PROVE  TextInv' /\ EndInv'
<1>1. Finishing' = Finishing
  BY DEF Finishing, TypeOK
<1>2. TextInv'
  BY <1>1, TextKept DEF TextInv
<1>3. /\ (Pending # <<>>)' <=> Pending # <<>>
      /\ Last(Pending)' = Last(Pending) /\ (NoEnd(Pending) => NoEnd(Pending)')
  BY Becomes
<1>4. Whole' = Whole
  BY DEF Whole
<1>5. CASE cancelled'
  BY <1>2, <1>5 DEF EndInv
<1>6. CASE ~cancelled'
  <2>1. (ended # "no" <=> Finishing)'
    BY <1>1, <1>6 DEF EndInv
  <2>2. (Whole => /\ at # "error" /\ (at = "send" => after = "close")
                  /\ Pending # <<>> /\ Last(Pending).kind = "end")'
    BY <1>3, <1>4, <1>6 DEF EndInv
  <2>3. (ended = "eof" /\ ~Whole => NoEnd(Pending) /\ at \in {"close", "closed"})'
    BY <1>3, <1>4, <1>6 DEF EndInv
  <2>4. (ended = "failed" =>
           /\ at = "send" => after = "error"
           /\ at \in {"close", "closed"} =>
                Pending # <<>> /\ Last(Pending).kind = "error")'
    BY <1>3, <1>6 DEF EndInv
  <2> QED
    BY <1>2, <2>1, <2>2, <2>3, <2>4 DEF EndInv
<1> QED
  BY <1>5, <1>6

\* Reading chunk by chunk keeps the invariant.
LEMMA ReadKeeps ==
  ASSUME TypeOK, TextInv, EndInv, ReadChunk
  PROVE  TextInv' /\ EndInv'
<1>r. chunks \in Nat /\ Range(said) \subseteq 1..chunks /\ at = "next"
      /\ chunks' = chunks + 1 /\ UNCHANGED <<buffer, got, cancelled>>
  BY DEF ReadChunk, ReadCancelled, ReadText, ReadToolCall, ReadOther, ReadStop,
         ReadMalformed, Read, TypeOK, TextInv, caller
<1>c. Range(said) \subseteq 1..chunks'
  BY <1>r
<1>n. /\ Sent \in Seq(Event) /\ Tells(Sent, said) /\ NoEnd(Sent)
      /\ ~cancelled => Heard(Sent) = Range(said)
      /\ Pending = Sent /\ ~Finishing
  BY <1>r, AtNext
<1>1. CASE ReadCancelled \/ ReadMalformed
  <2>1. /\ at' = "error" /\ UNCHANGED <<todo, after, said, allContent>>
        /\ ReadMalformed => ended' = "failed"
        /\ ReadCancelled => cancelled
    BY <1>1 DEF ReadCancelled, ReadMalformed
  <2>2. Pending' = Pending /\ todo = <<>> /\ Finishing'
    BY <2>1, <1>r DEF Pending, Sent, TextInv, Finishing
  <2>3. TextInv'
    BY <1>c, <1>n, <1>r, <2>1, <2>2, TextKept
  <2>4. EndInv'
    BY <1>1, <1>r, <2>1, <2>2 DEF EndInv, Whole
  <2> QED
    BY <2>3, <2>4
<1>2. CASE ReadText
  BY <1>2, ReadTextKeeps
<1>3. CASE ReadToolCall \/ ReadOther
  BY <1>3, ReadOtherKeeps
<1>4. CASE ReadStop
  <2>1. /\ Handle(<<End(allContent)>>, after') /\ after' = "close" /\ at' = "send"
        /\ ended' = "stop" /\ UNCHANGED <<said, allContent>>
    BY <1>4 DEF ReadStop, Handle
  <2>2. TextInv' /\ Finishing' /\ Pending' # <<>> /\ (Last(Pending).kind = "end")'
    BY <1>c, <1>r, <2>1, EndHanded
  <2>3. EndInv'
    BY <2>1, <2>2 DEF EndInv, Whole
  <2> QED
    BY <2>2, <2>3
<1> QED
  BY <1>1, <1>2, <1>3, <1>4 DEF ReadChunk

LEMMA ExhaustedKeeps ==
  ASSUME TypeOK, TextInv, EndInv, Exhausted
  PROVE  TextInv' /\ EndInv'
<1>1. PICK failed \in BOOLEAN :
        ended' = (IF failed THEN "failed" ELSE "eof") /\ Conclude(failed)
  BY DEF Exhausted
<1>r. /\ at = "next" /\ Range(said) \subseteq 1..chunks'
      /\ UNCHANGED <<provider, buffer, got, cancelled, said, allContent, chunks>>
  BY DEF Exhausted, TextInv, caller
<1>n. /\ Sent \in Seq(Event) /\ Tells(Sent, said) /\ NoEnd(Sent)
      /\ ~cancelled => Heard(Sent) = Range(said)
      /\ Pending = Sent /\ ~Finishing
  BY <1>r, AtNext
<1>2. CASE provider = "openai"
  <2>1. /\ Handle(<<End(allContent)>>, after') /\ at' = "send"
        /\ after' = (IF failed THEN "error" ELSE "close")
    BY <1>1, <1>2 DEF Conclude, Handle
  <2>2. /\ after' # "next" /\ ended' \in {"failed", "eof"}
        /\ after' = (IF ended' = "failed" THEN "error" ELSE "close")
    BY <1>1, <2>1
  <2>3. TextInv' /\ Finishing' /\ Pending' # <<>> /\ (Last(Pending).kind = "end")'
    BY <1>r, <2>1, <2>2, EndHanded
  <2>4. EndInv'
    BY <1>2, <1>r, <2>1, <2>2, <2>3 DEF EndInv, Whole
  <2> QED
    BY <2>3, <2>4
<1>3. CASE provider # "openai"
  <2>1. at' = (IF failed THEN "error" ELSE "close") /\ UNCHANGED <<todo, after>>
    BY <1>1, <1>3 DEF Conclude
  <2>2. /\ ended' \in {"failed", "eof"}
        /\ at' = (IF ended' = "failed" THEN "error" ELSE "close")
    BY <1>1, <2>1
  <2>3. Pending' = Pending /\ todo = <<>> /\ Finishing'
    BY <1>r, <2>1, <2>2 DEF Pending, Sent, TextInv, Finishing
  <2>4. TextInv'
    BY <1>n, <1>r, <2>1, <2>2, <2>3, TextKept
  <2>5. NoEnd(Pending)'
    BY <1>n, <2>3 DEF NoEnd
  <2>6. EndInv'
    BY <1>3, <1>r, <2>2, <2>3, <2>5 DEF EndInv, Whole
  <2> QED
    BY <2>4, <2>6
<1> QED
  BY <1>2, <1>3

\* Sending moves an event from todo to the channel; only a cancelled context
\* lets one go.
LEMMA SendKeeps ==
  ASSUME TypeOK, TextInv, EndInv, Send
  PROVE  TextInv' /\ EndInv'
<1>1. /\ at = "send" /\ Sent \in Seq(Event) /\ todo \in Seq(Event)
      /\ got \in Seq(Event) /\ buffer \in Seq(Event)
      /\ UNCHANGED <<provider, after, chunks, said, allContent, ended, cancelled, got>>
  BY DEF Send, TypeOK, Sent, caller
<1>2. CASE todo = <<>>
  <2>1. at' = after /\ Pending' = Pending /\ todo' = todo
    BY <1>1, <1>2 DEF Send, Pending, Sent
  <2> QED
    BY <1>1, <1>2, <2>1, SameStream
<1>3. CASE todo # <<>>
  <2>1. Passes(Head(todo)) /\ todo' = Tail(todo) /\ UNCHANGED at
    BY <1>3 DEF Send
  <2>2. Finishing' = Finishing
    BY <1>1, <2>1 DEF Finishing
  <2>3. CASE buffer' = Append(buffer, Head(todo))
    <3>1. Sent' = Append(Sent, Head(todo))
      <4>1. Head(todo) \in Event
        BY <1>1, <1>3
      <4> QED
        BY <1>1, <2>3, <4>1 DEF Sent
    <3>2. Pending' = Pending
      BY <1>1, <1>3, <2>1, <3>1, Moves DEF Pending
    <3> QED
      BY <1>1, <2>1, <3>2, SameStream
  <2>4. CASE cancelled /\ UNCHANGED buffer
    <3>1. Pending' = Sent \o Tail(todo)
      BY <1>1, <2>1, <2>4 DEF Pending, Sent
    <3>2. Tells(Sent \o Tail(todo), said) /\ (NoEnd(Pending) => NoEnd(Sent \o Tail(todo)))
      BY <1>1, <1>3, TellsDropped DEF Pending, TextInv
    <3>3. TextInv'
      BY <1>1, <2>1, <2>2, <2>4, <3>1, <3>2, TextKept DEF TextInv
    <3>4. EndInv'
      BY <1>1, <2>4 DEF EndInv, Whole
    <3> QED
      BY <3>3, <3>4
  <2> QED
    BY <2>1, <2>3, <2>4 DEF Passes
<1> QED
  BY <1>2, <1>3

LEMMA SendErrorKeeps ==
  ASSUME TypeOK, TextInv, EndInv, SendError
  PROVE  TextInv' /\ EndInv'
<1>1. /\ at = "error" /\ at' = "close" /\ Passes(Error)
      /\ UNCHANGED <<provider, todo, after, chunks, said, allContent, ended,
                     cancelled, got>>
  BY DEF SendError, caller
<1>2. todo = <<>> /\ Sent \in Seq(Event) /\ Pending = Sent /\ Finishing'
  <2>1. todo = <<>> /\ Sent \in Seq(Event) /\ Finishing'
    BY <1>1 DEF TextInv, TypeOK, Sent, Finishing
  <2> QED
    BY <2>1, Concatenations DEF Pending
<1>e. Error \in Event /\ Error.kind = "error"
  BY EventsAreEvents DEF Error
<1>3. CASE buffer' = Append(buffer, Error)
  <2>1. Sent' = Append(Sent, Error)
    BY <1>1, <1>3, <1>e DEF Sent, TypeOK
  <2>2. Append(Sent, Error) \in Seq(Event) /\ Append(Sent, Error) # <<>>
        /\ Last(Append(Sent, Error)) = Error
    BY <1>2, <1>e DEF Last
  <2>3. Pending' = Append(Sent, Error)
    BY <1>1, <1>2, <2>1, <2>2, Concatenations DEF Pending
  <2>4. Tells(Append(Sent, Error), said) /\ Heard(Append(Sent, Error)) = Heard(Sent)
    BY <1>2, <1>e, TellsOther DEF TextInv
  <2>5. TextInv'
    <3>1. Range(said) \subseteq 1..chunks' /\ (~cancelled => Heard(Sent) = Range(said))
      BY <1>1, <1>2 DEF TextInv
    <3> QED
      BY <1>1, <1>2, <2>3, <2>4, <3>1, TextKept
  <2>6. Pending' # <<>> /\ (Last(Pending).kind = "error")'
    <3>1. Last(Pending)' = Last(Append(Sent, Error))
      BY <2>3, Becomes
    <3> QED
      BY <2>2, <2>3, <3>1, <1>e
  <2>7. EndInv'
    BY <1>1, <1>2, <2>6 DEF EndInv, Whole, Finishing
  <2> QED
    BY <2>5, <2>7
<1>4. CASE cancelled /\ UNCHANGED buffer
  <2>1. Pending' = Pending
    BY <1>1, <1>4 DEF Pending, Sent
  <2>2. TextInv'
    BY <1>1, <1>2, <1>4, <2>1, TextKept DEF TextInv
  <2> QED
    BY <1>1, <1>4, <2>2 DEF EndInv
<1> QED
  BY <1>1, <1>3, <1>4 DEF Passes

\* Moving an event from the channel to the caller changes nothing of the stream.
LEMMA ReceiveMoves ==
  ASSUME TypeOK, Receive
  PROVE  Pending' = Pending
<1>1. buffer \in Seq(Event) /\ got \in Seq(Event) /\ buffer # <<>>
  BY DEF Receive, TypeOK
<1>2. Sent' = Sent
  BY <1>1, Moves DEF Receive, Sent
<1> QED
  BY <1>2 DEF Receive, Pending, reader

LEMMA ReceiveKeeps ==
  ASSUME TypeOK, TextInv, EndInv, Receive
  PROVE  TextInv' /\ EndInv'
<1>1. at # "send" => todo = <<>>
  BY DEF TextInv
<1> QED
  BY <1>1, ReceiveMoves, SameStream DEF Receive, reader

\* The steps that only look at at, todo and after.
LEMMA OthersKeep ==
  ASSUME TypeOK, TextInv, EndInv,
         Close \/ StopReading \/ Cancel \/ UNCHANGED vars
  PROVE  TextInv' /\ EndInv'
<1>1. /\ UNCHANGED <<provider, todo, after, chunks, said, allContent, ended,
                     buffer, got>>
      /\ at' = at \/ (at = "close" /\ at' = "closed")
      /\ cancelled => cancelled'
      /\ at # "send" => todo = <<>>
  BY DEF Close, StopReading, Cancel, vars, reader, caller, TextInv
<1>2. Pending' = Pending
  BY <1>1 DEF Pending, Sent
<1> QED
  BY <1>1, <1>2, SameStream

LEMMA StreamInductive ==
  TypeOK /\ TextInv /\ EndInv /\ [Next]_vars => TextInv' /\ EndInv'
BY ReadKeeps, ExhaustedKeeps, SendKeeps, SendErrorKeeps, ReceiveKeeps, OthersKeep DEF Next

\* An event is in a concatenation when it is in one of its parts.
LEMMA NoErrorIn ==
  ASSUME NEW s \in Seq(Event), NEW t \in Seq(Event)
  PROVE  /\ NoError(s) /\ NoError(t) => NoError(s \o t)
         /\ NoError(s \o t) => NoError(s) /\ NoError(t)
         /\ t # <<>> /\ NoError(t) => NoError(Tail(t))
<1>1. /\ DOMAIN s = 1..Len(s) /\ DOMAIN t = 1..Len(t) /\ Len(s) \in Nat /\ Len(t) \in Nat
      /\ DOMAIN (s \o t) = 1..(Len(s) + Len(t))
      /\ \A i \in 1..Len(s) : (s \o t)[i] = s[i]
      /\ \A i \in 1..Len(t) : (s \o t)[i + Len(s)] = t[i]
  OBVIOUS
<1>2. \A i \in DOMAIN (s \o t) :
        i \in 1..Len(s) \/ (i - Len(s) \in 1..Len(t) /\ (i - Len(s)) + Len(s) = i)
  BY <1>1
<1>3. NoError(s) /\ NoError(t) => NoError(s \o t)
  <2> SUFFICES ASSUME NoError(s), NoError(t), NEW i \in DOMAIN (s \o t)
               PROVE  (s \o t)[i].kind # "error"
    BY DEF NoError
  <2>1. CASE i \in 1..Len(s)
    BY <1>1, <2>1 DEF NoError
  <2>2. CASE i - Len(s) \in 1..Len(t) /\ (i - Len(s)) + Len(s) = i
    BY <1>1, <2>2 DEF NoError
  <2> QED
    BY <1>2, <2>1, <2>2
<1>4. NoError(s \o t) => NoError(s) /\ NoError(t)
  <2>1. /\ \A i \in 1..Len(s) : i \in DOMAIN (s \o t)
        /\ \A i \in 1..Len(t) : i + Len(s) \in DOMAIN (s \o t)
    BY <1>1
  <2> QED
    BY <1>1, <2>1 DEF NoError
<1>5. t # <<>> /\ NoError(t) => NoError(Tail(t))
  <2>1. t # <<>> => \A i \in DOMAIN Tail(t) : i + 1 \in DOMAIN t /\ Tail(t)[i] = t[i + 1]
    OBVIOUS
  <2> QED
    BY <2>1 DEF NoError
<1> QED
  BY <1>3, <1>4, <1>5

\* What drainStream hands to send holds no error event.
LEMMA NoErrorHanded ==
  ASSUME TypeOK, TextInv, ReadChunk \/ Exhausted
  PROVE  NoError(todo') /\ at = "next" /\ UNCHANGED <<buffer, got>>
<1>1. /\ Delta(chunks + 1).kind # "error" /\ ToolDelta.kind # "error"
      /\ \A text : End(text).kind # "error"
  BY DEF Delta, ToolDelta, End
<1>2. at = "next" /\ todo = <<>> /\ UNCHANGED <<buffer, got>>
  BY DEF ReadChunk, ReadCancelled, ReadText, ReadToolCall, ReadOther, ReadStop,
         ReadMalformed, Read, Exhausted, caller, TextInv
<1>3. \/ todo' = <<>> \/ todo' = <<Delta(chunks + 1)>>
      \/ todo' = <<Delta(chunks + 1), ToolDelta>>
      \/ todo' = <<Delta(chunks + 1), End(allContent')>>
      \/ todo' = <<ToolDelta>> \/ todo' = <<End(allContent)>>
  BY <1>2 DEF ReadChunk, ReadCancelled, ReadText, ReadToolCall, ReadOther, ReadStop,
              ReadMalformed, Exhausted, Conclude, Handle
<1> QED
  BY <1>1, <1>2, <1>3 DEF NoError

LEMMA ErrorKept ==
  ASSUME TypeOK, TypeOK', TextInv, EndInv, ErrorInv, [Next]_vars
  PROVE  ErrorInv'
<1>1. /\ Sent \in Seq(Event) /\ todo \in Seq(Event) /\ todo' \in Seq(Event)
      /\ (cancelled => cancelled')
  BY DEF TypeOK, Sent, Next, ReadChunk, ReadCancelled, ReadText, ReadToolCall, ReadOther,
         ReadStop, ReadMalformed, Read, Exhausted, Send, SendError, Close, Receive,
         StopReading, Cancel, vars, caller
<1>2. CASE ReadChunk \/ Exhausted
  <2>1. NoError(Sent)
    BY <1>2, NoErrorHanded, AtNext DEF ErrorInv
  <2>2. Pending' = Sent \o todo'
    BY <1>2, NoErrorHanded DEF Pending, Sent
  <2>3. NoError(Sent \o todo')
    BY <1>1, <1>2, <2>1, NoErrorHanded, NoErrorIn
  <2> QED
    BY <2>2, <2>3 DEF ErrorInv, NoError
<1>3. CASE Send
  <2>1. NoError(Sent \o todo) /\ UNCHANGED got
    BY <1>3 DEF Send, ErrorInv, Pending, caller
  <2>2. CASE UNCHANGED buffer
    <3>1. \/ todo' = todo
          \/ todo # <<>> /\ todo' = Tail(todo)
      BY <1>3 DEF Send
    <3>2. NoError(Sent \o todo')
      BY <1>1, <2>1, <3>1, NoErrorIn
    <3>3. Pending' = Sent \o todo'
      BY <2>1, <2>2 DEF Pending, Sent
    <3> QED
      BY <3>2, <3>3 DEF ErrorInv, NoError
  <2>3. CASE todo # <<>> /\ buffer' = Append(buffer, Head(todo)) /\ todo' = Tail(todo)
    <3>1. Head(todo) \in Event /\ buffer \in Seq(Event) /\ got \in Seq(Event)
      BY <2>3 DEF TypeOK
    <3>2. Sent' = Append(Sent, Head(todo))
      BY <2>1, <2>3, <3>1 DEF Sent
    <3>3. Pending' = Pending
      BY <1>1, <2>3, <3>2, Moves DEF Pending
    <3> QED
      BY <2>1, <3>3 DEF ErrorInv, NoError, Pending
  <2> QED
    BY <1>3, <2>2, <2>3 DEF Send, Passes
<1>4. CASE SendError
  <2>1. at = "error" /\ at' = "close" /\ UNCHANGED <<ended, cancelled>>
    BY <1>4 DEF SendError, caller
  <2>2. ~cancelled => ended = "failed"
    <3>1. Finishing
      BY <2>1 DEF Finishing
    <3> QED
      BY <2>1, <3>1 DEF EndInv, TypeOK, Whole
  <2> QED
    BY <2>1, <2>2 DEF ErrorInv
<1>5. CASE Receive \/ Close \/ StopReading \/ Cancel \/ UNCHANGED vars
  <2>1. Pending' = Pending
    <3>1. CASE Receive
      BY <3>1, ReceiveMoves
    <3>2. CASE Close \/ StopReading \/ Cancel \/ UNCHANGED vars
      BY <3>2 DEF Close, StopReading, Cancel, vars, reader, caller, Pending, Sent
    <3> QED
      BY <1>5, <3>1, <3>2
  <2>2. /\ at' = at \/ (at = "close" /\ at' = "closed")
        /\ ended' = ended
    BY <1>5 DEF Receive, Close, StopReading, Cancel, vars, reader, caller
  <2> QED
    BY <1>1, <2>1, <2>2 DEF ErrorInv, NoError
<1> QED
  BY <1>2, <1>3, <1>4, <1>5 DEF Next

LEMMA StreamInitial == Init => TextInv /\ EndInv /\ ErrorInv
<1> SUFFICES ASSUME Init PROVE TextInv /\ EndInv /\ ErrorInv
  OBVIOUS
<1>1. Pending = <<>>
  BY DEF Init, Pending, Sent
<1>2. Deltas(Pending) = {} /\ Heard(Pending) = {} /\ DOMAIN Pending = {}
  BY <1>1 DEF Deltas, Heard
<1>3. Range(said) = {}
  BY DEF Init, Range
<1>4. Tells(Pending, said) /\ NoEnd(Pending)
  BY <1>2, <1>3 DEF Tells, Ordered, EndsWith, NoEnd
<1>5. TextInv
  BY <1>2, <1>3, <1>4 DEF Init, TextInv
<1>6. EndInv
  BY DEF Init, EndInv, Finishing, Whole
<1>7. ErrorInv
  BY <1>2 DEF ErrorInv, NoError
<1> QED
  BY <1>5, <1>6, <1>7

\* When drainStream has nothing left to send, Pending is what was sent.
LEMMA SentOrPending ==
  ASSUME TypeOK
  PROVE  /\ Sent \in Seq(Event)
         /\ \A i \in DOMAIN Sent : i \in DOMAIN Pending /\ Pending[i] = Sent[i]
         /\ todo = <<>> => Pending = Sent
<1>1. Sent \in Seq(Event) /\ todo \in Seq(Event)
  BY DEF TypeOK, Sent
<1>2. /\ DOMAIN Sent = 1..Len(Sent) /\ DOMAIN Pending = 1..(Len(Sent) + Len(todo))
      /\ Len(Sent) \in Nat /\ Len(todo) \in Nat
  BY <1>1 DEF Pending
<1>3. \A i \in DOMAIN Sent : i \in DOMAIN Pending /\ Pending[i] = Sent[i]
  BY <1>1, <1>2 DEF Pending
<1> QED
  BY <1>1, <1>3, Concatenations DEF Pending

LEMMA StreamIsRight ==
  ASSUME TypeOK, TextInv, EndInv, ErrorInv
  PROVE  TextIsComplete /\ FailureIsReported
<1>1. Deltas(Sent) \subseteq Deltas(Pending) /\ \A i \in Deltas(Sent) : Pending[i] = Sent[i]
  BY SentOrPending DEF Deltas
<1>2. Tells(Sent, said)
  <2>1. Ordered(Sent)
    BY <1>1 DEF Ordered, TextInv, Tells
  <2>2. Heard(Sent) \subseteq Heard(Pending)
    BY <1>1 DEF Heard
  <2>3. EndsWith(Sent, said)
    BY <1>1, SentOrPending DEF EndsWith, TextInv, Tells
  <2> QED
    BY <2>1, <2>2, <2>3 DEF TextInv, Tells
<1>3. ASSUME NEW i \in DOMAIN Sent, Sent[i].kind = "end", ~cancelled
      PROVE  Heard(Sent) = Range(said)
  <2>1. i \in DOMAIN Pending /\ Pending[i] = Sent[i]
    BY SentOrPending
  <2>2. \A j \in Deltas(Pending) : j < i
    BY <1>3, <2>1 DEF TextInv, Tells, EndsWith
  <2>3. \A j \in Deltas(Pending) : j \in DOMAIN Sent /\ Pending[j] = Sent[j]
    <3>1. /\ Sent \in Seq(Event) /\ DOMAIN Sent = 1..Len(Sent) /\ Len(Sent) \in Nat
          /\ i \in 1..Len(Sent)
      BY SentOrPending
    <3>2. todo \in Seq(Event) /\ Pending \in Seq(Event)
      BY <3>1 DEF TypeOK, Pending
    <3>3. ASSUME NEW j \in Deltas(Pending) PROVE j \in 1..Len(Sent)
      <4>1. j \in 1..Len(Pending) /\ j < i
        BY <3>2, <3>3, <2>2 DEF Deltas
      <4> QED
        BY <3>1, <3>2, <4>1
    <3> QED
      BY <3>1, <3>3, SentOrPending
  <2>4. Deltas(Sent) = Deltas(Pending)
    BY <1>1, <2>3 DEF Deltas
  <2>5. Heard(Sent) = Heard(Pending)
    BY <2>4, <1>1 DEF Heard
  <2> QED
    BY <1>3, <2>5 DEF TextInv
<1>4. ASSUME at = "closed", ~cancelled
      PROVE  /\ Heard(Sent) = Range(said)
             /\ Whole => Sent # <<>> /\ Last(Sent).kind = "end"
             /\ ended = "eof" /\ ~Whole => NoEnd(Sent) /\ NoError(Sent)
             /\ ended = "failed" => Sent # <<>> /\ Last(Sent).kind = "error"
  BY <1>4, SentOrPending DEF TextInv, EndInv, ErrorInv
<1>5. FailureIsReported
  BY <1>4 DEF FailureIsReported
<1>6. at = "closed" /\ ~cancelled =>
        /\ Heard(Sent) = Range(said)
        /\ Whole => Sent # <<>> /\ Last(Sent).kind = "end"
        /\ ended = "eof" /\ ~Whole => ~Has(Sent, "end") /\ ~Has(Sent, "error")
  BY <1>4 DEF Has, NoEnd, NoError
<1> QED
  BY <1>2, <1>3, <1>5, <1>6 DEF TextIsComplete, Tells, Ordered, EndsWith

LEMMA StreamAlways == Spec => [](TypeOK /\ TextInv /\ EndInv /\ ErrorInv)
BY TypeInitial, TypeInductive, StreamInitial, StreamInductive, ErrorKept, PTL DEF Spec

\* However slow the caller, whenever it stops or cancels, the text it was sent is
\* in order and without repetition, the final response carries all of it, and
\* without a cancellation no text is missing when the channel closes, nor the
\* final response, unless the body ended before the provider said so
\* (drainStream, send).
THEOREM NoTextIsLost == Spec => []TextIsComplete
BY StreamAlways, StreamIsRight, PTL

\* A response that fails ends, for a caller who did not cancel, with the error
\* event, also where OpenAI's final response was sent before it.
THEOREM FailuresAreReported == Spec => []FailureIsReported
BY StreamAlways, StreamIsRight, PTL
=============================================================================
