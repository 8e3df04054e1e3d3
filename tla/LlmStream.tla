----------------------------- MODULE LlmStream -----------------------------
(***************************************************************************)
(* StreamComplete of the three providers: a goroutine (drainStream) reads  *)
(* the provider's response chunk by chunk and sends events on a buffered   *)
(* channel that it closes when it is done; the caller receives, may stop   *)
(* receiving, and may cancel the context at any time.                      *)
(*                                                                         *)
(* A chunk is what one turn of the read loop consumes: an SSE event, or a  *)
(* line of NDJSON.  Text is told apart by its position in the response.    *)
(***************************************************************************)
EXTENDS Integers, Sequences, SequencesExt

CONSTANTS Providers,   \* of "anthropic", "openai", "ollama"
          bufferSize,  \* of the channel
          MaxChunks    \* bound: chunks of one response

ASSUME LlmStreamAssumption ==
  /\ Providers \subseteq {"anthropic", "openai", "ollama"} /\ Providers # {}
  /\ bufferSize \in Nat \ {0}
  /\ MaxChunks \in Nat

VARIABLES
  provider,
  at,         \* what drainStream's goroutine does next
  todo,       \* events it has still to send for this chunk
  after,      \* where it goes then
  chunks,     \* chunks read
  said,       \* history: the text deltas of the response, in order
  allContent, \* the text accumulated for the final response
  ended,      \* history: how the response ended, as the reader was told
  buffer,     \* the channel
  cancelled,  \* ctx.Err() # nil
  reading,    \* the caller still receives
  got         \* events the caller has received

reader == <<at, todo, after, chunks, said, allContent, ended>>
caller == <<cancelled, reading, got>>
vars   == <<provider, reader, buffer, caller>>

Delta(n)   == [kind |-> "delta", text |-> <<n>>]
ToolDelta  == [kind |-> "tool_call_delta", text |-> <<>>]
End(text)  == [kind |-> "end", text |-> text]
Error      == [kind |-> "error", text |-> <<>>]

Init ==
  /\ provider \in Providers
  /\ at = "next" /\ todo = <<>> /\ after = "next"
  /\ chunks = 0 /\ said = <<>> /\ allContent = <<>> /\ ended = "no"
  /\ buffer = <<>>
  /\ cancelled = FALSE /\ reading = TRUE /\ got = <<>>

-----------------------------------------------------------------------------
(* drainStream                                                             *)

Accumulate(n) == Append(allContent, n)

\* What a chunk makes the reader do: send events, then go on or stop.
Handle(events, next) ==
  at' = "send" /\ todo' = events /\ after' = next

\* stream.Next() is true, or scanner.Scan().
Read ==
  /\ at = "next" /\ chunks < MaxChunks /\ chunks' = chunks + 1
  /\ UNCHANGED <<provider, buffer, caller>>

\* ctx.Err() is looked at once for each chunk.
ReadCancelled ==
  /\ Read /\ cancelled /\ at' = "error"
  /\ UNCHANGED <<todo, after, said, allContent, ended>>

\* A text delta; OpenAI's chunk may also carry a tool call, and Ollama's last
\* line text.
ReadText ==
  LET n == chunks + 1
  IN  /\ Read /\ ~cancelled
      /\ said' = Append(said, n) /\ allContent' = Accumulate(n)
      /\ \/ Handle(<<Delta(n)>>, "next") /\ UNCHANGED ended
         \/ /\ provider = "openai"
            /\ Handle(<<Delta(n), ToolDelta>>, "next") /\ UNCHANGED ended
         \/ /\ provider = "ollama" /\ ended' = "stop"
            /\ Handle(<<Delta(n), End(allContent')>>, "close")

ReadToolCall ==
  /\ Read /\ ~cancelled
  /\ provider \in {"anthropic", "openai"} /\ Handle(<<ToolDelta>>, "next")
  /\ UNCHANGED <<said, allContent, ended>>

\* Identifiers, usage, a blank line: nothing to send.
ReadOther ==
  /\ Read /\ ~cancelled /\ Handle(<<>>, "next")
  /\ UNCHANGED <<said, allContent, ended>>

\* message_stop, or done: true.
ReadStop ==
  /\ Read /\ ~cancelled
  /\ provider \in {"anthropic", "ollama"} /\ ended' = "stop"
  /\ Handle(<<End(allContent)>>, "close")
  /\ UNCHANGED <<said, allContent>>

\* A line that does not decode; the SDKs report one as the end of the stream.
ReadMalformed ==
  /\ Read /\ ~cancelled
  /\ provider = "ollama" /\ ended' = "failed" /\ at' = "error"
  /\ UNCHANGED <<todo, after, said, allContent>>

ReadChunk == \/ ReadCancelled \/ ReadText \/ ReadToolCall
             \/ ReadOther \/ ReadStop \/ ReadMalformed

\* Mutant of Conclude: stream.Err() is not looked at.
ConcludeQuietly(failed) ==
  IF provider = "openai" THEN Handle(<<End(allContent)>>, "close")
  ELSE at' = "close" /\ UNCHANGED <<todo, after>>

\* After the loop: OpenAI's response is finished here, whatever ended it.
Conclude(failed) ==
  LET next == IF failed THEN "error" ELSE "close"
  IN  \/ provider = "openai" /\ Handle(<<End(allContent)>>, next)
      \/ provider # "openai" /\ at' = next /\ UNCHANGED <<todo, after>>

\* stream.Next() is false: the body is at its end, or cannot be read.
Exhausted ==
  /\ at = "next"
  /\ \E failed \in BOOLEAN :
       /\ ended' = IF failed THEN "failed" ELSE "eof"
       /\ Conclude(failed)
  /\ UNCHANGED <<provider, chunks, said, allContent, buffer, caller>>

-----------------------------------------------------------------------------
(* send: select { case ch <- ev: case <-ctx.Done(): }                      *)

\* Mutant of Passes: sending does not look at the context.
PassesBlocking(e) ==
  Len(buffer) < bufferSize /\ buffer' = Append(buffer, e)

\* Mutant of Passes: a full buffer drops the event.
PassesOrDrops(e) ==
  IF Len(buffer) < bufferSize THEN buffer' = Append(buffer, e) ELSE UNCHANGED buffer

Passes(e) ==
  \/ Len(buffer) < bufferSize /\ buffer' = Append(buffer, e)
  \/ cancelled /\ UNCHANGED buffer

Send ==
  /\ at = "send"
  /\ IF todo = <<>> THEN at' = after /\ UNCHANGED <<todo, buffer>>
     ELSE Passes(Head(todo)) /\ todo' = Tail(todo) /\ UNCHANGED at
  /\ UNCHANGED <<provider, after, chunks, said, allContent, ended, caller>>

SendError ==
  /\ at = "error" /\ Passes(Error) /\ at' = "close"
  /\ UNCHANGED <<provider, todo, after, chunks, said, allContent, ended, caller>>

Close ==
  /\ at = "close" /\ at' = "closed"
  /\ UNCHANGED <<provider, todo, after, chunks, said, allContent, ended,
                 buffer, caller>>

-----------------------------------------------------------------------------
(* The caller; the code has none yet, the doc of StreamComplete says what  *)
(* one must do.                                                            *)

Receive ==
  /\ reading /\ buffer # <<>>
  /\ got' = Append(got, Head(buffer)) /\ buffer' = Tail(buffer)
  /\ UNCHANGED <<provider, reader, cancelled, reading>>

StopReading ==
  /\ reading /\ reading' = FALSE
  /\ UNCHANGED <<provider, reader, buffer, cancelled, got>>

Cancel ==
  /\ ~cancelled /\ cancelled' = TRUE
  /\ UNCHANGED <<provider, reader, buffer, reading, got>>

Next == \/ ReadChunk \/ Exhausted \/ Send \/ SendError \/ Close
        \/ Receive \/ StopReading \/ Cancel

Spec == Init /\ [][Next]_vars

\* The goroutine runs when it can.  The provider need not answer, unless the
\* context is cancelled, which aborts the read.  A caller that reads goes on.
Fairness ==
  /\ WF_vars(Send \/ SendError \/ Close)
  /\ WF_vars(cancelled /\ (ReadChunk \/ Exhausted))
  /\ WF_vars(Receive)
FairSpec == Spec /\ Fairness

-----------------------------------------------------------------------------
Texts == Seq(1..MaxChunks)
Event == [kind : {"delta", "tool_call_delta", "end", "error"}, text : Texts]

TypeOK ==
  /\ provider \in Providers
  /\ at \in {"next", "send", "error", "close", "closed"}
  /\ todo \in Seq(Event) /\ after \in {"next", "error", "close"}
  /\ chunks \in 0..MaxChunks
  /\ said \in Texts /\ allContent \in Texts
  /\ ended \in {"no", "stop", "eof", "failed"}
  /\ buffer \in Seq(Event) /\ Len(buffer) =< bufferSize
  /\ cancelled \in BOOLEAN /\ reading \in BOOLEAN
  /\ got \in Seq(Event)

Sent      == got \o buffer
Deltas(s) == {i \in DOMAIN s : s[i].kind = "delta"}
Heard(s)  == {s[i].text[1] : i \in Deltas(s)}
Has(s, k) == \E i \in DOMAIN s : s[i].kind = k

\* The provider said that the response is over; OpenAI's goes on to the end of
\* the body.
Whole == ended = "stop" \/ (ended = "eof" /\ provider = "openai")

\* Text is sent in the order of the response and never twice.  The final
\* response comes after every delta and carries the text of the whole response,
\* also what a cancellation kept from being sent; without one that is the text
\* of the deltas (drainStream accumulates what it sends).  A caller slower than
\* the provider loses nothing: when the channel closes and nobody cancelled, all
\* of the text is in it (send waits for room).  The last event is then the final
\* response, if the provider said that the response was over.  When the body of
\* Anthropic or Ollama merely ends before that, drainStream returns nil and the
\* channel is closed with neither "end" nor "error" in it, though adapter.go
\* says that it is closed after one of them: a caller has to take a missing
\* final response for a response cut short.
TextIsComplete ==
  /\ \A i, j \in Deltas(Sent) : i < j => Sent[i].text[1] < Sent[j].text[1]
  /\ Heard(Sent) \subseteq Range(said)
  /\ \A i \in DOMAIN Sent : Sent[i].kind = "end" =>
       /\ Sent[i].text = said
       /\ \A j \in Deltas(Sent) : j < i
       /\ ~cancelled => Heard(Sent) = Range(said)
  /\ at = "closed" /\ ~cancelled =>
       /\ Heard(Sent) = Range(said)
       /\ Whole => Sent # <<>> /\ Last(Sent).kind = "end"
       /\ ended = "eof" /\ ~Whole => ~Has(Sent, "end") /\ ~Has(Sent, "error")

\* A response that breaks off with an error that the reader is told of ends with
\* an error event, even after OpenAI's final response.
FailureIsReported ==
  at = "closed" /\ ~cancelled /\ ended = "failed" =>
    Sent # <<>> /\ Last(Sent).kind = "error"

\* Cancelling the context ends the goroutine, whether or not anybody receives,
\* and draining the channel does, too, once the response is at its end
\* (StreamComplete: "drain the channel or cancel the context to avoid goroutine
\* leaks").
GoroutineEnds ==
  /\ cancelled ~> at = "closed"
  /\ ended # "no" ~> at = "closed" \/ ~reading
=============================================================================
