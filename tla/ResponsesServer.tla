--------------------------- MODULE ResponsesServer ---------------------------
(* One streaming request of the Responses API: handleAdapterStream and     *)
(* writeCoreResponseAsOpenAIStream (service/server/adapter_dispatch.go),   *)
(* with the goroutines they start.                                          *)
(*                                                                          *)
(*   upstream -> chunks -> provider -> events -> converter -> handler       *)
(*                                                                          *)
(* The upstream (and the reader of its body) fills a channel of chunks, the *)
(* adapter of the provider makes core events of them, streamLoopWithBuf     *)
(* makes events for the client of those, and the handler writes them. The   *)
(* last hand-over has no buffer and does not look at the context.           *)
EXTENDS ReasoningCache

CONSTANTS
    Kinds,      \* the paths a request may take, a subset of PathKinds
    ChunkCap,   \* capacity of the channel of chunks
    EventCap,   \* capacity of the channel of core events (64)
    MaxLeave,   \* chunks of an answer whose client leaves
    NoEvent     \* the handler has no event to write

\* A protocol, a whole response from a search or visual loop ("whole"), or
\* one with images on the Anthropic path ("visual").
PathKinds == {"chat", "anthropic", "google", "whole", "visual"}

ASSUME ServerAssumption ==
    /\ Kinds \subseteq PathKinds
    /\ ChunkCap \in Nat \ {0}
    /\ EventCap \in Nat \ {0}
    /\ MaxLeave \in Nat

VARIABLES
    kind,      \* the path the request took, "none" before
    up,        \* the upstream: where it is in its answer, and what it has told
    body,      \* its stream: "open", "closed" or "broken"
    chunks,    \* channel of chunks
    provider,  \* provider goroutine: pc, state of the adapter, events to send
    buf,       \* its first chunks
    events,    \* channel of core events
    converter, \* converter goroutine: pc, state, client events to send
    handler,   \* handler: pc, event being written, completed response
    shown,     \* what the client was shown of each item
    cancelled, \* the context of the request is done
    cache      \* reasoning by tool call, of the session

vars == <<kind, up, body, chunks, provider, buf, events, converter, handler, shown,
          cancelled, cache>>

Streams == {"chat", "anthropic", "google"}

\* Which context ended the loop of the handler: it saw the whole stream, the
\* context was done by then, or a write had failed.
Endings == {"none", "whole", "cancelled", "failed"}

NoResponse == [done |-> FALSE, output |-> <<>>]

Init ==
    /\ kind = "none"
    /\ up = NewUpstream
    /\ body = "closed"
    /\ chunks = <<>>
    /\ provider = [pc |-> "done", st |-> <<>>, pend |-> <<>>]
    /\ buf = <<>>
    /\ events = <<>>
    /\ converter = [pc |-> "done", cv |-> NewConversion, pend |-> <<>>]
    /\ handler = [pc |-> "begin", event |-> NoEvent, final |-> NoResponse, ending |-> "none"]
    /\ shown = <<>>
    /\ cancelled = FALSE
    /\ cache = <<>>

(******************************* The handler *******************************)
NewAdapter == [chat |-> NewChat, anthropic |-> NewAnthropic, google |-> NewGoogle]

\* The stream adapters of the request: the upstream has answered.
StartStream(k) ==
    /\ k \in Streams
    /\ kind' = k
    /\ body' = "open"
    /\ provider' = [pc |-> "run", st |-> NewAdapter[k], pend |-> <<>>]
    /\ UNCHANGED up

\* Search and visual loops have the whole response before they begin.
StartResponse(k) ==
    /\ k \in {"whole", "visual"}
    /\ \E told \in Responses, status \in {"completed", "incomplete", "failed"} :
          /\ up' = [up EXCEPT !.stage = "finished", !.told = told]
          /\ LET first == IF k = "whole" THEN FromResponse(told, status)
                          ELSE FromVisualResponse(told, status)
             IN  provider' = [pc |-> "blocks", st |-> first.st, pend |-> first.events]
    /\ kind' = k
    /\ UNCHANGED body

Begin ==
    /\ handler.pc = "begin"
    /\ \E k \in Kinds : StartStream(k) \/ StartResponse(k)
    /\ converter' = [converter EXCEPT !.pc = "run"]
    /\ handler' = [handler EXCEPT !.pc = "loop"]
    /\ UNCHANGED <<chunks, buf, events, shown, cancelled, cache>>

\* An error before the header: a missing client or adapter, a refused call.
\* The handler answers it and returns, which ends the context.
Refuse ==
    /\ handler.pc = "begin"
    /\ handler' = [handler EXCEPT !.pc = "done"]
    /\ cancelled' = TRUE
    /\ UNCHANGED <<kind, up, body, chunks, provider, buf, events, converter, shown, cache>>

\* The same once the provider goroutine runs: no client stream adapter.
RefuseLate ==
    /\ handler.pc = "begin"
    /\ \E k \in Kinds : StartStream(k) \/ StartResponse(k)
    /\ handler' = [handler EXCEPT !.pc = "done"]
    /\ cancelled' = TRUE
    /\ UNCHANGED <<chunks, buf, events, converter, shown, cache>>

\* for ev := range streamChan
Receive ==
    /\ handler.pc = "loop"
    /\ handler.event = NoEvent
    /\ converter.pend # <<>>
    /\ LET e == Head(converter.pend)
       IN  handler' = [handler EXCEPT
              !.event = e,
              !.final = IF e.kind = "completed" THEN [done |-> TRUE, output |-> e.output] ELSE @]
    /\ converter' = [converter EXCEPT !.pend = Tail(@)]
    /\ UNCHANGED <<kind, up, body, chunks, provider, buf, events, shown, cancelled, cache>>

\* What an event tells the client about its item.
Announces == [added |-> "added", data_done |-> "closing", part_done |-> "closing", done |-> "done"]

\* writeSSE.
Write ==
    /\ handler.pc = "loop"
    /\ handler.event # NoEvent
    /\ handler' = [handler EXCEPT !.event = NoEvent]
    /\ shown' = IF handler.event.kind \in DOMAIN Announces
                THEN With(shown, handler.event.item, Announces[handler.event.kind]) ELSE shown
    /\ UNCHANGED <<kind, up, body, chunks, provider, buf, events, converter, cancelled, cache>>

AfterLoop == IF kind = "visual" THEN "return" ELSE "output"

\* Bound: a client leaves early in an answer, and little more of it comes then.
MayLeave == up.n <= MaxLeave

\* The connection is gone, which also ends the context (net/http).
WriteFails ==
    /\ handler.pc = "loop"
    /\ cancelled \/ MayLeave
    /\ handler.event # NoEvent
    /\ handler' = [handler EXCEPT !.event = NoEvent, !.pc = AfterLoop, !.ending = "failed"]
    /\ cancelled' = TRUE
    /\ UNCHANGED <<kind, up, body, chunks, provider, buf, events, converter, shown, cache>>

LoopEnds ==
    /\ handler.pc = "loop"
    /\ handler.event = NoEvent
    /\ converter.pc = "done"
    /\ handler' = [handler EXCEPT !.pc = AfterLoop,
                                  !.ending = IF cancelled THEN "cancelled" ELSE "whole"]
    /\ UNCHANGED <<kind, up, body, chunks, provider, buf, events, converter, shown,
                   cancelled, cache>>

\* rememberStreamResponseContent, of a response that was completed.
RememberCompleted ==
    /\ handler.pc = "output"
    /\ cache' = RememberOutput(cache, handler.final.output)
    /\ handler' = [handler EXCEPT !.pc = "buffer"]
    /\ UNCHANGED <<kind, up, body, chunks, provider, buf, events, converter, shown, cancelled>>

\* Mutant: the buffer is read whatever the completed response had.
NothingRemembered == FALSE
Remembered == \E n \in DOMAIN handler.final.output : Memorable(handler.final.output[n])

\* The buffer of a provider is only handed out when its goroutine is done.
\* Whether the server traces is looked up next.
RememberBuffer ==
    /\ handler.pc = "buffer"
    /\ kind \in Streams => provider.pc = "done"
    /\ cache' = CASE kind = "chat" -> RememberChat(cache, buf)
                  [] kind = "anthropic" /\ ~Remembered -> RememberEvents(cache, buf)
                  [] OTHER -> cache
    /\ \E pc \in {"trace", "return"} : handler' = [handler EXCEPT !.pc = pc]
    /\ UNCHANGED <<kind, up, body, chunks, provider, buf, events, converter, shown, cancelled>>

\* With tracing the handler waits for the converter, to have its buffer.
Return ==
    /\ \/ handler.pc = "return"
       \/ handler.pc = "trace" /\ converter.pc = "done"
    /\ handler' = [handler EXCEPT !.pc = "done"]
    /\ cancelled' = TRUE
    /\ UNCHANGED <<kind, up, body, chunks, provider, buf, events, converter, shown, cache>>

Handler ==
    \/ Begin \/ Refuse \/ RefuseLate
    \/ Receive \/ Write \/ WriteFails \/ LoopEnds
    \/ RememberCompleted \/ RememberBuffer \/ Return
(****************************** The upstream *******************************)
\* The next chunk. The reader of a chat or Google stream waits for room in
\* the channel; an Anthropic stream is read by the provider goroutine.
UpstreamSends ==
    /\ body = "open"
    /\ Len(chunks) < ChunkCap
    /\ cancelled => up.n < MaxLeave
    /\ \E s \in Sends(kind, up) :
          /\ up' = s.up
          /\ chunks' = Append(chunks, s.chunk)
    /\ UNCHANGED <<kind, body, provider, buf, events, converter, handler, shown, cancelled,
                   cache>>

\* The stream ends, complete or not, with an error perhaps; the reader of a
\* chat or Google stream only logs that.
UpstreamEnds ==
    /\ body = "open"
    /\ \E end \in {"closed", "broken"} :
          /\ kind # "anthropic" => end = "closed"
          /\ body' = end
    /\ UNCHANGED <<kind, up, chunks, provider, buf, events, converter, handler, shown,
                   cancelled, cache>>

\* The reader, or the body, ends with the context.
ReaderStops ==
    /\ body = "open"
    /\ cancelled
    /\ body' = "closed"
    /\ UNCHANGED <<kind, up, chunks, provider, buf, events, converter, handler, shown,
                   cancelled, cache>>

\* The client goes away.
ClientLeaves ==
    /\ handler.pc \in {"loop", "output", "buffer"}
    /\ ~cancelled
    /\ MayLeave
    /\ cancelled' = TRUE
    /\ UNCHANGED <<kind, up, body, chunks, provider, buf, events, converter, handler, shown,
                   cache>>

(****************************** The provider *******************************)
FromChunk(st, chunk) ==
    CASE kind = "chat" -> FromChat(st, chunk)
      [] kind = "anthropic" -> FromAnthropic(st, chunk)
      [] kind = "google" -> FromGoogle(st, chunk)

\* A chunk: kept while there is room, and converted. The chat and Google
\* adapters may take one after the context is done, the other looks first.
TakeChunk ==
    /\ provider.pc = "run"
    /\ provider.pend = <<>>
    /\ chunks # <<>>
    /\ kind = "anthropic" => ~cancelled
    /\ LET step == FromChunk(provider.st, Head(chunks))
       IN  provider' = [provider EXCEPT !.st = step.st, !.pend = step.events]
    /\ chunks' = Tail(chunks)
    /\ buf' = IF Len(buf) < BufCap THEN Append(buf, Head(chunks)) ELSE buf
    /\ UNCHANGED <<kind, up, body, events, converter, handler, shown, cancelled, cache>>

\* The stream is over. The chat and Google adapters report completion
\* whatever they have seen; the Anthropic adapter reports an error, or nothing.
StreamOver ==
    /\ provider.pc = "run"
    /\ provider.pend = <<>>
    /\ chunks = <<>>
    /\ body # "open"
    /\ provider' = [provider EXCEPT
          !.pc = "closing",
          !.pend = CASE kind # "anthropic" -> <<Lifecycle("completed")>>
                     [] kind = "anthropic" /\ body = "broken" /\ ~cancelled ->
                           <<Lifecycle("failed")>>
                     [] OTHER -> <<>>]
    /\ UNCHANGED <<kind, up, body, chunks, buf, events, converter, handler, shown, cancelled,
                   cache>>

ProviderStops ==
    /\ provider.pc = "run"
    /\ provider.pend = <<>>
    /\ cancelled
    /\ provider' = [provider EXCEPT !.pc = "done"]
    /\ UNCHANGED <<kind, up, body, chunks, buf, events, converter, handler, shown, cancelled,
                   cache>>

\* The next block of a response, or its end.
NextBlock ==
    /\ provider.pc = "blocks"
    /\ provider.pend = <<>>
    /\ LET st == provider.st
       IN  provider' =
             IF st.next \in DOMAIN st.blocks
             THEN [provider EXCEPT !.st.next = st.next + 1, !.pend = BlockEvents(st.blocks, st.next)]
             ELSE [provider EXCEPT !.pc = "closing", !.pend = <<Lifecycle(st.status)>>]
    /\ UNCHANGED <<kind, up, body, chunks, buf, events, converter, handler, shown, cancelled,
                   cache>>

Unbuffered == kind = "whole"

Emit ==
    /\ provider.pend # <<>>
    /\ ~Unbuffered
    /\ Len(events) < EventCap
    /\ events' = Append(events, Head(provider.pend))
    /\ provider' = [provider EXCEPT !.pend = Tail(@)]
    /\ UNCHANGED <<kind, up, body, chunks, buf, converter, handler, shown, cancelled, cache>>

\* Mutant: a send that does not look at the context.
NeverDrop == FALSE

\* An event that nobody waits for any more is dropped; the synthetic streams
\* end with it.
Drop ==
    /\ provider.pend # <<>>
    /\ cancelled
    /\ provider' = IF kind \in Streams THEN [provider EXCEPT !.pend = Tail(@)]
                   ELSE [provider EXCEPT !.pc = "closing", !.pend = <<>>]
    /\ UNCHANGED <<kind, up, body, chunks, buf, events, converter, handler, shown, cancelled,
                   cache>>

\* close(events)
ProviderDone ==
    /\ provider.pc = "closing"
    /\ provider.pend = <<>>
    /\ provider' = [provider EXCEPT !.pc = "done"]
    /\ UNCHANGED <<kind, up, body, chunks, buf, events, converter, handler, shown, cancelled,
                   cache>>

(****************************** The converter ******************************)
Converted(e) ==
    LET result == Convert(converter.cv, e)
    IN  [converter EXCEPT !.cv = result.cv, !.pend = result.sse]

\* The next event of the loop of streamLoopWithBuf.
ConvertNext ==
    /\ converter.pc = "run"
    /\ converter.pend = <<>>
    /\ events # <<>>
    /\ converter' = Converted(Head(events))
    /\ events' = Tail(events)
    /\ UNCHANGED <<kind, up, body, chunks, provider, buf, handler, shown, cancelled, cache>>

\* The same without a buffer: the provider hands the event over.
HandOver ==
    /\ Unbuffered
    /\ provider.pend # <<>>
    /\ converter.pc = "run"
    /\ converter.pend = <<>>
    /\ converter' = Converted(Head(provider.pend))
    /\ provider' = [provider EXCEPT !.pend = Tail(@)]
    /\ UNCHANGED <<kind, up, body, chunks, buf, events, handler, shown, cancelled, cache>>

\* close(out), and the buffer is ready.
ConverterDone ==
    /\ converter.pc = "run"
    /\ converter.pend = <<>>
    /\ events = <<>>
    /\ provider.pc = "done"
    /\ converter' = [converter EXCEPT !.pc = "done"]
    /\ UNCHANGED <<kind, up, body, chunks, provider, buf, events, handler, shown, cancelled,
                   cache>>

Provider ==
    \/ TakeChunk \/ StreamOver \/ ProviderStops \/ NextBlock
    \/ Emit \/ Drop \/ ProviderDone
Converter == ConvertNext \/ HandOver \/ ConverterDone
Upstream == UpstreamSends \/ UpstreamEnds

Next == Handler \/ Provider \/ Converter \/ Upstream \/ ReaderStops \/ ClientLeaves

Spec == Init /\ [][Next]_vars

\* Every goroutine runs when it can, a write returns, and the reader notices
\* the end of the context. The upstream may stay silent for ever, and the
\* client need not leave.
Fairness == WF_vars(Handler) /\ WF_vars(Provider) /\ WF_vars(Converter) /\ WF_vars(ReaderStops)

FairSpec == Spec /\ Fairness

(******************************* Properties ********************************)
BlockIndexes == 0..(MaxChatChunks + MaxAnthropicChunks)
TypeOK ==
    /\ kind \in Kinds \cup {"none"}
    /\ body \in {"open", "closed", "broken"}
    /\ Len(chunks) <= ChunkCap /\ Len(buf) <= BufCap /\ Len(events) <= EventCap
    /\ provider.pc \in {"run", "blocks", "closing", "done"}
    /\ converter.pc \in {"run", "done"}
    /\ DOMAIN converter.cv.at \subseteq BlockIndexes
    /\ handler.pc \in {"begin", "loop", "output", "buffer", "trace", "return", "done"}
    /\ handler.ending \in Endings
    /\ cancelled \in BOOLEAN

\* The items of a response and the blocks of an answer that say something,
\* and what the blocks mean.
Says(item) == item.type # "message" \/ item.data # <<>>
Tells(block) == block.kind # "message" \/ block.data # <<>>
Told(block) ==
    [kind |-> block.kind, id |-> IF block.kind = "call" THEN block.id ELSE 0, data |-> block.data]

Unnamed(block) == block.nested /\ ~Extractable(block.data)

\* Answers the code does not carry over whole (section 6 of the README):
\* a Google snapshot that comes twice, calls on the visual path, and a nested
\* call without an action: it comes late, or not at all.
NotCarried ==
    \/ kind = "google" /\ up.repeated
    \/ kind = "visual" /\ \E k \in DOMAIN up.told : up.told[k].kind = "call"
    \/ kind \in {"chat", "anthropic"} /\ \E k \in DOMAIN up.told : Unnamed(up.told[k])

\* A completed response says what the upstream told, block by block and in
\* the same order, and every item that says something is complete: through
\* the indexes, snapshots and deltas of three protocols, buffered calls, and
\* texts started too early. Not of an answer cut short, which the chat and
\* Google adapters report as completed too.
AnswerIsFaithful ==
    handler.final.done /\ ~cancelled /\ Finished(up) /\ ~NotCarried =>
        LET said == SelectSeq(handler.final.output, Says)
            told == SelectSeq(up.told, Tells)
        IN  /\ [n \in DOMAIN said |-> Meaning(said[n])] = [n \in DOMAIN told |-> Told(told[n])]
            /\ \A n \in DOMAIN said : said[n].status = "completed"

\* In which state an item must be for an event about it.
Fits == [added |-> {"none"}, part_added |-> {"added"}, delta |-> {"added"},
         data_done |-> {"added"}, part_done |-> {"added", "closing"}, done |-> {"closing"}]

\* Events the code sends out of turn (section 6 of the README): the end
\* of a message that was never added, a delta of a server-side tool, and the
\* second end of a nested call whose action never came as a delta.
OutOfTurn(e) ==
    LET item == converter.cv.output[e.item]
    IN  \/ e.kind = "delta" /\ up.hidden
        \/ item.type = "message" /\ item.data = <<>> /\ e.kind \in {"data_done", "part_done", "done"}
        \/ /\ item.type = "call" /\ e.kind \in {"data_done", "done"}
           /\ up.told[item.id].nested /\ (kind = "whole" \/ Unnamed(up.told[item.id]))

\* The client is told of an item before it is told of its parts, and nothing
\* more of it once it is done; when a whole answer is complete, its messages
\* and calls are done. Not once the client has left: events are dropped then.
ItemsCloseInOrder ==
    handler.event # NoEvent /\ ~cancelled =>
        LET e == handler.event
        IN  /\ e.item # 0 => Get(shown, e.item, "none") \in Fits[e.kind] \/ OutOfTurn(e)
            /\ e.kind = "completed" /\ Finished(up) /\ ~NotCarried =>
                  \A n \in DOMAIN e.output :
                      e.output[n].type = "reasoning" \/ Get(shown, n, "none") = "done"

\* "The adapter manages internal state [...] to produce correct OpenAI stream
\* semantics." (protocol/openai/adapter.go:322): no sequence of core events
\* makes the converter index an item that is not in the output. It does when
\* the client leaves: the adapter of a chat stream goes on after a dropped
\* event, and the panic ends the process.
NoPanic == \A k \in DOMAIN converter.pend : converter.pend[k].kind # "panic"

\* Whether a step of the converter writes to what an event refers to: the
\* output array a response shares with it, or the content of a message.
Tears(e, old, new) ==
    IF e.item = 0
    THEN \E n \in DOMAIN e.output : new.output[n] # old.output[n]
    ELSE /\ e.kind \in {"added", "done"}
         /\ old.output[e.item].type = "message"
         /\ new.output[e.item].data # old.output[e.item].data

\* The events share memory with the converter (cloneResponse copies one
\* level): while the handler marshals one, the converter, which is one step
\* ahead, does not write to it.
NoTornEvent ==
    [][handler.event # NoEvent => ~Tears(handler.event, converter.cv, converter'.cv)]_vars

\* Reasoning that comes after a call, as interleaved thinking does.
Interleaved ==
    \E j, k \in DOMAIN up.told :
        j < k /\ up.told[j].kind = "call" /\ up.told[k].kind = "reasoning"

\* The next request of the session repeats the reasoning of a call: what is
\* remembered for a call is the whole reasoning before it, and a whole answer
\* leaves no call with reasoning out. Only when an answer with interleaved
\* thinking was cut short may a call have the reasoning after it.
ReasoningIsWhole ==
    handler.pc \in {"trace", "return", "done"} /\ kind # "visual" =>
        /\ \A id \in DOMAIN cache :
              \/ cache[id] = LastReasoning(up.told, id)
              \/ Interleaved /\ ~handler.final.done
        /\ handler.ending = "whole" /\ handler.final.done /\ Finished(up) /\ ~NotCarried =>
              \A id \in DOMAIN up.told :
                  up.told[id].kind = "call" /\ LastReasoning(up.told, id) # <<>>
                     => id \in DOMAIN cache

\* Once the client has left or the upstream is over the handler returns,
\* unless it traces after a failed write, and then it waits for ever
\* (section 6 of the README); and when it has returned the goroutines
\* end, but for a converter whose event nobody took.
StreamsEnd ==
    /\ (handler.pc # "begin" /\ (cancelled \/ body # "open"))
          ~> (handler.pc = "done" \/ (handler.pc = "trace" /\ handler.ending = "failed"))
    /\ (handler.pc = "done")
          ~> (provider.pc = "done" /\ (converter.pc = "done" \/ handler.ending = "failed"))
=============================================================================
