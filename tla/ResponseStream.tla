--------------------------- MODULE ResponseStream ---------------------------
(* The conversion of an upstream answer into the events of the Responses   *)
(* API: OpenAIAdapter.streamLoopWithBuf (protocol/openai/adapter.go) as a  *)
(* function of its state and the next core event.                          *)
(*                                                                          *)
(* A text is the sequence of the chunks it arrived in, a chunk a number.   *)
(* Action is the chunk that names the action of a nested namespace call.   *)
(* Models, usage, signatures and sequence numbers are left out, and so is  *)
(* CoreTextDone, which no provider adapter emits.                          *)
EXTENDS Naturals, Sequences, Functions, TLC

Action == 0

\* Blocks of an answer: what the upstream sends, and what its items stand for.
BlockKinds == {"message", "reasoning", "call"}

(***************************** Core events *********************************)
CoreEvent(type, index) ==
    [type |-> type, index |-> index, block |-> "none", data |-> <<>>, id |-> 0]

\* A block starts: "text", "reasoning", "tool_use", or "nested", a tool_use
\* of a namespace whose action is only known from its arguments.
BlockStarted(index, block, id) ==
    [CoreEvent("block_started", index) EXCEPT !.block = block, !.id = id]
TextDelta(index, data) == [CoreEvent("text_delta", index) EXCEPT !.data = data]
ArgsDelta(index, data) == [CoreEvent("args_delta", index) EXCEPT !.data = data]
ArgsDone(index, data) == [CoreEvent("args_done", index) EXCEPT !.data = data]
BlockDone(index) == CoreEvent("block_done", index)
Lifecycle(type) == CoreEvent(type, 0)

(************************ State of the conversion **************************)
Item(type, id, status, data) ==
    [type |-> type, id |-> id, status |-> status, data |-> data]

\* output is response.Output; text, args, at and nested are the maps
\* contentText, toolCallArgs, outputIndexes and nestedBuffers.
NewConversion ==
    [output |-> <<>>, text |-> <<>>, args |-> <<>>, at |-> <<>>, nested |-> <<>>,
     reasoning |-> {}, finalized |-> {}]

With(map, i, value) ==
    [x \in DOMAIN map \cup {i} |-> IF x = i THEN value ELSE map[x]]
Without(map, i) == Restrict(map, DOMAIN map \ {i})
\* Reading a map of Go: an absent key is its zero value.
Get(map, i, zero) == IF i \in DOMAIN map THEN map[i] ELSE zero
\* The zero of outputIndexes is the first item.
At(cv, i) == Get(cv.at, i, 1)

\* An event for the client: of an item, or of the whole response, which
\* carries the output array as it is then (cloneResponse is a shallow copy).
Sse(kind, item) == [kind |-> kind, item |-> item, output |-> <<>>]
ResponseSse(kind, cv) == [kind |-> kind, item |-> 0, output |-> cv.output]

Result(cv, sse) == [cv |-> cv, sse |-> sse]

\* A new item at the end of the output stands for block i.
Extended(cv, i, item) ==
    [cv EXCEPT !.output = Append(@, item), !.at = With(cv.at, i, Len(cv.output) + 1)]

\* Item n is complete, with its data.
Completed(output, n, data) ==
    [output EXCEPT ![n] = [output[n] EXCEPT !.data = data, !.status = "completed"]]

(****************************** The handlers *******************************)
\* created, in_progress, completed, incomplete, failed.
OnLifecycle(cv, e) == Result(cv, <<ResponseSse(e.type, cv)>>)

\* A text block has no item until its first delta.
OnTextStarted(cv, e) == Result([cv EXCEPT !.text = With(cv.text, e.index, <<>>)], <<>>)

OnReasoningStarted(cv, e) ==
    LET next == Extended(cv, e.index, Item("reasoning", 0, "in_progress", <<>>))
        n == Len(next.output)
    IN  Result([next EXCEPT !.text = With(cv.text, e.index, <<>>),
                            !.reasoning = @ \cup {e.index}],
               <<Sse("added", n), Sse("part_added", n)>>)

\* A nested call gets its item only when its action is known.
OnToolStarted(cv, e) ==
    IF e.block = "nested"
    THEN Result([cv EXCEPT !.nested =
                     With(cv.nested, e.index, [id |-> e.id, emitted |-> FALSE, buf |-> <<>>])],
                <<>>)
    ELSE LET next == Extended(cv, e.index, Item("call", e.id, "in_progress", <<>>))
         IN  Result(next, <<Sse("added", Len(next.output))>>)

OnTextDelta(cv, e) ==
    LET i == e.index
        grown == [cv EXCEPT !.text = With(cv.text, i, Get(cv.text, i, <<>>) \o e.data)]
        opened == Extended(grown, i, Item("message", 0, "in_progress", <<>>))
        n == Len(opened.output)
    IN  IF i \in cv.reasoning \/ i \in DOMAIN cv.at
        THEN Result(grown, <<Sse("delta", At(cv, i))>>)
        ELSE Result(opened, <<Sse("added", n), Sse("part_added", n), Sse("delta", n)>>)

\* TryExtractAction.
Extractable(buf) == \E k \in DOMAIN buf : buf[k] = Action

\* The item of a nested call and the replay of what was buffered.
OnNestedDelta(cv, e) ==
    LET i == e.index
        call == cv.nested[i]
        buf == call.buf \o e.data
        known == [call EXCEPT !.buf = buf, !.emitted = call.emitted \/ Extractable(buf)]
        grown == [cv EXCEPT !.args = With(cv.args, i, Get(cv.args, i, <<>>) \o e.data),
                            !.nested = With(cv.nested, i, known)]
        opened == Extended(grown, i, Item("call", call.id, "in_progress", <<>>))
        n == Len(opened.output)
    IN  CASE call.emitted -> Result(grown, <<Sse("delta", At(cv, i))>>)
          [] ~call.emitted /\ Extractable(buf) ->
                Result(opened, <<Sse("added", n), Sse("delta", n)>>)
          [] OTHER -> Result(grown, <<>>)

OnArgsDelta(cv, e) ==
    IF e.index \in DOMAIN cv.nested
    THEN OnNestedDelta(cv, e)
    ELSE Result([cv EXCEPT !.args = With(cv.args, e.index,
                                               Get(cv.args, e.index, <<>>) \o e.data)],
                <<Sse("delta", At(cv, e.index))>>)

\* ArgsDone of a nested call whose action never came: the call is added,
\* complete, under its own name. It is not marked as finalized.
OnUnextractedDone(cv, e) ==
    LET call == cv.nested[e.index]
        data == IF call.buf = <<>> THEN e.data ELSE call.buf
        next == Extended(cv, e.index, Item("call", call.id, "completed", data))
        n == Len(next.output)
    IN  Result([next EXCEPT !.nested = Without(cv.nested, e.index)],
               <<Sse("added", n), Sse("data_done", n), Sse("done", n)>>)

\* Both events that close a call index the output with At: without an item
\* in the output that is out of range.
Closing(cv, i) ==
    <<Sse("data_done", At(cv, i)),
      IF At(cv, i) \in DOMAIN cv.output THEN Sse("done", At(cv, i)) ELSE Sse("panic", 0)>>

\* Mutant: the call is not marked as finalized.
OnArgsDoneUnmarked(cv, e) ==
    LET i == e.index
        data == IF e.data = <<>> THEN Get(cv.args, i, <<>>) ELSE e.data
        final == [cv EXCEPT
                    !.nested = Without(cv.nested, i),
                    !.output = IF i \notin DOMAIN cv.at THEN cv.output
                               ELSE Completed(cv.output, cv.at[i], data)]
    IN  CASE i \in DOMAIN cv.nested /\ ~cv.nested[i].emitted -> OnUnextractedDone(cv, e)
          [] OTHER -> Result(final, Closing(final, i))

OnArgsDone(cv, e) ==
    LET i == e.index
        data == IF e.data = <<>> THEN Get(cv.args, i, <<>>) ELSE e.data
        final == [cv EXCEPT
                    !.nested = Without(cv.nested, i),
                    !.finalized = @ \cup {i},
                    !.output = IF i \notin DOMAIN cv.at THEN cv.output
                               ELSE Completed(cv.output, cv.at[i], data)]
    IN  CASE i \in cv.finalized -> Result(cv, <<>>)
          [] i \notin cv.finalized /\ i \in DOMAIN cv.nested /\ ~cv.nested[i].emitted ->
                OnUnextractedDone(cv, e)
          [] OTHER -> Result(final, Closing(final, i))

\* The summary is set, and only the part is closed.
OnReasoningDone(cv, e) ==
    LET i == e.index
    IN  Result([cv EXCEPT
                  !.output = IF i \notin DOMAIN cv.at THEN cv.output
                             ELSE Completed(cv.output, cv.at[i], Get(cv.text, i, <<>>)),
                  !.text = Without(cv.text, i),
                  !.at = Without(cv.at, i),
                  !.reasoning = @ \ {i}],
               <<Sse("part_done", At(cv, i))>>)

\* A text without deltas gets its item here, without output_item.added.
OnTextDone(cv, e) ==
    LET i == e.index
        ensured == IF i \in DOMAIN cv.at THEN cv
                   ELSE Extended(cv, i, Item("message", 0, "in_progress", <<>>))
        n == ensured.at[i]
        item == ensured.output[n]
        data == IF item.type = "message" THEN cv.text[i] ELSE item.data
    IN  Result([ensured EXCEPT !.output = Completed(ensured.output, n, data),
                               !.text = Without(cv.text, i)],
               <<Sse("data_done", n), Sse("part_done", n), Sse("done", n)>>)

\* The end of a call that no ArgsDone closed.
OnCallDone(cv, e) ==
    LET i == e.index
        n == cv.at[i]
        args == Get(cv.args, i, <<>>)
        data == IF args = <<>> THEN cv.output[n].data ELSE args
    IN  Result([cv EXCEPT !.output = Completed(cv.output, n, data),
                          !.finalized = @ \cup {i},
                          !.args = Without(cv.args, i)],
               Closing(cv, i))

OnBlockDone(cv, e) ==
    CASE e.index \in cv.reasoning -> OnReasoningDone(cv, e)
      [] e.index \notin cv.reasoning /\ e.index \in DOMAIN cv.text -> OnTextDone(cv, e)
      [] e.index \notin cv.reasoning \cup DOMAIN cv.text \cup cv.finalized
            /\ e.index \in DOMAIN cv.at -> OnCallDone(cv, e)
      [] OTHER -> Result(cv, <<>>)

\* CoreItemAdded, CoreItemDone and CorePing are skipped.
Convert(cv, e) ==
    CASE e.type \in {"created", "in_progress", "completed", "incomplete", "failed"} ->
            OnLifecycle(cv, e)
      [] e.type = "block_started" /\ e.block = "text" -> OnTextStarted(cv, e)
      [] e.type = "block_started" /\ e.block = "reasoning" -> OnReasoningStarted(cv, e)
      [] e.type = "block_started" /\ e.block \in {"tool_use", "nested"} ->
            OnToolStarted(cv, e)
      [] e.type = "text_delta" -> OnTextDelta(cv, e)
      [] e.type = "args_delta" -> OnArgsDelta(cv, e)
      [] e.type = "args_done" -> OnArgsDone(cv, e)
      [] e.type = "block_done" -> OnBlockDone(cv, e)
      [] OTHER -> Result(cv, <<>>)
=============================================================================
