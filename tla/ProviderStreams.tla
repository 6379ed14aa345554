--------------------------- MODULE ProviderStreams ---------------------------
(* What the provider adapters make of an upstream answer, as functions of  *)
(* their state and the next chunk: protocol/chat, protocol/anthropic and   *)
(* protocol/google ToCoreStream, and the two synthetic streams of a whole  *)
(* response (server/adapter_dispatch.go). An answer has one choice and a   *)
(* chat chunk at most one tool call.                                       *)
EXTENDS ResponseStream, SequencesExt

Step(st, events) == [st |-> st, events |-> events]
\* The next part of a step, and its events after those before it.
Then(step, next) == Step(next.st, step.events \o next.events)

(************************* OpenAI Chat Completions *************************)
NewChat ==
    [started |-> FALSE, block |-> 0, hasReasoning |-> FALSE, reasonIndex |-> 0,
     calls |-> FALSE, toolIdx |-> 0, slot |-> <<>>]

\* The first chunk starts a block, of reasoning if it has any.
ChatRole(st, c) ==
    IF st.started \/ ~c.role THEN Step(st, <<>>)
    ELSE IF c.reasoning = <<>>
    THEN Step([st EXCEPT !.started = TRUE], <<BlockStarted(st.block, "text", 0)>>)
    ELSE Step([st EXCEPT !.started = TRUE, !.hasReasoning = TRUE, !.reasonIndex = st.block],
              <<BlockStarted(st.block, "reasoning", 0)>>)

\* Reasoning after a premature text block: the done event is for the index
\* of the block that starts.
ChatReasoning(st, c) ==
    LET new == st.block + 1
    IN  CASE c.reasoning = <<>> -> Step(st, <<>>)
          [] c.reasoning # <<>> /\ st.hasReasoning ->
                Step(st, <<TextDelta(st.reasonIndex, c.reasoning)>>)
          [] OTHER ->
                Step([st EXCEPT !.hasReasoning = TRUE, !.reasonIndex = new, !.block = new],
                     <<BlockDone(new), BlockStarted(new, "reasoning", 0),
                       TextDelta(new, c.reasoning)>>)

\* Mutant: the reasoning before the content is not ended.
ChatContentOnly(st, c) ==
    LET new == st.reasonIndex + 1
    IN  CASE c.content = <<>> -> Step(st, <<>>)
          [] c.content # <<>> /\ ~st.hasReasoning ->
                Step(st, <<TextDelta(st.block, c.content)>>)
          [] OTHER ->
                Step([st EXCEPT !.hasReasoning = FALSE, !.block = new],
                     <<BlockStarted(new, "text", 0), TextDelta(new, c.content)>>)

ChatContent(st, c) ==
    LET new == st.reasonIndex + 1
    IN  CASE c.content = <<>> -> Step(st, <<>>)
          [] c.content # <<>> /\ ~st.hasReasoning ->
                Step(st, <<TextDelta(st.block, c.content)>>)
          [] OTHER ->
                Step([st EXCEPT !.hasReasoning = FALSE, !.block = new],
                     <<BlockDone(st.reasonIndex), BlockStarted(new, "text", 0),
                       TextDelta(new, c.content)>>)

\* A tool call starts with the first chunk of its position; the blocks of
\* tool calls come after the block of that time.
ChatCall(st, c) ==
    LET first == IF st.calls THEN st ELSE [st EXCEPT !.calls = TRUE, !.toolIdx = st.block + 1]
        new == c.call \notin DOMAIN first.slot
        placed == IF new
                  THEN [first EXCEPT !.slot = With(first.slot, c.call, first.toolIdx),
                                        !.toolIdx = first.toolIdx + 1]
                  ELSE first
        slot == placed.slot[c.call]
        start == IF new THEN <<BlockStarted(slot, c.block, c.id)>> ELSE <<>>
        delta == IF c.args = <<>> THEN <<>> ELSE <<ArgsDelta(slot, c.args)>>
    IN  IF c.call = 0 THEN Step(st, <<>>) ELSE Step(placed, start \o delta)

\* The end of the block, and for every call after it two events.
ChatFinish(st, c) ==
    LET last == IF st.calls THEN st.toolIdx - 1 ELSE st.block
        ends == [k \in 1..(1 + 2 * (last - st.block)) |->
                    IF k % 2 = 0 THEN ArgsDone(st.block + k \div 2, <<>>)
                    ELSE BlockDone(st.block + k \div 2)]
    IN  Step(st, IF c.finish THEN ends ELSE <<>>)

FromChat(st, c) ==
    LET role == ChatRole(st, c)
        reasoning == Then(role, ChatReasoning(role.st, c))
        content == Then(reasoning, ChatContent(reasoning.st, c))
        call == Then(content, ChatCall(content.st, c))
    IN  Then(call, ChatFinish(call.st, c))

(*************************** Anthropic Messages ****************************)
\* type is blockTypes, suppressed is suppressText.
NewAnthropic == [type |-> <<>>, suppressed |-> {}]

\* Server-side tools are not forwarded.
BlockName == [thinking |-> "reasoning", text |-> "text", tool_use |-> "tool_use",
              nested |-> "nested"]

\* Mutant: the start of a tool call also reports progress, with the whole response.
AnthropicStartReports(st, c) ==
    Step([st EXCEPT !.type = With(st.type, c.index, c.block)],
         CASE c.block = "server_tool_use" -> <<>>
           [] c.block \in {"tool_use", "nested"} ->
                <<BlockStarted(c.index, BlockName[c.block], c.id), Lifecycle("in_progress")>>
           [] c.block \in {"text", "thinking"} ->
                <<BlockStarted(c.index, BlockName[c.block], 0)>>)

AnthropicStart(st, c) ==
    Step([st EXCEPT !.type = With(st.type, c.index, c.block)],
         CASE c.block = "server_tool_use" -> <<>>
           [] c.block \in {"tool_use", "nested"} ->
                <<BlockStarted(c.index, BlockName[c.block], c.id), Lifecycle("item_added")>>
           [] c.block \in {"text", "thinking"} ->
                <<BlockStarted(c.index, BlockName[c.block], 0)>>)

\* A text that reports search results is dropped, with the end of its block.
AnthropicDelta(st, c) ==
    CASE c.search -> Step([st EXCEPT !.suppressed = @ \cup {c.index}], <<>>)
      [] ~c.search /\ st.type[c.index] \in {"text", "thinking"} ->
            Step(st, <<TextDelta(c.index, c.data)>>)
      [] OTHER -> Step(st, <<ArgsDelta(c.index, c.data)>>)

AnthropicStop(st, c) ==
    IF c.index \in st.suppressed
    THEN Step([st EXCEPT !.suppressed = @ \ {c.index}], <<>>)
    ELSE Step(st, <<BlockDone(c.index), Lifecycle("item_done")>>)

AnthropicEvents ==
    [message_start |-> <<Lifecycle("created"), Lifecycle("item_added")>>,
     message_delta |-> <<Lifecycle("in_progress")>>,
     message_stop |-> <<Lifecycle("completed")>>,
     error |-> <<Lifecycle("failed")>>,
     ping |-> <<Lifecycle("ping")>>]

FromAnthropic(st, c) ==
    CASE c.type = "block_start" -> AnthropicStart(st, c)
      [] c.type = "block_delta" -> AnthropicDelta(st, c)
      [] c.type = "block_stop" -> AnthropicStop(st, c)
      [] OTHER -> Step(st, AnthropicEvents[c.type])

(***************************** Google GenAI ********************************)
NewGoogle == [started |-> FALSE, prev |-> <<>>]

\* computeDelta: chunks are snapshots of the whole text.
SnapshotDelta(prev, current) ==
    IF Len(current) <= Len(prev) THEN current
    ELSE SubSeq(current, Len(prev) + 1, Len(current))

FromGoogle(st, c) ==
    LET delta == SnapshotDelta(st.prev, c.text)
        start == IF st.started THEN <<>> ELSE <<BlockStarted(0, "text", 0)>>
        text == IF delta = <<>> THEN <<>> ELSE <<TextDelta(0, delta)>>
        done == IF c.finish THEN <<BlockDone(0)>> ELSE <<>>
    IN  Step([started |-> TRUE, prev |-> c.text], start \o text \o done)

(**************************** Whole responses ******************************)
\* The events of block k of a response.
BlockEvents(told, k) ==
    LET i == k - 1
        text == IF told[k].data = <<>> THEN <<>> ELSE <<TextDelta(i, told[k].data)>>
        tool == IF told[k].nested THEN "nested" ELSE "tool_use"
    IN  CASE told[k].kind = "call" ->
                <<BlockStarted(i, tool, told[k].id), ArgsDone(i, told[k].data), BlockDone(i)>>
          [] told[k].kind = "reasoning" ->
                <<BlockStarted(i, "reasoning", 0)>> \o text \o <<BlockDone(i)>>
          [] OTHER ->
                <<BlockStarted(i, "text", 0)>> \o text \o <<BlockDone(i)>>

\* What is left of a response: its blocks, the next of them, and how it ended.
NewResponse(blocks, status) == [blocks |-> blocks, next |-> 1, status |-> status]

\* coreResponseToCoreStream: all blocks of a response.
FromResponse(told, status) ==
    Step(NewResponse(told, status), <<Lifecycle("created"), Lifecycle("in_progress")>>)

\* coreResponseToStreamEvents, for images on the Anthropic path: reasoning
\* and text only, and no in_progress.
FromVisualResponse(told, status) ==
    Step(NewResponse(SelectSeq(told, LAMBDA b : b.kind # "call"), status),
         <<Lifecycle("created")>>)
=============================================================================
