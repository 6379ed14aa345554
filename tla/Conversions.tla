---------------------------- MODULE Conversions ----------------------------
(* From the items of a client to the messages of a provider, and from what  *)
(* a provider answers to items (ToCoreRequest and FromCoreResponse of       *)
(* protocol/openai; FromCoreRequest and ToCoreResponse of protocol/chat,    *)
(* protocol/anthropic and protocol/google).                                 *)
(*                                                                          *)
(* A text is the sequence of the pieces somebody said, so that joining      *)
(* texts is joining sequences. Every provider's messages are written as     *)
(* [role, blocks]; what a chat message keeps in fields of its own (content, *)
(* reasoning_content, tool_calls) are blocks of one message here.           *)
EXTENDS CodexTools

Text(d) == [t |-> "text", d |-> d]
Reason(d) == [t |-> "reason", d |-> d]
Use(id, call) == [t |-> "use", id |-> id, call |-> call]
Result(id, d) == [t |-> "result", id |-> id, d |-> d]
Message(role, blocks) == [role |-> role, blocks |-> blocks]

Of(blocks, t) == SelectSeq(blocks, LAMBDA b : b.t = t)
Has(blocks, t) == Of(blocks, t) # <<>>
Joined(blocks) == FlattenSeq([n \in DOMAIN blocks |-> blocks[n].d])
Each(blocks, Op(_)) == [n \in DOMAIN blocks |-> Op(blocks[n])]

(****************************** Items to core ******************************)
\* A slice of blocks: its length in a backing array, 0 for none. An append
\* within the capacity writes into the array.
NoSlice == [array |-> 0, len |-> 0]
Read(arrays, s) == IF s.len = 0 THEN <<>> ELSE SubSeq(arrays[s.array].cells, 1, s.len)
Grown(cap, need) == IF need > 2 * cap THEN need ELSE 2 * cap

Fits(arrays, s, more) == s.array # 0 /\ s.len + Len(more) <= arrays[s.array].cap
Overwrite(cells, s, more) ==
    SubSeq(cells, 1, s.len) \o more \o SubSeq(cells, s.len + Len(more) + 1, Len(cells))
\* append(s, more...): the arrays and the slice after it.
AppendSlice(arrays, s, more) ==
    IF more = <<>> THEN [arrays |-> arrays, s |-> s]
    ELSE IF Fits(arrays, s, more)
    THEN [arrays |-> [arrays EXCEPT ![s.array].cells = Overwrite(@, s, more)],
          s |-> [s EXCEPT !.len = @ + Len(more)]]
    ELSE LET cap == IF s.array = 0 THEN 0 ELSE arrays[s.array].cap
         IN  [arrays |-> Append(arrays, [cells |-> Read(arrays, s) \o more,
                                         cap |-> Grown(cap, s.len + Len(more))]),
              s |-> [array |-> Len(arrays) + 1, len |-> s.len + Len(more)]]

\* The state of convertInput: messages so far, pendingReasoning and
\* pendingFCBlocks. A message holds blocks of its own or a slice.
NewInput == [messages |-> <<>>, arrays |-> <<>>, pending |-> NoSlice, calls |-> <<>>]
Own(role, blocks) == [role |-> role, blocks |-> blocks, slice |-> NoSlice]
Shared(role, s) == [role |-> role, blocks |-> <<>>, slice |-> s]
Pending(st) == Read(st.arrays, st.pending)
Truncate(st) == [st EXCEPT !.pending.len = 0]
Add(st, message) == [st EXCEPT !.messages = Append(@, message)]

FlushCalls(st) ==
    IF st.calls = <<>> THEN st
    ELSE [Add(st, Own("assistant", st.calls)) EXCEPT !.calls = <<>>]

\* mergeReasoningBeforeToolUse
Leading(blocks) == CHOOSE n \in 0..Len(blocks) :
    /\ \A k \in 1..n : blocks[k].t = "reason"
    /\ n < Len(blocks) => blocks[n + 1].t # "reason"
MergeReasoning(blocks, reasoning) ==
    SubSeq(blocks, 1, Leading(blocks)) \o reasoning
        \o SubSeq(blocks, Leading(blocks) + 1, Len(blocks))

MergePending(st) ==
    IF st.calls # <<>> /\ Pending(st) # <<>>
    THEN Truncate([st EXCEPT !.calls = MergeReasoning(@, Pending(st))]) ELSE st
FlushReasoning(st) ==
    IF Pending(st) = <<>> THEN st ELSE Truncate(Add(st, Own("assistant", Pending(st))))

ConvertOutput(st, item) ==
    Add(FlushReasoning(FlushCalls(MergePending(st))),
        Own("tool", <<Result(item.id, item.d)>>))

\* reasoningBlocksFromSummary
ReasonsOf(item) == IF item.d = <<>> THEN <<>> ELSE <<Reason(item.d)>>
ConvertReasoning(st, item) ==
    IF st.calls # <<>>
    THEN [st EXCEPT !.calls = MergeReasoning(@, ReasonsOf(item))]
    ELSE LET r == AppendSlice(st.arrays, st.pending, ReasonsOf(item))
         IN  [st EXCEPT !.arrays = r.arrays, !.pending = r.s]

\* A model whose name says it reasons gets an empty reasoning block before a
\* function call that has none.
ConvertCall(st, item, reasoner) ==
    LET empty == IF item.item.type = "function_call" /\ reasoner /\ Pending(st) = <<>>
                 THEN <<Reason(<<>>)>> ELSE <<>>
        r == AppendSlice(st.arrays, st.pending, empty)
    IN  [st EXCEPT !.arrays = r.arrays,
                   !.pending = [r.s EXCEPT !.len = 0],
                   !.calls = @ \o Read(r.arrays, r.s)
                               \o <<Use(item.id, CallFromItem(item.item))>>]

\* contentBlocksFromRaw leaves empty parts out.
Texts(item) ==
    LET parts == SelectSeq(item.parts, LAMBDA d : d # <<>>)
    IN  [n \in DOMAIN parts |-> Text(parts[n])]

\* Mutant: the reasoning goes on waiting.
ConvertAssistantKeepsPending(st, item) ==
    LET r == AppendSlice(st.arrays, st.pending, Texts(item))
        next == [st EXCEPT !.arrays = r.arrays]
    IN  IF Pending(st) # <<>> THEN Add(next, Shared("assistant", r.s))
        ELSE IF Texts(item) = <<>> THEN st
        ELSE Add(st, Own("assistant", Texts(item)))

\* An answer is appended to the reasoning that waits for it, which is then
\* truncated: the message may share its array.
ConvertAssistant(st, item) ==
    LET r == AppendSlice(st.arrays, st.pending, Texts(item))
        next == [Truncate(st) EXCEPT !.arrays = r.arrays]
    IN  IF Pending(st) # <<>> THEN Add(next, Shared("assistant", r.s))
        ELSE IF Texts(item) = <<>> THEN st
        ELSE Add(st, Own("assistant", Texts(item)))

ConvertMessage(st, item) ==
    IF item.role = "assistant" THEN ConvertAssistant(st, item)
    ELSE IF Texts(item) = <<>> THEN st ELSE Add(st, Own("user", Texts(item)))

ConvertItem(st, item, reasoner) ==
    CASE item.type = "output" -> ConvertOutput(st, item)
      [] item.type = "reasoning" -> ConvertReasoning(st, item)
      [] item.type = "call" -> ConvertCall(st, item, reasoner)
      [] OTHER -> ConvertMessage(FlushCalls(st), item)

Contents(arrays, messages) ==
    [n \in DOMAIN messages |->
        Message(messages[n].role, messages[n].blocks \o Read(arrays, messages[n].slice))]

\* convertInput: the messages of the core request.
ConvertInput(items, reasoner) ==
    LET end == FoldLeft(LAMBDA st, item : ConvertItem(st, item, reasoner), NewInput, items)
        all == FlushCalls(IF Pending(end) = <<>> THEN end
                          ELSE Add(end, Shared("assistant", end.pending)))
    IN  Contents(all.arrays, all.messages)

(**************************** Core to providers ****************************)
\* toChatMessage: one string of content, the last reasoning, the calls; the
\* message of a tool has its first result only.
ChatContent(blocks) ==
    LET content == SelectSeq(blocks, LAMBDA b : b.t \in {"text", "result"})
    IN  IF content = <<>> \/ (Has(blocks, "use") /\ Joined(content) = <<>>) THEN <<>>
        ELSE <<Text(Joined(content))>>
ChatReasoning(blocks) ==
    LET said == SelectSeq(Of(blocks, "reason"), LAMBDA b : b.d # <<>>)
    IN  IF said = <<>> THEN <<>> ELSE <<Last(said)>>
ChatMessage(m) ==
    IF m.role = "tool" /\ Has(m.blocks, "result")
    THEN Message("tool", <<Head(Of(m.blocks, "result"))>>)
    ELSE Message(m.role, ChatReasoning(m.blocks) \o ChatContent(m.blocks)
                           \o Of(m.blocks, "use"))

\* A message without content and calls is left out.
ChatRequest(messages) ==
    SelectSeq(Each(messages, ChatMessage),
              LAMBDA m : \E n \in DOMAIN m.blocks : m.blocks[n].t # "reason")

\* Results of one answer are one message; the first message is the user's.
ResultsOnly(m) == \A n \in DOMAIN m.blocks : m.blocks[n].t = "result"
AnthropicRole(role) == IF role = "tool" THEN "user" ELSE role
AddAnthropic(messages, given) ==
    LET m == Message(AnthropicRole(given.role), given.blocks)
        k == Len(messages)
    IN  IF m.blocks = <<>> THEN messages
        ELSE IF k > 0 /\ m.role = "user" /\ messages[k].role = "user"
                /\ ResultsOnly(m) /\ ResultsOnly(messages[k])
        THEN [messages EXCEPT ![k].blocks = @ \o m.blocks]
        ELSE Append(messages, m)
Placeholder == Message("user", <<Text(<<>>)>>)
UserFirst(messages) ==
    IF messages # <<>> /\ messages[1].role # "user"
    THEN <<Placeholder>> \o messages ELSE messages
AnthropicRequest(messages) == UserFirst(FoldLeft(AddAnthropic, <<>>, messages))

\* Mutant: the first call of an id gives the name.
NameOfFirstCall(messages, n, id) ==
    LET uses == FlattenSeq([k \in 1..n |-> Of(messages[k].blocks, "use")])
        same == SelectSeq(uses, LAMBDA b : b.id = id)
    IN  IF same = <<>> THEN "" ELSE Head(same).call.name

\* Gemini knows no call ids: a result is told by the name of the call that
\* had its id last. Reasoning becomes text.
NameOfCall(messages, n, id) ==
    LET uses == FlattenSeq([k \in 1..n |-> Of(messages[k].blocks, "use")])
        same == SelectSeq(uses, LAMBDA b : b.id = id)
    IN  IF same = <<>> THEN "" ELSE Last(same).call.name
GoogleRole(role) == IF role = "assistant" THEN "model" ELSE "user"
GooglePart(messages, n, b) ==
    CASE b.t = "result" -> <<[t |-> "response", name |-> NameOfCall(messages, n, b.id), d |-> b.d]>>
      [] b.t = "reason" -> IF b.d = <<>> THEN <<>> ELSE <<Text(b.d)>>
      [] OTHER -> <<b>>
GoogleParts(messages, n) ==
    FlattenSeq([k \in DOMAIN messages[n].blocks |-> GooglePart(messages, n, messages[n].blocks[k])])
AddGoogle(contents, m) ==
    LET k == Len(contents)
    IN  IF m.blocks = <<>> THEN contents
        ELSE IF k > 0 /\ contents[k].role = m.role
        THEN [contents EXCEPT ![k].blocks = @ \o m.blocks]
        ELSE Append(contents, m)
GoogleRequest(messages) ==
    UserFirst(FoldLeft(AddGoogle, <<>>,
                       [n \in DOMAIN messages |->
                           Message(GoogleRole(messages[n].role), GoogleParts(messages, n))]))

(*************************** Answers to core ******************************)
\* What a provider answers is a sequence of blocks in its own names; chat
\* has one reasoning and one text, both left out if empty, then the calls.
DecodeUse(tools, b) ==
    IF b.t = "use" THEN Use(b.id, CallFromProvider(tools, b.call.name, b.call.args)) ELSE b
FromChat(tools, answer) ==
    LET said == SelectSeq(answer, LAMBDA b : b.t = "use" \/ b.d # <<>>)
    IN  Each(said, LAMBDA b : DecodeUse(tools, b))
FromAnthropic(tools, answer) == Each(answer, LAMBDA b : DecodeUse(tools, b))

\* fromParts numbers the calls of each name, in every answer from 1.
GoogleId(answer, n) ==
    LET name == answer[n].call.name
    IN  <<name, Cardinality({k \in 1..n : answer[k].t = "use" /\ answer[k].call.name = name})>>
FromGoogle(tools, answer) ==
    [n \in DOMAIN answer |->
        IF answer[n].t = "use"
        THEN DecodeUse(tools, Use(GoogleId(answer, n), answer[n].call)) ELSE answer[n]]

(************************* Core to items of the client *********************)
MessageItem(role, parts) == [type |-> "message", role |-> role, parts |-> parts]
ReasoningItem(d) == [type |-> "reasoning", d |-> d]
CallItem(id, item) == [type |-> "call", id |-> id, item |-> item]
OutputItem(id, d) == [type |-> "output", id |-> id, d |-> d]

\* FromCoreResponse: texts are collected up to the next call, so that
\* reasoning between them goes first.
FlushText(st) ==
    IF st.parts = <<>> THEN st
    ELSE [output |-> Append(st.output, MessageItem("assistant", st.parts)), parts |-> <<>>]
AddBlock(tools, st, b) ==
    CASE b.t = "text" -> [st EXCEPT !.parts = Append(@, b.d)]
      [] b.t = "reason" -> [st EXCEPT !.output = Append(@, ReasoningItem(b.d))]
      [] OTHER -> LET f == FlushText(st)
                  IN  [f EXCEPT !.output = Append(@, CallItem(b.id, ItemOfCall(tools, b.call)))]
FromCoreResponse(tools, blocks) ==
    FlushText(FoldLeft(LAMBDA st, b : AddBlock(tools, st, b),
                       [output |-> <<>>, parts |-> <<>>], blocks)).output
=============================================================================
