------------------------------ MODULE Upstreams ------------------------------
(* The answers an upstream streams, chunk by chunk, in the grammar the     *)
(* adapters are written for, and what each has told so far: its blocks, as *)
(* the upstream means them. The n-th chunk carries the text <<n>>; the     *)
(* arguments of a nested call carry its action in some chunk, or in none.  *)
EXTENDS ProviderStreams

CONSTANTS
    MaxChatChunks, MaxAnthropicChunks, MaxGoogleChunks,  \* chunks of an answer
    MaxBlocks                                            \* blocks of an answer

ASSUME UpstreamAssumption ==
    {MaxChatChunks, MaxAnthropicChunks, MaxGoogleChunks, MaxBlocks} \subseteq Nat

Block(kind, id, nested, data) == [kind |-> kind, id |-> id, nested |-> nested, data |-> data]

\* n chunks were sent, of so many tool calls (chat) or blocks (Anthropic);
\* repeated says that a snapshot came twice, hidden that a server-side tool
\* has sent its input.
NewUpstream ==
    [stage |-> "start", n |-> 0, told |-> <<>>, blocks |-> 0,
     repeated |-> FALSE, hidden |-> FALSE]

Sent(up, chunk) == [up |-> [up EXCEPT !.n = @ + 1], chunk |-> chunk]
Moved(up, stage) == [up EXCEPT !.stage = stage]

\* The upstream has told all it wanted to.
Finished(up) == up.stage = "finished"

Token(up) == <<up.n + 1>>
NextId(up) == Len(up.told) + 1

Starting(up, kind, nested, data) ==
    [up EXCEPT !.told = Append(@, Block(kind, NextId(up), nested, data))]
Continuing(up, data) ==
    [up EXCEPT !.told[Len(up.told)].data = @ \o data]

\* More text of a kind belongs to the last block if that is of the kind.
Telling(up, kind, data) ==
    IF up.told # <<>> /\ Last(up.told).kind = kind
    THEN Continuing(up, data) ELSE Starting(up, kind, FALSE, data)

\* The arguments a chunk may carry for a call.
Arguments(up, nested) == {Token(up)} \cup (IF nested THEN {<<Action>>} ELSE {})

(************************* OpenAI Chat Completions *************************)
ChatChunk ==
    [role |-> FALSE, reasoning |-> <<>>, content |-> <<>>, call |-> 0, id |-> 0,
     block |-> "tool_use", args |-> <<>>, finish |-> FALSE]

\* The role comes first, alone or with the first reasoning.
ChatOpens(up) ==
    {Sent(Moved(up, "reasoning"), [ChatChunk EXCEPT !.role = TRUE]),
     Sent(Moved(Telling(up, "reasoning", Token(up)), "reasoning"),
          [ChatChunk EXCEPT !.role = TRUE, !.reasoning = Token(up)])}

ChatReasons(up) ==
    {Sent(Telling(up, "reasoning", Token(up)), [ChatChunk EXCEPT !.reasoning = Token(up)])}

ChatSpeaks(up) ==
    {Sent(Moved(Telling(up, "message", Token(up)), "content"),
          [ChatChunk EXCEPT !.content = Token(up)])}

\* The next call, of position blocks + 1.
ChatCalls(up) ==
    {Sent(Moved([Starting(up, "call", nested, args) EXCEPT !.blocks = @ + 1], "calls"),
          [ChatChunk EXCEPT !.call = up.blocks + 1, !.id = NextId(up),
                            !.block = IF nested THEN "nested" ELSE "tool_use", !.args = args]) :
        nested \in BOOLEAN, args \in {<<>>, Token(up)}}

\* More arguments for the last call.
ChatArgues(up) ==
    {Sent(Continuing(up, args), [ChatChunk EXCEPT !.call = up.blocks, !.args = args]) :
        args \in Arguments(up, Last(up.told).nested)}

ChatFinishes(up) == {Sent(Moved(up, "finished"), [ChatChunk EXCEPT !.finish = TRUE])}

ChatSends(up) ==
    CASE up.n = MaxChatChunks \/ Finished(up) -> {}
      [] up.n # MaxChatChunks /\ up.stage = "start" -> ChatOpens(up)
      [] up.n # MaxChatChunks /\ up.stage = "reasoning" ->
            ChatReasons(up) \cup ChatSpeaks(up) \cup ChatCalls(up) \cup ChatFinishes(up)
      [] up.n # MaxChatChunks /\ up.stage = "content" ->
            ChatSpeaks(up) \cup ChatCalls(up) \cup ChatFinishes(up)
      [] up.n # MaxChatChunks /\ up.stage = "calls" ->
            ChatArgues(up) \cup ChatFinishes(up)
            \cup (IF up.blocks < MaxBlocks THEN ChatCalls(up) ELSE {})

(*************************** Anthropic Messages ****************************)
AnthropicChunk(type) ==
    [type |-> type, index |-> 0, block |-> "none", id |-> 0, data |-> <<>>, search |-> FALSE]

AnthropicKind == [text |-> "message", thinking |-> "reasoning", tool_use |-> "call",
                  nested |-> "call"]

\* A block starts. What a server-side tool does is not told to the client.
AnthropicOpens(up, block) ==
    LET chunk == [AnthropicChunk("block_start") EXCEPT !.index = up.blocks, !.block = block]
        opened == [up EXCEPT !.blocks = @ + 1, !.stage = block]
    IN  IF block = "server_tool_use" THEN Sent(opened, chunk)
        ELSE Sent(Starting(opened, AnthropicKind[block], block = "nested", <<>>),
                  [chunk EXCEPT !.id = IF AnthropicKind[block] = "call" THEN NextId(up) ELSE 0])

\* A delta of the open block; search results take the place of its text.
AnthropicDeltas(up) ==
    LET chunk == [AnthropicChunk("block_delta") EXCEPT !.index = up.blocks - 1]
    IN  (IF up.stage = "server_tool_use" THEN {Sent([up EXCEPT !.hidden = TRUE], [chunk EXCEPT !.data = Token(up)])}
         ELSE {Sent(Continuing(up, data), [chunk EXCEPT !.data = data]) :
                 data \in Arguments(up, up.stage = "nested")})
        \cup (IF up.stage = "text" /\ Last(up.told).data = <<>>
              THEN {Sent(Moved(up, "search"), [chunk EXCEPT !.search = TRUE])} ELSE {})

AnthropicSends(up) ==
    CASE up.n = MaxAnthropicChunks \/ Finished(up) \/ up.stage = "failed" -> {}
      [] up.n # MaxAnthropicChunks /\ up.stage = "start" ->
            {Sent(Moved(up, "between"), AnthropicChunk("message_start"))}
      [] up.n # MaxAnthropicChunks /\ up.stage = "between" ->
            {Sent(Moved(up, "closing"), AnthropicChunk("message_delta")),
             Sent(Moved(up, "failed"), AnthropicChunk("error"))}
            \cup (IF up.n = 1 THEN {Sent(up, AnthropicChunk("ping"))} ELSE {})
            \cup (IF up.blocks = MaxBlocks THEN {}
                  ELSE {AnthropicOpens(up, block) :
                          block \in DOMAIN AnthropicKind \cup {"server_tool_use"}})
      [] up.n # MaxAnthropicChunks /\ up.stage = "closing" ->
            {Sent(Moved(up, "finished"), AnthropicChunk("message_stop"))}
      [] OTHER ->
            {Sent(Moved(up, "between"),
                  [AnthropicChunk("block_stop") EXCEPT !.index = up.blocks - 1])}
            \cup (IF up.stage = "search" THEN {} ELSE AnthropicDeltas(up))

(***************************** Google GenAI ********************************)
\* Snapshots of one text, each a continuation of the one before.
GoogleSends(up) ==
    LET said == IF up.told = <<>> THEN <<>> ELSE Last(up.told).data
        same == [up EXCEPT !.repeated = @ \/ said # <<>>]
        chunk(text, finish) == [text |-> text, finish |-> finish]
        stage(finish) == IF finish THEN "finished" ELSE "content"
    IN  IF up.n = MaxGoogleChunks \/ Finished(up) THEN {}
        ELSE {Sent(Moved(same, stage(finish)), chunk(said, finish)) : finish \in BOOLEAN}
             \cup {Sent(Moved(Telling(up, "message", Token(up)), stage(finish)),
                        chunk(said \o Token(up), finish)) : finish \in BOOLEAN}

(**************************** Whole responses ******************************)
\* The responses of a call without streaming, in which the k-th block, if it
\* has a text, has the text <<k>>.
Responses ==
    LET blocks(k) == {Block(kind, k, FALSE, data) : kind \in BlockKinds, data \in {<<>>, <<k>>}}
                     \cup {Block("call", k, TRUE, data) : data \in {<<Action>>, <<k>>}}
    IN  {<<>>} \cup {<<a>> : a \in blocks(1)} \cup {<<a, b>> : a \in blocks(1), b \in blocks(2)}

(****************************** Upstreams **********************************)
\* The next chunks of a streaming upstream, with what it has told then.
Sends(kind, up) ==
    CASE kind = "chat" -> ChatSends(up)
      [] kind = "anthropic" -> AnthropicSends(up)
      [] kind = "google" -> GoogleSends(up)
      [] OTHER -> {}
=============================================================================
