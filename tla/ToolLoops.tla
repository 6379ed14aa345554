----------------------------- MODULE ToolLoops -----------------------------
(* The rounds a server plays with a provider inside one request of the      *)
(* client: calls of the search tools it injected, or of the visual tools,   *)
(* are answered by the server itself (websearch_inject.go,                  *)
(* extension/websearch, extension/visual), and the reasoning of earlier     *)
(* answers is put back from the session before a request is sent            *)
(* (adapter_dispatch.go, extension/deepseek_v4).                            *)
EXTENDS Conversions

(***************************** Injected search *****************************)
Injected == {"tavily_search", "firecrawl_fetch"}
\* The loop of a chat also takes the names the client uses.
SearchNames(proto) ==
    IF proto = "chat" THEN Injected \cup {"web_search", "web_search_preview"} ELSE Injected

IsCallOf(b, names) == b.t = "use" /\ b.call.name \in names
CallsOf(blocks, names) == SelectSeq(blocks, LAMBDA b : IsCallOf(b, names))
OtherCalls(blocks, names) ==
    SelectSeq(blocks, LAMBDA b : b.t = "use" /\ b.call.name \notin names)

\* Another round only if the server can answer every call.
SearchAgain(proto, answer) ==
    /\ CallsOf(answer, SearchNames(proto)) # <<>>
    /\ OtherCalls(answer, SearchNames(proto)) = <<>>

\* What a search finds is of no concern here.
Found(b) == Result(b.id, <<>>)
FoundByName(b) == [t |-> "response", name |-> b.call.name, d |-> <<>>]
AnthropicSearchRound(request, answer) ==
    request \o <<Message("assistant", answer),
                 Message("user", Each(CallsOf(answer, SearchNames("anthropic")), Found))>>
ChatSearchRound(request, answer) ==
    request \o <<Message("assistant", answer)>>
            \o Each(CallsOf(answer, SearchNames("chat")), LAMBDA b : Message("tool", <<Found(b)>>))
GoogleSearchRound(request, answer) ==
    request \o <<Message("model", answer),
                 Message("function", Each(CallsOf(answer, SearchNames("google")), FoundByName))>>
SearchRound(proto, request, answer) ==
    CASE proto = "anthropic" -> AnthropicSearchRound(request, answer)
      [] proto = "chat" -> ChatSearchRound(request, answer)
      [] OTHER -> GoogleSearchRound(request, answer)

\* Of an answer that calls others too, only the Anthropic orchestrator takes
\* its own calls away.
SearchAnswer(proto, answer) ==
    IF proto = "anthropic" /\ OtherCalls(answer, Injected) # <<>>
    THEN SelectSeq(answer, LAMBDA b : ~IsCallOf(b, Injected)) ELSE answer

(****************************** Visual tools *******************************)
VisualNames == {"visual_brief", "visual_qa"}

\* CoreOrchestrator.CreateCore asks again as soon as one call is its own,
\* with the results of those only; what Gemini stops for is never a call.
VisualAgain(proto, blocks) == proto # "google" /\ CallsOf(blocks, VisualNames) # <<>>
VisualRound(messages, blocks) ==
    messages \o <<Message("assistant", blocks),
                  Message("tool", Each(CallsOf(blocks, VisualNames), Found))>>

(************************* Reasoning of the session ************************)
\* RememberForToolCalls
Remember(cache, ids, d) == IF d = <<>> THEN cache ELSE [id \in ids |-> d] @@ cache
IdsOf(blocks) == {b.id : b \in ToSet(Of(blocks, "use"))}
LastReason(blocks) ==
    IF Has(blocks, "reason") THEN Last(Of(blocks, "reason")).d ELSE <<>>
\* RememberFromContent: the last reasoning, for all calls of an answer.
RememberContent(cache, blocks) == Remember(cache, IdsOf(blocks), LastReason(blocks))

\* The reasoning of the first call of a message that has one.
CachedFor(cache, blocks) ==
    LET known == SelectSeq(Of(blocks, "use"), LAMBDA b : b.id \in DOMAIN cache)
    IN  IF known = <<>> THEN <<>> ELSE cache[Head(known).id]

\* prependCachedThinking and prependCachedReasoningForChat: a message that
\* calls tools never goes without reasoning, even if it is empty.
WithCached(cache, m) ==
    IF m.role = "assistant" /\ Has(m.blocks, "use") /\ ~Has(m.blocks, "reason")
    THEN [m EXCEPT !.blocks = <<Reason(CachedFor(cache, m.blocks))>> \o @] ELSE m
Finalize(proto, cache, request) ==
    IF proto = "google" THEN request
    ELSE Each(request, LAMBDA m : WithCached(cache, m))

(********************************* Requests ********************************)
FromCoreRequest(proto, messages) ==
    CASE proto = "chat" -> ChatRequest(messages)
      [] proto = "anthropic" -> AnthropicRequest(messages)
      [] OTHER -> GoogleRequest(messages)
ToCoreResponse(proto, tools, answer) ==
    CASE proto = "chat" -> FromChat(tools, answer)
      [] proto = "anthropic" -> FromAnthropic(tools, answer)
      [] OTHER -> FromGoogle(tools, answer)
=============================================================================
