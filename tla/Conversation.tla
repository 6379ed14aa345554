---------------------------- MODULE Conversation ----------------------------
(* One session of a client over several requests, without streaming         *)
(* (handleWithAdapters of adapter_dispatch.go): the client sends the whole  *)
(* history with every request, the server converts it for the provider,     *)
(* plays the rounds of its own tools, converts the answer back and          *)
(* remembers its reasoning. The provider answers anything of its protocol.  *)
EXTENDS ToolLoops

CONSTANTS
    Setups,        \* what a session may be: protocol, tools, plugins, and
                   \* the bounds blocks (of one answer) and most (of all)
    MaxRequests,   \* bound: requests of the client
    MaxRounds      \* rounds of a tool loop

ASSUME BoundsAssumption == MaxRequests \in Nat /\ MaxRounds \in Nat \ {0}

VARIABLES
    setup,      \* the session
    phase,      \* whose turn it is: client, provider or done with an answer
    input,      \* the items of the client
    core,       \* messages of the core request
    request,    \* messages of the upstream request
    round,      \* rounds of this request before this one
    cache,      \* reasoning of the session by call
    output,     \* items of the answer delivered last
    sent,       \* requests of the client
    answers,    \* answers of the provider
    said        \* history: answers delivered, in the provider's blocks

vars == <<setup, phase, input, core, request, round, cache, output, sent, answers, said>>

Tools == FlattenTools(setup.declared)

(********************************* Answers *********************************)
\* What the provider may say: a piece of text is told by the request and its
\* place in the answer, a call by the answer and its place. Gemini's calls
\* have no ids; the adapter makes them.
Token(t, call) == [t |-> t, call |-> call]
Tokens == {Token(t, Call("", "", NoArgs)) : t \in setup.says}
              \cup {Token("use", c) : c \in setup.calls}
Spoken(token, n) ==
    CASE token.t = "use" -> Use(<<"call", answers, n>>, token.call)
      [] token.t = "reason" -> Reason(<<<<sent, n>>>>)
      [] token.t = "text" -> Text(<<<<sent, n>>>>)
      [] OTHER -> Text(<<>>)

\* A chat message: reasoning, text and calls, in this order.
Rank(token) == IF token.t = "reason" THEN 1 ELSE IF token.t = "use" THEN 3 ELSE 2
Shaped(tokens) ==
    setup.proto = "chat" => \A i, j \in DOMAIN tokens : i < j =>
        /\ Rank(tokens[i]) <= Rank(tokens[j])
        /\ tokens[i].t = tokens[j].t => tokens[i].t = "use"

SaidSoFar == FoldLeft(LAMBDA n, a : n + Len(a), 0, said)
PlainText == <<Token("text", Call("", "", NoArgs))>>
MaySay(tokens) == SaidSoFar + Len(tokens) <= setup.most \/ tokens = PlainText

(********************************** Client *********************************)
UserSays == MessageItem("user", <<<<<<sent, 0>>>>>>)

\* The items of an answer the client keeps, and what it adds to them: the
\* outputs of all calls, or something the user says.
Kept(reasoning) == SelectSeq(output, LAMBDA i : i.type # "reasoning" \/ reasoning)
CallsDone ==
    LET calls == SelectSeq(output, LAMBDA i : i.type = "call")
    IN  [n \in DOMAIN calls |-> OutputItem(calls[n].id, <<<<sent, n>>>>)]
Continuation == IF CallsDone = <<>> THEN <<UserSays>> ELSE CallsDone

ClientContinues(reasoning) ==
    /\ phase = "answered"
    /\ reasoning \/ \E n \in DOMAIN output : output[n].type = "reasoning"
    /\ sent < MaxRequests
    /\ input' = input \o Kept(reasoning) \o Continuation
    /\ phase' = "client"
    /\ UNCHANGED <<setup, core, request, round, cache, output, sent, answers, said>>

(********************************* Requests ********************************)
Upstream(messages) == Finalize(setup.proto, cache, FromCoreRequest(setup.proto, messages))

SendRequest ==
    /\ phase = "client"
    /\ sent < MaxRequests
    /\ core' = ConvertInput(input, setup.reasoner)
    /\ request' = Upstream(core')
    /\ round' = 0
    /\ sent' = sent + 1
    /\ answers' = answers + 1
    /\ phase' = "provider"
    /\ UNCHANGED <<setup, input, cache, output, said>>

\* The upstream call fails, or the rounds are used up: the client gets an
\* error and may try again.
Fail ==
    /\ phase' = "client"
    /\ UNCHANGED <<setup, input, core, request, round, cache, output, sent, answers, said>>

UpstreamFails == phase = "provider" /\ Fail

NextRound(messages, upstream) ==
    \/ /\ round + 1 < MaxRounds
       /\ core' = messages
       /\ request' = upstream
       /\ round' = round + 1
       /\ answers' = answers + 1
       /\ UNCHANGED <<setup, phase, input, cache, output, sent, said>>
    \/ round + 1 = MaxRounds /\ Fail

\* Mutant: only the plugin remembers.
RememberIfEnabled(blocks) == IF setup.deepseek THEN RememberContent(cache, blocks) ELSE cache

\* The reasoning of a chat answer is remembered for every model, but not on
\* the visual path; of any answer where the plugin is enabled.
RememberAnswer(blocks) ==
    IF setup.deepseek \/ (setup.proto = "chat" /\ setup.feature # "visual")
    THEN RememberContent(cache, blocks) ELSE cache

Deliver(answer) ==
    LET blocks == ToCoreResponse(setup.proto, Tools, answer)
    IN  /\ output' = FromCoreResponse(Tools, blocks)
        /\ cache' = RememberAnswer(blocks)
        /\ said' = Append(said, answer)
        /\ phase' = "answered"
        /\ UNCHANGED <<setup, input, core, request, round, sent, answers>>

PlainAnswer(answer) == setup.feature = "plain" /\ Deliver(answer)

SearchLoop(answer) ==
    /\ setup.feature = "search"
    /\ IF SearchAgain(setup.proto, answer)
       THEN NextRound(core, SearchRound(setup.proto, request, answer))
       ELSE Deliver(SearchAnswer(setup.proto, answer))

VisualLoop(answer) ==
    /\ setup.feature = "visual"
    /\ LET blocks == ToCoreResponse(setup.proto, Tools, answer)
       IN  IF VisualAgain(setup.proto, blocks)
           THEN NextRound(VisualRound(core, blocks), Upstream(VisualRound(core, blocks)))
           ELSE Deliver(answer)

ProviderAnswers ==
    /\ phase = "provider"
    /\ \E len \in 1..setup.blocks : \E tokens \in [1..len -> Tokens] :
        /\ Shaped(tokens)
        /\ MaySay(tokens)
        /\ LET answer == [n \in DOMAIN tokens |-> Spoken(tokens[n], n)]
           IN  PlainAnswer(answer) \/ SearchLoop(answer) \/ VisualLoop(answer)

(****************************** Specification ******************************)
Init ==
    /\ setup \in Setups
    /\ phase = "client"
    /\ input = <<MessageItem("user", <<<<<<0, 0>>>>>>)>>
    /\ core = <<>> /\ request = <<>> /\ round = 0
    /\ cache = <<>>
    /\ output = <<>>
    /\ sent = 0 /\ answers = 0
    /\ said = <<>>

Next ==
    \/ SendRequest
    \/ ProviderAnswers
    \/ UpstreamFails
    \/ \E reasoning \in BOOLEAN : ClientContinues(reasoning)

Spec == Init /\ [][Next]_vars
(******************************* Properties ********************************)
\* A call as the items it may mean: the tool as it was offered, or, from a
\* provider that repeats what it reads in its history, the name and the
\* arguments of the item alone.
FunctionItem(name, ns, args) == Item("function_call", name, ns, args, NoText)

\* The exception: RebuildGrammar takes an exec tool for one by the prefix exec_
\* of its name, so the tool that is called just "exec" is handed the JSON of
\* the arguments in place of the source.
SourceLeftRaw(tool) == tool.name \notin ExecNames

OfferedAs(tool, call) ==
    CASE tool.type = "function" /\ call.name = tool.name ->
            {FunctionItem(tool.name, "", call.args)}
      [] tool.type = "namespace" /\ call.name = tool.name ->
            {FunctionItem(a, tool.name, [call.args EXCEPT !.action = ""]) :
                a \in ToSet(tool.actions) \cap {call.args.action}}
      [] tool.grammar = "apply_patch" /\ \E n \in DOMAIN PatchActions :
                call.name = PatchName(tool.name, PatchActions[n]) ->
            {Item("custom_tool_call", tool.name, "", NoArgs, TextOf("patch", call.args.of))}
      [] tool.grammar = "exec" /\ call.name = tool.name /\ call.args.key = "source" ->
            {Item("custom_tool_call", tool.name, "", NoArgs,
                  IF SourceLeftRaw(tool) THEN JSONOf(call.args)
                  ELSE TextOf("plain", call.args.of))}
      [] tool.grammar = "raw" /\ call.name = tool.name /\ call.args.key = "input" ->
            {Item("custom_tool_call", tool.name, "", NoArgs, TextOf("plain", call.args.of))}
      [] tool.name = "local_shell" /\ call.name = tool.name /\ call.args.key = "command" ->
            {Item("local_shell_call", "", "", call.args, NoText)}
      [] OTHER -> {}
RepeatedAs(tool, call) ==
    IF tool.type = "namespace" /\ call.name \in ToSet(tool.actions) /\ call.args.action = ""
    THEN {FunctionItem(call.name, tool.name, call.args)} ELSE {}
Meanings(call) ==
    UNION {OfferedAs(t, call) \cup RepeatedAs(t, call) : t \in ToSet(setup.declared)}

\* What the provider calls is what the client gets: an offered tool, called
\* with arguments of its schema, under the name and, but for SourceLeftRaw, in
\* the form its client declared; an action repeated from the history in its
\* namespace if only one has it, and never in one of several
\* (CoreToolCallFromProvider, LookupNamespaceAction, OutputItemFromBlock). A
\* call without a meaning may come back as anything: invalid arguments, a
\* namespace called with no action or one it does not have, apply_patch called
\* by its own name. A search the server injected into an Anthropic request is
\* none of the client's tools ("prevents injected search tools ... from leaking
\* to the client", Orchestrator.CreateMessage).
CallItems == SelectSeq(output, LAMBDA i : i.type = "call")
CallsReachTheirTool ==
    phase = "answered" =>
        LET uses == Of(said[Len(said)], "use")
        IN  /\ Len(uses) = Len(CallItems)
            /\ \A n \in DOMAIN uses :
                LET meanings == Meanings(uses[n].call)
                IN  /\ Cardinality(meanings) = 1 => CallItems[n].item \in meanings
                    /\ Cardinality(meanings) > 1 => CallItems[n].item.ns = ""
            /\ setup.proto = "anthropic" /\ setup.feature = "search" =>
                \A n \in DOMAIN CallItems : CallItems[n].item.name \notin Injected

\* A provider takes consecutive messages of one side as one turn; in a chat
\* only the results of one answer are.
SameTurn(a, b) == a.role = b.role /\ (setup.proto # "chat" \/ a.role = "tool")
AddTurn(turns, m) ==
    IF turns # <<>> /\ SameTurn(Last(turns), m)
    THEN [turns EXCEPT ![Len(turns)].blocks = @ \o m.blocks] ELSE Append(turns, m)
Turns(messages) == FoldLeft(AddTurn, <<>>, messages)

CallKeys(turn) ==
    Each(Of(turn.blocks, "use"), LAMBDA b : IF setup.proto = "google" THEN b.call.name ELSE b.id)
ResultKeys(turn) ==
    IF setup.proto = "google" THEN Each(Of(turn.blocks, "response"), LAMBDA b : b.name)
    ELSE Each(Of(turn.blocks, "result"), LAMBDA b : b.id)

\* What the visual loop leaves unanswered: calls it does not know beside its
\* own, and on a chat all calls but the first.
LeftByVisual ==
    /\ setup.feature = "visual" /\ setup.proto # "google"
    /\ \E n \in DOMAIN core :
        LET own == CallsOf(core[n].blocks, VisualNames)
        IN  own # <<>> /\ (OtherCalls(core[n].blocks, VisualNames) # <<>>
                           \/ (setup.proto = "chat" /\ Len(own) > 1))

\* In every request, also between the rounds of a tool loop, the turn after
\* one that calls tools holds the results of exactly these calls, in their
\* order, and no other turn holds results (convertInput keeps "the required
\* adjacency of assistant tool_use -> immediate tool_result").
CallsAnsweredInPlace ==
    (phase = "provider" /\ ~LeftByVisual) =>
        LET turns == Turns(request)
        IN  \A n \in 0..Len(turns) :
                (IF n = 0 THEN <<>> ELSE CallKeys(turns[n]))
                    = (IF n = Len(turns) THEN <<>> ELSE ResultKeys(turns[n + 1]))

\* The turns of the assistant in a request, one for each answer.
Assistant == {"assistant", "model"}
AssistantTurns ==
    LET addTurn(turns, m) ==
            IF m.role \notin Assistant THEN Append(turns, Message("", <<>>))
            ELSE IF turns # <<>> /\ Last(turns).role = m.role
            THEN [turns EXCEPT ![Len(turns)].blocks = @ \o m.blocks] ELSE Append(turns, m)
    IN  SelectSeq(FoldLeft(addTurn, <<>>, request), LAMBDA m : m.role # "")

SameCall(a, b) == a.id = b.id /\ a.call.args.of = ValidArgs(b.call.args).of
SameCalls(a, b) ==
    Len(a) = Len(b) /\ \A n \in DOMAIN a :
        IF setup.proto = "google" THEN a[n].call.args.of = ValidArgs(b[n].call.args).of
        ELSE SameCall(a[n], b[n])
Repeats(blocks, answer) ==
    /\ Joined(Of(blocks, "text")) = Joined(Of(answer, "text"))
    /\ SameCalls(Of(blocks, "use"), Of(answer, "use"))
    /\ \A b \in ToSet(Of(blocks, "reason")) : b.d = <<>> \/ b \in ToSet(answer)
FirstRequest == phase = "provider" /\ round = 0
Verbatim ==
    /\ Len(AssistantTurns) = Len(said)
    /\ \A n \in DOMAIN said : Repeats(AssistantTurns[n].blocks, said[n])

\* An answer that thinks at most once, has no empty text and does more than
\* think.
Ordinary(answer) ==
    /\ Len(Of(answer, "reason")) <= 1
    /\ \A b \in ToSet(answer) : b.t = "text" => b.d # <<>>
    /\ Has(answer, "text") \/ Has(answer, "use")
AllOrdinary == \A n \in DOMAIN said : Ordinary(said[n])

\* The history a provider reads is what was said: for every answer one turn
\* with its text, its calls and no reasoning but its own (FromCoreResponse,
\* convertInput and the providers' FromCoreRequest).
OrdinaryHistoryIsVerbatim == (FirstRequest /\ AllOrdinary) => Verbatim

\* A provider that wants its reasoning back gets it with the calls it led
\* to, whether the client repeats it or not (prependCachedThinking,
\* prependCachedReasoningForChat and the caches they read).
Replays ==
    \/ setup.proto = "chat" /\ (setup.deepseek \/ setup.feature # "visual")
    \/ setup.proto = "anthropic" /\ setup.deepseek /\ ~setup.reasoner
ReasoningIsReplayed ==
    (FirstRequest /\ AllOrdinary /\ Replays) =>
        \A n \in DOMAIN said : \A m \in ToSet(request) :
            (LastReason(said[n]) # <<>> /\ IdsOf(m.blocks) \cap IdsOf(said[n]) # {})
                => LastReason(m.blocks) = LastReason(said[n])
=============================================================================
