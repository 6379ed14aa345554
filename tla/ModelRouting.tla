---------------------------- MODULE ModelRouting ----------------------------
(* From a configuration to an upstream request. The gateway starts from a   *)
(* file or from its store, serves requests with the snapshot it runs on and *)
(* the slot resolver last installed, and takes changes of the configuration *)
(* graph, which are saved, loaded into a new snapshot and, for a change of  *)
(* a routing profile by the desktop, followed by a new resolver             *)
(* (service/app/app.go, service/configgraph/service.go, service/runtime,    *)
(* and server.go, dispatch.go and adapter_dispatch.go of service/server).   *)
(*                                                                          *)
(* What an adapter makes of a request and of its answer are the subjects of *)
(* Conversation and ResponsesServer; here a request is what it is asked     *)
(* for, who it is sent to and with which credentials. The changes come one  *)
(* at a time: what two of them do to each other is the subject of           *)
(* ConfigPlane.                                                             *)
EXTENDS RoutingSlots

CONSTANTS
    Requests,   \* the requests
    Asks,       \* what they may ask: [ref, image, thinking, effort]
    Seeds,      \* the configuration files a start may be given
    Stores,     \* what the store may hold before the first start
    Changes,    \* the changes: [what, kind, id, ops, value, desktop]
    Edits,      \* the profiles the desktop may save while nothing runs: [id, slots]
    Env,        \* the variables that are set
    Native,     \* the providers with a web search of their own
    MaxStarts,  \* bound: how often the gateway starts
    MaxChanges  \* bound: how many changes are committed

VARIABLES
    store,    \* what the database holds
    codec,    \* what the platform can do with secrets in this run
    running,  \* the snapshot of the running gateway, or Stopped
    clients,  \* the chat and Google clients: those made at the start, those cached
    holder,   \* the slot resolver that is installed
    pending,  \* what is left of the change under way, or Settled
    desk,     \* what the desktop has still to do about a profile it changed
    starts, changes,
    req       \* the requests

plane == <<store, codec, running, holder, pending, desk, starts, changes>>
vars == <<store, codec, running, clients, holder, pending, desk, starts, changes, req>>

Stopped == [up |-> FALSE]
Snapshot(pm, version) == [up |-> TRUE, pm |-> pm, version |-> version]
Settled == [step |-> "none"]
\* A saved change that waits for a restart stops nothing.
RestartNeeded == [step |-> "restart"]
NothingToDo == [step |-> "none"]
NoHolder == [installed |-> FALSE]
Holder(resolver) == [installed |-> TRUE, resolver |-> resolver]
NoManager == [config |-> None]
NoClients == [startup |-> <<>>, cached |-> <<>>]

Idle == [pc |-> "idle"]

Init ==
    /\ store \in Stores
    /\ codec \in Codecs \ {"none"}
    /\ running = Stopped /\ clients = NoClients /\ holder = NoHolder
    /\ pending = Settled /\ desk = NothingToDo
    /\ starts = 0 /\ changes = 0
    /\ req = [r \in Requests |-> Idle]

(********************************** Starting *******************************)
\* The clients of the two protocols that the manager has none for. They take
\* the key as the configuration has it.
OwnProtocols == {"openai-chat", "google-genai"}
StoredClient(p) == [url |-> p.url, key |-> p.key]
StartupClients(c) ==
    [id \in {<<p, c.providers[p].proto>> : p \in
                {q \in DOMAIN c.providers : c.providers[q].proto \in OwnProtocols}} |->
        StoredClient(c.providers[id[1]])]

\* The gateway runs on a configuration, with the resolver of its slots.
RunOn(c, issues) ==
    /\ running' \in {Snapshot(pm, 1) : pm \in ResolveSearch(Manager(c, Env, codec', issues), Native)}
    /\ clients' = [startup |-> StartupClients(c), cached |-> <<>>]
    /\ holder' = Holder(BuildSlotResolver(c))

\* What a start makes of the store: its configuration if it can be loaded,
\* which then has providers and counts as state. A store never seeded takes the
\* file; one that cannot be loaded is left alone, and the gateway runs on the
\* file.
UseStore(seed) ==
    /\ store' = Repaired(store, codec')
    /\ IF LoadAll(store, codec') = {} THEN RunOn(seed, {})
       ELSE \E c \in LoadAll(store, codec') : RunOn(c, Issues(store, codec'))
SeedStore(seed) == store' \in Seed(seed, codec') /\ RunOn(seed, {})

\* The configurations a file is read as; its keys are encrypted first.
SeedsOf(f, withCodec) == UNION {FromFile(g) : g \in Normalize(f, withCodec)}
\* runTransform. The secrets of the platform may differ from one start to the
\* next. A file that is refused, or whose keys cannot be encrypted, ends it.
Start ==
    /\ ~running.up /\ starts < MaxStarts
    /\ codec' \in IF starts = 0 THEN {codec} ELSE Codecs \ {"none"}
    /\ \E f \in Seeds :
        \/ /\ SeedsOf(f, codec') = {}
           /\ UNCHANGED <<store, running, clients, holder>>
        \/ \E seed \in SeedsOf(f, codec') :
            IF store.seeded THEN UseStore(seed) ELSE SeedStore(seed)
    /\ starts' = starts + 1
    /\ UNCHANGED <<pending, desk, changes, req>>

\* The process ends at any point; its requests end with it.
Stop ==
    /\ running.up
    /\ running' = Stopped /\ clients' = NoClients /\ holder' = NoHolder
    /\ pending' = Settled /\ desk' = NothingToDo
    /\ req' = [r \in Requests |-> IF req[r].pc = "idle" THEN Idle ELSE [pc |-> "dropped"]]
    /\ UNCHANGED <<store, codec, starts, changes>>

(********************************** Changes ********************************)
\* The file a change makes of the configuration it finds; none if it is
\* refused.
Changed(f, change) ==
    CASE change.what = "patch" -> ApplyPatch(f, change.ops)
      [] change.what = "create" -> CreateResource(f, change.kind, change.id, change.value)
      [] change.what = "delete" -> DeleteResource(f, change.kind, change.id)

\* acceptCandidate up to its save: the candidate is built, saved, and the
\* issues of the providers that were given a key are forgotten.
KeysGiven(change) ==
    {change.ops[n].id : n \in {k \in DOMAIN change.ops :
        change.ops[k].kind = "provider" /\ change.ops[k].field = "key"}}
Commit ==
    /\ running.up /\ pending.step # "reload" /\ changes < MaxChanges
    /\ \E change \in Changes, c \in LoadAll(store, codec) :
        \E f \in Changed(ToFile(c), change) : \E accepted \in Accept(f, codec) :
            /\ change.desktop => desk = NothingToDo
            /\ store' = accepted.store
            /\ running' = [running EXCEPT !.pm = ClearIssues(@, KeysGiven(change))]
            /\ pending' = IF RequiresRestart(change.ops) THEN RestartNeeded
                          ELSE [step |-> "reload", config |-> accepted.config,
                                desktop |-> change.desktop]
    /\ changes' = changes + 1
    /\ UNCHANGED <<codec, clients, holder, desk, starts, req>>

\* Mutant: the clients of the old snapshot are kept.
ReloadKeepsClients ==
    /\ pending.step = "reload"
    /\ running' = Snapshot([Manager(pending.config, Env, codec, {}) EXCEPT
                            !.clients = [p \in DOMAIN @ |-> IF p \in DOMAIN running.pm.clients
                                                            THEN running.pm.clients[p] ELSE @[p]]],
                           running.version + 1)
    /\ pending' = Settled
    /\ desk' = IF pending.desktop THEN [step |-> "derive"] ELSE desk
    /\ UNCHANGED <<store, codec, clients, holder, starts, changes, req>>
\* Runtime.Reload: a new snapshot, without the issues and the web search of
\* the start. The clients that were cached stay.
Reload ==
    /\ pending.step = "reload"
    /\ running' = Snapshot(Manager(pending.config, Env, codec, {}), running.version + 1)
    /\ pending' = Settled
    /\ desk' = IF pending.desktop THEN [step |-> "derive"] ELSE desk
    /\ UNCHANGED <<store, codec, clients, holder, starts, changes, req>>

\* deriveConfigCodex: what the desktop reads of what runs by now.
Derived == FromFile(ToFile(running.pm.config))
\* After it has activated or saved a profile the desktop reads back what runs by
\* now, and if that fails leaves the resolver alone.
Derive ==
    /\ desk.step = "derive"
    /\ desk' \in {NothingToDo} \cup {[step |-> "swap", config |-> c] : c \in Derived}
    /\ UNCHANGED <<store, codec, running, clients, holder, pending, starts, changes, req>>
\* RefreshRoutingProfile and SwapRoutingProfileResolver, of what it read.
Refresh ==
    /\ desk.step = "swap"
    /\ holder' = Holder(BuildSlotResolver(desk.config))
    /\ desk' = NothingToDo
    /\ UNCHANGED <<store, codec, running, clients, pending, starts, changes, req>>

\* saveRoutingProfileToStore: while nothing runs, the desktop saves a profile by
\* itself. A store that cannot be loaded because it was never seeded is seeded
\* from the file; the store is loaded, given the profile, saved, and loaded.
OrSeeded(from, f) ==
    IF from.seeded THEN {from} ELSE UNION {Seed(c, codec) : c \in SeedsOf(f, "none")}
SavedWith(from, edit) ==
    UNION {Save([c EXCEPT !.profiles = CanonicalForSave(@, edit)], codec) : c \in LoadAll(from, codec)}
SaveStopped ==
    /\ ~running.up /\ changes < MaxChanges
    /\ \E f \in Seeds, edit \in Edits : \E from \in OrSeeded(store, f) :
        \/ /\ SavedWith(from, edit) = {}
           /\ store' = Repaired(from, codec) /\ UNCHANGED changes
        \/ /\ \E saved \in SavedWith(from, edit) : store' = Repaired(saved, codec)
           /\ changes' = changes + 1
    /\ UNCHANGED <<codec, running, clients, holder, pending, desk, starts, req>>

(********************************* Resolving *******************************)
Resolution(stage, alias, cands) == [stage |-> stage, alias |-> alias, cands |-> cands]
NotFound == Resolution("not_found", None, <<>>)
AskedBy(ask) == Asked(ask.thinking, ask.effort)
\* A request notes the resolver first, and the version that runs when it comes.
Receive(r) ==
    /\ running.up /\ req[r].pc = "idle"
    /\ \E ask \in Asks :
        req' = [req EXCEPT ![r] =
            [pc |-> "resolving", ask |-> ask, resolver |-> holder.resolver,
             since |-> running.version, found |-> NotFound, left |-> {}, pm |-> NoManager,
             asked |-> AskedBy(ask), search |-> "none", sent |-> <<>>, completed |-> 0]]
    /\ UNCHANGED <<plane, clients>>

\* The candidates of a slot carry its policy.
WithPolicy(cands, name, resolver, slot) ==
    [n \in DOMAIN cands |->
        [cands[n] EXCEPT !.slot = name, !.profile = resolver.active,
                         !.mode = slot.mode, !.reason = slot.reason]]
\* The mapping of the capture relay, if there is one, leads to the route that
\* was the default when the relay was set up.
ByRelay(pm, observed) ==
    LET mapped == ResolveModel(pm, Ref(None, observed))
    IN  IF observed # None /\ mapped.state = "resolved"
        THEN Resolution("fallback", Ref(None, observed), mapped.candidates) ELSE NotFound
ByName(pm, resolver, ask) ==
    LET slot == IF ask.ref.provider = None THEN ResolveSlot(resolver, ask.ref.model) ELSE <<>>
        target == IF slot = <<>> THEN Unresolved("failed")
                  ELSE SlotTarget(pm, slot[1])
    IN  IF target.state # "resolved" THEN NotFound
        ELSE Resolution("exact_slot", Ref(None, slot[1].model),
                        WithPolicy(target.candidates, ask.ref.model, resolver, slot[1]))
\* Mutant: the relay's mapping is asked before the slots.
ByRelayFirst(pm, resolver, ask, observed) ==
    IF ByRelay(pm, observed) # NotFound THEN ByRelay(pm, observed) ELSE ByName(pm, resolver, ask)
BySlot(pm, resolver, ask, observed) ==
    IF ByName(pm, resolver, ask) # NotFound THEN ByName(pm, resolver, ask)
    ELSE ByRelay(pm, observed)
\* resolveModelOrFallbackContext
ResolveOrFallback(pm, resolver, ask, observed) ==
    LET direct == ResolveModel(pm, ask.ref)
    IN  CASE direct.state = "resolved" -> Resolution("explicit_route", None, direct.candidates)
          [] direct.state = "failed" -> NotFound
          [] direct.state = "unknown" -> BySlot(pm, resolver, ask, observed)

\* A request ends; complete says whether its end is recorded.
Ended(q, status, complete) ==
    [pc |-> "done", status |-> status, ask |-> q.ask, resolver |-> q.resolver,
     since |-> q.since, found |-> q.found, sent |-> q.sent,
     completed |-> q.completed + complete]
Resolve(r) ==
    /\ req[r].pc = "resolving"
    /\ \E observed \in {None, Moonbridge, DefaultModelAlias(running.pm.config)} :
        LET found == ResolveOrFallback(running.pm, req[r].resolver, req[r].ask, observed)
        IN  req' = [req EXCEPT ![r] =
                IF found.stage = "not_found" THEN Ended(@, "not_found", 0)
                ELSE [@ EXCEPT !.pc = "filtering", !.found = found]]
    /\ UNCHANGED <<plane, clients>>

\* filterCandidatesByInput, with the manager of that moment, and the branch by
\* the protocol of the first candidate left.
Kept(pm, q) ==
    LET cands == q.found.cands
    IN  {n \in DOMAIN cands :
            q.ask.image => SeesImages(MetaFor(pm, cands[n].provider, cands[n].upstream))}
\* Preferred: the first of the candidates that are left.
Preferred(q) == q.found.cands[Min(q.left)]
PassesThrough(cand) == cand.proto = "openai-response"
Filter(r) ==
    LET q == req[r]
        kept == [q EXCEPT !.left = Kept(running.pm, q)]
        branch == IF PassesThrough(Preferred(kept)) THEN "entering" ELSE "adapting"
    IN  /\ q.pc = "filtering"
        /\ req' = [req EXCEPT ![r] = IF kept.left = {} THEN Ended(q, "filtered", 0)
                                     ELSE [kept EXCEPT !.pc = branch]]
        /\ UNCHANGED <<plane, clients>>

(****************************** Pass-through *******************************)
\* What is sent: to whom, with which key, for which model, asking what, with
\* which web search.
Sent(cand, client, asked, search) ==
    [provider |-> cand.provider, upstream |-> cand.upstream, proto |-> cand.proto,
     slot |-> cand.slot, url |-> client.url, key |-> client.key, asked |-> asked,
     search |-> search]
AliasOf(q) == IF q.found.alias = None THEN q.ask.ref ELSE q.found.alias

\* handleOpenAIResponse notes the manager of that moment and tries its
\* candidates in turn.
Enter(r) ==
    LET q == req[r]
        through == {n \in q.left : PassesThrough(q.found.cands[n])}
    IN  /\ q.pc = "entering"
        /\ req' = [req EXCEPT ![r] = [q EXCEPT !.pc = "trying", !.pm = running.pm, !.left = through]]
        /\ UNCHANGED <<plane, clients>>

InjectSearchTool(pm, ref) ==
    IF ResolvedWebSearchForModel(pm, ref) = "enabled" THEN "native" ELSE "none"
NextTry(q) ==
    IF q.left = {Min(q.left)} THEN Ended(q, "failed", 1) ELSE [q EXCEPT !.left = @ \ {Min(@)}]
\* A provider that is no longer configured has no address.
Skip(r) ==
    /\ req[r].pc = "trying"
    /\ Preferred(req[r]).provider \notin DOMAIN req[r].pm.config.providers
    /\ req' = [req EXCEPT ![r] = NextTry(@)]
    /\ UNCHANGED <<plane, clients>>
\* The request is sent. If it is answered, whatever the status, that is the
\* answer; copying it may fail.
Forward(r) ==
    LET q == req[r]
        cand == Preferred(q)
        sent == [q EXCEPT !.sent = Append(@, Sent(cand, StoredClient(q.pm.config.providers[cand.provider]),
                    q.asked, InjectSearchTool(q.pm, AliasOf(q))))]
    IN  /\ q.pc = "trying"
        /\ cand.provider \in DOMAIN q.pm.config.providers
        /\ req' \in {[req EXCEPT ![r] = end] :
                        end \in {NextTry(sent)} \cup
                                {Ended(sent, s, 1) : s \in {"answered", "refused", "failed"}}}
        /\ UNCHANGED <<plane, clients>>

(********************************* Adapters ********************************)
\* resolvedWebSearchMode and injectCoreWebSearch: an injected search needs a
\* key in the configuration of that moment.
SearchMode(pm, q, cand) ==
    LET own == ResolvedWebSearchForCandidate(pm, cand.provider, cand.upstream)
    IN  IF own # "" THEN own ELSE ResolvedWebSearchForModel(pm, AliasOf(q))
\* resolvedSearchConfig: a key of the model before the one of the whole file.
HasSearchKey(c, ref) == {key \/ c.search.tavily : key \in TavilyForModel(c, ref)}
\* injectAnthropicWebSearch, of the one protocol that has it.
NativeTool(mode, cand) == mode = "enabled" /\ cand.proto = "anthropic"
SearchSent(pm, c, q, cand) ==
    LET mode == SearchMode(pm, q, cand)
    IN  {CASE mode = "injected" /\ key -> "injected"
           [] NativeTool(mode, cand) -> "native"
           [] OTHER -> "none" : key \in HasSearchKey(c, AliasOf(q))}

\* handleWithAdapters up to the request it makes: only the first candidate,
\* under the policy of its slot.
Adapt(r) ==
    LET q == req[r]
        cand == Preferred(q)
        policy == ApplyPolicy(q.asked, cand.mode, cand.reason)
    IN  /\ q.pc = "adapting"
        /\ \/ /\ policy = {}
              /\ req' = [req EXCEPT ![r] = Ended(q, "failed", 1)]
           \/ \E asked \in policy, s \in SearchSent(running.pm, running.pm.config, q, cand) :
                req' = [req EXCEPT ![r] = [q EXCEPT !.pc = "sending", !.asked = asked, !.search = s]]
        /\ UNCHANGED <<plane, clients>>

\* activeChatClient and activeGoogleClient: the cached client, else one made
\* from the snapshot and cached, else one made at the start.
HasOwn(p, proto) ==
    p \in DOMAIN running.pm.config.providers /\ running.pm.config.providers[p].proto = proto
OwnClient(p, proto) ==
    IF <<p, proto>> \in DOMAIN clients.cached THEN <<clients.cached[<<p, proto>>]>>
    ELSE IF HasOwn(p, proto) THEN <<StoredClient(running.pm.config.providers[p])>>
    ELSE IF <<p, proto>> \in DOMAIN clients.startup THEN <<clients.startup[<<p, proto>>]>> ELSE <<>>
Cached(p, proto) ==
    IF <<p, proto>> \in DOMAIN clients.cached \/ ~HasOwn(p, proto) THEN clients
    ELSE [clients EXCEPT !.cached = With(@, <<p, proto>>, OwnClient(p, proto)[1])]
\* The client of the manager the candidate is from.
ManagerClient(cand) ==
    IF cand.client.ok THEN <<[url |-> cand.client.url, key |-> PlainKey(cand.client.key)]>>
    ELSE <<>>
\* A request without a client fails unsent; one that is sent may be answered.
Ends(q, cand, client) ==
    IF client = <<>> THEN {Ended(q, "failed", 1)}
    ELSE LET sent == [q EXCEPT !.sent = Append(@, Sent(cand, client[1], q.asked, q.search))]
         IN  {Ended(sent, s, 1) : s \in {"answered", "failed"}}
SendOwn(r) ==
    LET cand == Preferred(req[r]) IN
    /\ req[r].pc = "sending" /\ cand.proto \in OwnProtocols
    /\ clients' = Cached(cand.provider, cand.proto)
    /\ req' \in {[req EXCEPT ![r] = end] :
                    end \in Ends(req[r], cand, OwnClient(cand.provider, cand.proto))}
    /\ UNCHANGED plane
SendManaged(r) ==
    LET cand == Preferred(req[r]) IN
    /\ req[r].pc = "sending" /\ cand.proto \notin OwnProtocols
    /\ req' \in {[req EXCEPT ![r] = end] : end \in Ends(req[r], cand, ManagerClient(cand))}
    /\ UNCHANGED <<plane, clients>>

(***************************** Specification *******************************)
Done == ~running.up /\ starts = MaxStarts /\ UNCHANGED vars
Next ==
    \/ Start \/ Stop \/ Commit \/ Reload \/ Derive \/ Refresh \/ SaveStopped \/ Done
    \/ \E r \in Requests :
        \/ Receive(r) \/ Resolve(r) \/ Filter(r) \/ Enter(r) \/ Skip(r) \/ Forward(r)
        \/ Adapt(r) \/ SendOwn(r) \/ SendManaged(r)
Spec == Init /\ [][Next]_vars
-----------------------------------------------------------------------------
\* Two configurations send every route to the same model of the same provider,
\* at the same address, with the same credentials, web search and extension.
SameWays(c, d) ==
    /\ DOMAIN c.routes = DOMAIN d.routes /\ DOMAIN c.providers = DOMAIN d.providers
    /\ \A a \in DOMAIN c.routes : /\ c.routes[a].provider = d.routes[a].provider
                                  /\ c.routes[a].model = d.routes[a].model
                                  /\ WebSearchForModel(c, Ref(None, a)) = WebSearchForModel(d, Ref(None, a))
                                  /\ ExtensionEnabled(c, Ref(None, a)) = ExtensionEnabled(d, Ref(None, a))
    /\ \A p \in DOMAIN c.providers :
        /\ c.providers[p].url = d.providers[p].url
        /\ c.providers[p].proto = d.providers[p].proto
        /\ c.providers[p].key = d.providers[p].key
\* No two offers of a provider have a name in common.
NamesAreClear(c) ==
    \A p \in DOMAIN c.providers : LET offers == c.providers[p].offers IN
        \A n, k \in DOMAIN offers :
            n # k => offers[n].model \notin {offers[k].model, UpstreamOf(offers[k])}

\* A restart changes nothing about where requests go: once a change is at work,
\* what the store holds still loads, and as what runs (ToFileConfig, SaveConfig,
\* LoadAll and FromFileConfig against Reload).
RestartKeepsRoutes ==
    running.up /\ pending = Settled /\ NamesAreClear(running.pm.config) =>
        /\ changes > 0 => LoadAll(store, codec) # {}
        /\ \A c \in LoadAll(store, codec) : SameWays(c, running.pm.config)

\* What a request that came under the running configuration was sent.
CameNow(r) ==
    running.up /\ req[r].pc \notin {"idle", "dropped"} /\ req[r].since = running.version
\* A request that comes once a change is at work goes to the addresses, and with
\* the credentials, of that change (Reload, newProviderManager, ProviderBaseURL).
FreshAfterChange ==
    \A r \in Requests : CameNow(r) => \A n \in DOMAIN req[r].sent :
        LET sent == req[r].sent[n]
            def == running.pm.config.providers[sent.provider]
        IN  CASE sent.proto = "anthropic" ->
                    /\ sent.url = def.url
                    /\ sent.key = PlainKey(ResolveKey(def, Env, codec, FALSE).key)
              [] sent.proto = "openai-response" -> sent.url = def.url /\ sent.key = def.key
              [] OTHER -> TRUE

\* A request for a slot goes to the provider and the model of the slot and asks
\* what the slot's policy says, whatever the client asked for and whatever the
\* capture relay maps its name to; nobody else gets a policy
\* (resolveModelOrFallbackContext, applyRoutingReasoningPolicy).
SlotPolicyIsKept ==
    \A r \in Requests : CameNow(r) => \A n \in DOMAIN req[r].sent :
        LET sent == req[r].sent[n]
            ask == req[r].ask
            named == ResolveModel(running.pm, ask.ref).state # "unknown"
            slot == ResolveSlot(req[r].resolver, ask.ref.model)
        IN  IF named \/ slot = <<>> \/ SlotTarget(running.pm, slot[1]).state # "resolved"
            THEN sent.slot = None /\ sent.asked = AskedBy(ask)
            ELSE /\ sent.slot = ask.ref.model
                 /\ sent.provider = slot[1].provider /\ sent.upstream = slot[1].model
                 /\ sent.proto # "openai-response" =>
                        {sent.asked} = ApplyPolicy(AskedBy(ask), slot[1].mode, slot[1].reason)

\* A stored key that is not empty, or no stored key.
HoldsKey(p) == p.key.kind = "cipher" => p.key.secret # None

\* A slot that the status page calls ready, alone or with the whole
\* configuration, is found by the requests that come under the same
\* configuration and the same resolver; and if nothing else has its name, its
\* policy can be followed, the page calls the credentials available (of a key
\* that is not empty) and the provider has a client of the manager, they are
\* sent (runtimeSlotStatus, credentialStateFor against
\* resolveModelOrFallbackContext, newProviderManager).
ReadySlotsAreServed ==
    \A r \in Requests :
        LET ask == req[r].ask
            slot == ResolveSlot(holder.resolver, ask.ref.model)[1]
            came == /\ CameNow(r) /\ holder.resolver = req[r].resolver
                    /\ req[r].pc = "done" /\ ~ask.image
                    /\ ask.ref.provider = None /\ ask.ref.model \in SlotIds
        IN  came /\ "ready" \in {SlotStatus(holder.resolver, running.pm, ask.ref.model),
                                  ConfigurationState(holder.resolver, running.pm)}
            => /\ req[r].status # "not_found"
               /\ /\ ResolveModel(running.pm, ask.ref).state = "unknown"
                  /\ ApplyPolicy(AskedBy(ask), slot.mode, slot.reason) # {}
                  /\ CredentialState(running.pm, slot.provider) = "available"
                  /\ HoldsKey(running.pm.config.providers[slot.provider])
                  /\ ProtocolForKey(running.pm, slot.provider) = "anthropic"
                  => req[r].sent # <<>>
=============================================================================
