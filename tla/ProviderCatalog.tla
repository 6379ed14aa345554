-------------------------- MODULE ProviderCatalog ---------------------------
(* The provider manager: the credentials and clients of the providers of a  *)
(* configuration, what a requested model resolves to, and which web search  *)
(* a model gets (service/provider, and the start-up part of service/app).   *)
(*                                                                          *)
(* A manager is the record [config, clients, ws, issues, statuses]: the     *)
(* routes, the provider definitions and the reverse index it keeps are      *)
(* functions of the configuration it was built from, and the registry of    *)
(* credentials is cleared and filled when a manager is built.               *)
EXTENDS ConfigStore

CONSTANT RankOf(_)  \* the order of the keys of providers

(******************************* Credentials *******************************)
Status(source, state) == [source |-> source, state |-> state]
\* ResolveWithIssue: the key of a provider and what is known of it. The value
\* of a variable is named like the variable; env is the set of those set.
NoneFound == [key |-> None, status |-> Status("none", "missing")]
Unavailable == [key |-> None, status |-> Status("stored", "unavailable")]
FromEnv(name, env) ==
    IF name # None /\ name \in env THEN [key |-> name, status |-> Status("environment", "available")]
    ELSE NoneFound
ResolveKey(p, env, codec, blocked) ==
    IF blocked THEN Unavailable
    ELSE CASE p.key.kind = "none" -> FromEnv(p.env, env)
           [] p.key.kind = "cipher" /\ codec \in {"works", "broken"} ->
                [key |-> p.key.secret, status |-> Status("stored", "available")]
           [] OTHER -> Unavailable

Client(url, key) == [ok |-> TRUE, url |-> url, key |-> key]
NoClient == [ok |-> FALSE]
BuildClient(p, env, codec, blocked) ==
    LET key == ResolveKey(p, env, codec, blocked).key
    IN  IF key = None THEN NoClient ELSE Client(p.url, key)

\* newProviderManager, for a configuration and the providers whose keys could
\* not be encrypted.
Manager(c, env, codec, issues) ==
    [config |-> c, issues |-> issues, ws |-> <<>>,
     clients |-> [p \in DOMAIN c.providers |->
                    BuildClient(c.providers[p], env, codec, p \in issues)],
     statuses |-> [p \in DOMAIN c.providers |->
                    ResolveKey(c.providers[p], env, codec, p \in issues).status]]
\* ClearMigrationIssue, which also forgets the status.
ClearIssues(pm, ids) ==
    [pm EXCEPT !.issues = @ \ ids, !.statuses = [p \in DOMAIN @ \ ids |-> @[p]]]
\* credentialStateFor: what the status page says of the key of a provider.
CredentialState(pm, p) == IF p \in DOMAIN pm.statuses THEN pm.statuses[p].state ELSE "unknown"

(******************************** Resolution *******************************)
DefaultKeyOf(pm) ==
    IF DefaultKey \in DOMAIN pm.clients THEN DefaultKey
    ELSE IF Cardinality(DOMAIN pm.clients) = 1 THEN CHOOSE p \in DOMAIN pm.clients : TRUE
    ELSE None
ProtocolForKey(pm, p) ==
    IF p \in DOMAIN pm.config.providers THEN pm.config.providers[p].proto ELSE "anthropic"

ClientOf(pm, p) == IF p \in DOMAIN pm.clients THEN pm.clients[p] ELSE NoClient
Candidate(pm, p, upstream) ==
    [provider |-> p, upstream |-> upstream, proto |-> ProtocolForKey(pm, p),
     client |-> ClientOf(pm, p), slot |-> None, profile |-> None, mode |-> "", reason |-> None]

\* The reverse index: the offers of a name, and the upstream names of a
\* provider that none of its offers has as its model.
Indexed(c, name) ==
    LET offers(p) == c.providers[p].offers
        offered(p) == {[provider |-> p, prio |-> offers(p)[n].prio] :
                        n \in {k \in DOMAIN offers(p) : offers(p)[k].model = name}}
        catalogued(p) == IF name \in DOMAIN c.providers[p].models /\ offered(p) = {}
                         THEN {[provider |-> p, prio |-> 0]} ELSE {}
    IN  UNION {offered(p) \cup catalogued(p) : p \in DOMAIN c.providers}
\* Lower priorities first; then by key.
InOrder(entries) ==
    SetToSortSeq(entries, LAMBDA x, y :
        x.prio < y.prio \/ (x.prio = y.prio /\ RankOf(x.provider) < RankOf(y.provider)))

\* ResolveModel. "unknown" is an error that says that nothing has this name;
\* any other error is final.
Resolved(cands) == [state |-> "resolved", candidates |-> cands]
Unresolved(state) == [state |-> state, candidates |-> <<>>]
ResolveModel(pm, ref) ==
    LET entries == InOrder(Indexed(pm.config, ref.model))
    IN  CASE ref.provider = None /\ ref.model \in DOMAIN pm.config.routes ->
                LET e == pm.config.routes[ref.model]
                IN  IF e.provider \in DOMAIN pm.clients
                    THEN Resolved(<<Candidate(pm, e.provider, e.model)>>) ELSE Unresolved("failed")
          [] ref.provider # None ->
                IF ref.provider \in DOMAIN pm.clients
                THEN Resolved(<<Candidate(pm, ref.provider, ref.model)>>)
                ELSE Unresolved("failed")
          [] OTHER ->
                IF entries = <<>> THEN Unresolved("unknown")
                ELSE Resolved([n \in 1..Len(entries) |->
                                Candidate(pm, entries[n].provider, ref.model)])

\* The first reading of a name, without the catalogue: its provider, the protocol
\* of that, and the provider with its model. They differ for a name of a provider
\* that is not configured.
ProviderKeyForModel(pm, ref) ==
    IF ref.provider \in DOMAIN pm.clients THEN ref.provider
    ELSE IF ref.provider = None /\ ref.model \in DOMAIN pm.config.routes
    THEN pm.config.routes[ref.model].provider ELSE DefaultKeyOf(pm)
ProtocolForModel(pm, ref) ==
    ProtocolForKey(pm, IF ref.provider # None THEN ref.provider ELSE ProviderKeyForModel(pm, ref))
TargetOf(pm, ref) ==
    IF ref.provider \in DOMAIN pm.clients THEN ref
    ELSE IF ref.provider = None /\ ref.model \in DOMAIN pm.config.routes
    THEN Ref(pm.config.routes[ref.model].provider, pm.config.routes[ref.model].model)
    ELSE Ref(DefaultKeyOf(pm), ref.model)

MetaFor(pm, p, m) == ModelMeta(pm.config, p, m)
SeesImages(metas) == metas # <<>> /\ metas[1].modal = "image"

(******************************** Web search *******************************)
\* The table of resolved supports, by provider, by model and by candidate.
ForProvider(p) == <<"provider", p>>
ForModel(ref) == <<"model", ref>>
ForCandidate(p, m) == <<"candidate", p, m>>
WsOf(ws, key) == IF key \in DOMAIN ws THEN ws[key] ELSE ""
SetWs(ws, key, support) == With(ws, key, support)

ResolvedWebSearchForCandidate(pm, p, m) ==
    IF p = None THEN ""
    ELSE IF ForCandidate(p, m) \in DOMAIN pm.ws THEN pm.ws[ForCandidate(p, m)]
    ELSE WsOf(pm.ws, ForProvider(p))
ResolvedWebSearchForModel(pm, ref) ==
    LET target == TargetOf(pm, ref)
        candidate == ForCandidate(target.provider, target.model)
    IN  IF ForModel(ref) \in DOMAIN pm.ws THEN pm.ws[ForModel(ref)]
        ELSE IF candidate \in DOMAIN pm.ws THEN pm.ws[candidate]
        ELSE WsOf(pm.ws, ForProvider(ProviderKeyForModel(pm, ref)))

\* FirstUpstreamModelForKey: any route to the provider, else any of its models.
FirstUpstreams(pm, p) ==
    LET routed == {pm.config.routes[a].model : a \in
                    {b \in DOMAIN pm.config.routes : pm.config.routes[b].provider = p}}
    IN  IF routed # {} THEN routed
        ELSE IF DOMAIN pm.config.providers[p].models = {} THEN {None}
        ELSE DOMAIN pm.config.providers[p].models

\* A provider that speaks the Anthropic protocol is asked, if its client can
\* be used; whether it says yes is in the set native of the providers.
Probe(pm, p, native) == IF pm.clients[p].ok /\ p \in native THEN "enabled" ELSE "disabled"
OrInjected(support, tavily) == IF support = "disabled" /\ tavily THEN "injected" ELSE support

\* The default of one provider, with the upstream model that was asked about.
ProviderSearch(pm, ws, p, native, first) ==
    LET c == pm.config
        support == WebSearchForProvider(c, p)
        asked == OrInjected(IF first = None THEN "disabled" ELSE Probe(pm, p, native), c.search.tavily)
    IN  CASE ProtocolForKey(pm, p) = "anthropic" /\ support # "auto" ->
                SetWs(ws, ForProvider(p), support)
          [] ProtocolForKey(pm, p) = "anthropic" /\ support = "auto" ->
                SetWs(IF first = None THEN ws ELSE SetWs(ws, ForCandidate(p, first), asked),
                      ForProvider(p), asked)
          [] ProtocolForKey(pm, p) = "openai-response" ->
                SetWs(ws, ForProvider(p),
                      IF support \in {"disabled", "injected"} THEN "disabled" ELSE "enabled")
          [] OTHER -> SetWs(ws, ForProvider(p), IF c.search.tavily THEN "injected" ELSE "disabled")

\* injectedSearchConfigured
InjectedConfigured(c, ref, p) == TRUE \in TavilyForModel(c, ref) \/ TavilyForProvider(c, p)
BothWs(ws, ref, p, m, support) ==
    SetWs(SetWs(ws, ForModel(ref), support), ForCandidate(p, m), support)
\* resolveModelWebSearch, for a reference that stands for model m of p.
ModelSearch(pm, ws, ref, p, m, support, native) ==
    LET proto == ProtocolForModel(pm, ref)
        known == WsOf(ws, ForCandidate(p, m))
    IN  CASE proto = "openai-response" ->
                BothWs(ws, ref, p, m,
                       IF support \in {"disabled", "injected"} THEN "disabled" ELSE "enabled")
          [] proto \in {"openai-chat", "google-genai"} -> BothWs(ws, ref, p, m, "disabled")
          [] proto = "anthropic" /\ support # "auto" -> BothWs(ws, ref, p, m, support)
          [] proto = "anthropic" /\ support = "auto" /\ known # "" -> SetWs(ws, ForModel(ref), known)
          [] OTHER -> BothWs(ws, ref, p, m,
                        OrInjected(Probe(pm, p, native), InjectedConfigured(pm.config, ref, p)))

\* resolvePerProviderWebSearch: first the providers, then every model of a
\* provider under its reference, then the routes, in any order.
SearchOfModels(pm, ws, native) ==
    LET pairs == {Ref(p, m) : p \in DOMAIN pm.config.providers,
                              m \in UNION {DOMAIN pm.config.providers[q].models :
                                            q \in DOMAIN pm.config.providers}}
        known == {r \in pairs : ModelMeta(pm.config, r.provider, r.model) # <<>>}
        step(r, acc) == ModelSearch(pm, acc, r, r.provider, r.model,
                                    CHOOSE s \in WebSearchForModel(pm.config, r) : TRUE, native)
    IN  FoldSet(step, ws, known)
SearchOfRoutes(pm, ws, order, native) ==
    LET step(acc, a) ==
            LET e == pm.config.routes[a]
            IN  ModelSearch(pm, acc, Ref(None, a), e.provider, e.model,
                            CHOOSE s \in WebSearchForModel(pm.config, Ref(None, a)) : TRUE, native)
    IN  FoldLeft(step, ws, order)
SearchTables(pm, native) ==
    LET byProvider(first) ==
            FoldSet(LAMBDA p, ws : ProviderSearch(pm, ws, p, native, first[p]),
                    <<>>, DOMAIN pm.config.providers)
    IN  {SearchOfRoutes(pm, SearchOfModels(pm, byProvider(first), native), order, native) :
            first \in Picks(DOMAIN pm.config.providers, LAMBDA p : FirstUpstreams(pm, p)),
            order \in SetToAllKPermutations(DOMAIN pm.config.routes)}
ResolveSearch(pm, native) == {[pm EXCEPT !.ws = ws] : ws \in SearchTables(pm, native)}
=============================================================================
