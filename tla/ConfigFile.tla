----------------------------- MODULE ConfigFile -----------------------------
(* The routing part of the configuration: what a file or the store holds    *)
(* (FileConfig), what the program runs on (Config), and the two conversions *)
(* between them (config_loader.go, convert.go, config.go of                 *)
(* internal/config).                                                        *)
(*                                                                          *)
(* A model's metadata is reduced to what something decides on: its input    *)
(* modalities, whether it reasons, its web search, and the switch of one    *)
(* extension. A price is one number.                                        *)
EXTENDS Naturals, SequencesExt

CONSTANTS
    None,        \* no name at all
    DefaultKey,  \* the provider a bare "to" means
    Moonbridge   \* the alias the desktop's own route has

NoKey == [kind |-> "none", secret |-> None]
PlainKey(secret) == [kind |-> "plain", secret |-> secret]
CipherKey(secret) == [kind |-> "cipher", secret |-> secret]

(********************************* Settings ********************************)
\* A web search section: how it is supported, and whether it has a Tavily key.
NoSearch == [support |-> "", tavily |-> FALSE]
HasSearch(search) == search # NoSearch
OrSearch(search, other) == IF HasSearch(search) THEN search ELSE other
\* A missing value of a provider or of the whole file means "auto"; that of a
\* model, an override or a route stays open.
ParseSupport(search) == [search EXCEPT !.support = IF @ = "" THEN "auto" ELSE @]

ModelOf(modal, reason, level, search, ext) ==
    [modal |-> modal, reason |-> reason, level |-> level, search |-> search, ext |-> ext]
NoModel == ModelOf("none", "no", FALSE, NoSearch, "unset")
NoOver == [none |-> TRUE]
HasOver(offer) == offer.over # NoOver

UpstreamOf(offer) == IF offer.up = None THEN offer.model ELSE offer.up
OffersOf(providers, p, slug) ==
    IF p \in DOMAIN providers THEN SelectSeq(providers[p].offers, LAMBDA o : o.model = slug)
    ELSE <<>>

(****************************** File to config *****************************)
FromModel(m) ==
    [m EXCEPT !.reason = IF @ = "unset" THEN IF m.level THEN "yes" ELSE "no" ELSE @]

\* The extension settings of a model that has some are one map, which every
\* override of it writes to while the providers are read, in no fixed order.
LastOverride(providers, p, slug) ==
    LET writing == SelectSeq(OffersOf(providers, p, slug),
                             LAMBDA o : HasOver(o) /\ o.over.ext # "unset")
    IN  IF writing = <<>> THEN "unset" ELSE Last(writing).over.ext
SharedExt(f, slug) ==
    LET written == {LastOverride(f.providers, p, slug) : p \in DOMAIN f.providers} \ {"unset"}
        own == f.models[slug].ext
    IN  IF own = "unset" \/ written = {} THEN {own} ELSE written

\* An override on top of the model it is about. The extensions of the model
\* are as SharedExt leaves them.
MergeOverrides(base, over) ==
    ModelOf(IF over.modal # "none" THEN over.modal ELSE base.modal,
            IF over.reason # "unset" THEN over.reason ELSE base.reason,
            base.level \/ over.level, OrSearch(over.search, base.search),
            IF base.ext # "unset" THEN base.ext ELSE over.ext)
FromOffer(models, o) ==
    [o EXCEPT !.over =
        IF HasOver(o)
        THEN MergeOverrides(IF o.model \in DOMAIN models THEN models[o.model] ELSE NoModel, @)
        ELSE NoOver]

MetaOf(m, price) == [modal |-> m.modal, reason |-> m.reason, level |-> m.level,
                     search |-> m.search, ext |-> m.ext, price |-> price]
\* applyModelOverrides: neither the web search nor the extensions.
OverrideMeta(meta, over) ==
    [meta EXCEPT !.modal = IF over.modal # "none" THEN over.modal ELSE @,
                 !.reason = over.reason, !.level = @ \/ over.level]
OfferMeta(models, o) ==
    IF o.model \notin DOMAIN models THEN MetaOf(NoModel, o.price)
    ELSE IF HasOver(o) THEN OverrideMeta(MetaOf(models[o.model], o.price), o.over)
    ELSE MetaOf(models[o.model], o.price)

\* What a provider catalogues, by upstream name: the last offer of it counts.
Catalog(models, offers) ==
    [u \in {UpstreamOf(offers[n]) : n \in DOMAIN offers} |->
        OfferMeta(models, Last(SelectSeq(offers, LAMBDA o : UpstreamOf(o) = u)))]
FromProvider(models, p) ==
    LET offers == [n \in DOMAIN p.offers |-> FromOffer(models, p.offers[n])]
    IN  [url |-> p.url, key |-> p.key, env |-> p.env, proto |-> p.proto,
         search |-> ParseSupport(p.search), ext |-> p.ext, offers |-> offers,
         models |-> Catalog(models, offers)]

\* parseRouteSpec, and when the old form of a route counts.
ParseSpec(to) == [provider |-> IF to.provider = None THEN DefaultKey ELSE to.provider,
                  model |-> to.model]
RouteTarget(r) ==
    IF r.model = None /\ r.to # None THEN ParseSpec(r.to)
    ELSE [provider |-> r.provider, model |-> r.model]
Offering(providers, slug) == {p \in DOMAIN providers : OffersOf(providers, p, slug) # <<>>}
\* A route without a provider gets any that offers its model.
RouteProviders(providers, target) ==
    IF target.provider # None THEN {target.provider}
    ELSE IF Offering(providers, target.model) = {} THEN {None}
    ELSE Offering(providers, target.model)

ApplyRouteModel(entry, m) ==
    [entry EXCEPT !.modal = m.modal, !.reason = m.reason, !.level = m.level,
                  !.search = m.search]
BuildRoute(models, providers, r, p) ==
    LET slug == RouteTarget(r).model
        offers == OffersOf(providers, p, slug)
        overs == SelectSeq(offers, HasOver)
        bare == [provider |-> p, ext |-> r.ext, modal |-> "none", reason |-> "no",
                 level |-> FALSE, search |-> NoSearch,
                 model |-> IF offers = <<>> THEN slug ELSE UpstreamOf(Head(offers)),
                 price |-> IF offers = <<>> THEN 0 ELSE Head(offers).price]
        known == IF slug \in DOMAIN models THEN ApplyRouteModel(bare, models[slug]) ELSE bare
        entry == IF overs = <<>> THEN known ELSE ApplyRouteModel(known, Head(overs).over)
    IN  [entry EXCEPT !.search = OrSearch(r.search, @)]

(******************************** Validation *******************************)
InjectedHasKey(c) ==
    /\ c.search.support = "injected" => c.search.tavily
    /\ \A p \in DOMAIN c.providers :
        c.providers[p].search.support = "injected" =>
            c.providers[p].search.tavily \/ c.search.tavily
OffersAreModels(c) ==
    \A p \in DOMAIN c.providers : \A n \in DOMAIN c.providers[p].offers :
        c.providers[p].offers[n].model \in DOMAIN c.models
Valid(c) ==
    /\ InjectedHasKey(c)
    /\ DOMAIN c.providers # {}
    /\ \A p \in DOMAIN c.providers : c.providers[p].url # None
    /\ OffersAreModels(c)
    /\ \/ DOMAIN c.routes # {}
       \/ \E p \in DOMAIN c.providers : DOMAIN c.providers[p].models # {}
    /\ \A a \in DOMAIN c.routes : c.routes[a].provider \in DOMAIN c.providers

\* What a file may become: no configuration if the file is refused, several if
\* the order of a map decides.
Built(f, shared, chosen) ==
    LET models == [slug \in DOMAIN f.models |->
                    [FromModel(f.models[slug]) EXCEPT !.ext = shared[slug]]]
        providers == [p \in DOMAIN f.providers |-> FromProvider(models, f.providers[p])]
    IN  [search |-> ParseSupport(f.search), default |-> f.default, ext |-> f.ext,
         profiles |-> f.profiles, models |-> models, providers |-> providers,
         routes |-> [a \in DOMAIN f.routes |->
                        BuildRoute(models, providers, f.routes[a], chosen[a])]]
\* The functions that take one of Of(x) for every x of a domain.
Picks(S, Of(_)) == {g \in [S -> UNION {Of(x) : x \in S}] : \A x \in S : g[x] \in Of(x)}
Readings(f) ==
    {Built(f, shared, chosen) :
        shared \in Picks(DOMAIN f.models, LAMBDA slug : SharedExt(f, slug)),
        chosen \in Picks(DOMAIN f.routes, LAMBDA a :
                     RouteProviders(f.providers, RouteTarget(f.routes[a])))}
FromFile(f) ==
    IF \E a \in DOMAIN f.routes : RouteTarget(f.routes[a]).model = None THEN {}
    ELSE {c \in Readings(f) : Valid(c)}

(****************************** Config to file *****************************)
ToOffer(o) == o
\* Mutant: the file form of a provider has no key.
ToProviderKeyless(p) ==
    [url |-> p.url, key |-> NoKey, env |-> p.env, proto |-> p.proto, search |-> p.search,
     ext |-> p.ext, offers |-> [n \in DOMAIN p.offers |-> ToOffer(p.offers[n])]]
ToProvider(p) ==
    [url |-> p.url, key |-> p.key, env |-> p.env, proto |-> p.proto, search |-> p.search,
     ext |-> p.ext, offers |-> [n \in DOMAIN p.offers |-> ToOffer(p.offers[n])]]
\* The file form of a route names the upstream model where the loader expects
\* a model of the catalogue.
ToRoute(e) == [model |-> e.model, to |-> None, provider |-> e.provider,
               search |-> e.search, ext |-> e.ext]
ToFile(c) ==
    [search |-> c.search, default |-> c.default, ext |-> c.ext, profiles |-> c.profiles,
     models |-> c.models,
     providers |-> [p \in DOMAIN c.providers |-> ToProvider(c.providers[p])],
     routes |-> [a \in DOMAIN c.routes |-> ToRoute(c.routes[a])]]

\* NormalizeProviderSecrets, of either form.
Encrypted(key) == IF key.kind = "plain" THEN CipherKey(key.secret) ELSE key
HasPlainKey(f) == \E p \in DOMAIN f.providers : f.providers[p].key.kind = "plain"
Normalized(f) ==
    [f EXCEPT !.providers = [p \in DOMAIN @ |-> [@[p] EXCEPT !.key = Encrypted(@)]]]

(********************************** Lookups ********************************)
\* A model a client may name: a name alone, or a name of a provider.
Ref(provider, model) == [provider |-> provider, model |-> model]
IsDirect(c, ref) == ref.provider # None /\ ref.provider \in DOMAIN c.providers
IsRoute(c, ref) == ref.provider = None /\ ref.model \in DOMAIN c.routes

ProviderFor(c, ref) ==
    IF IsDirect(c, ref) THEN ref.provider
    ELSE IF IsRoute(c, ref) THEN c.routes[ref.model].provider ELSE None
ModelFor(c, ref) ==
    IF IsDirect(c, ref) \/ ~IsRoute(c, ref) THEN ref.model ELSE c.routes[ref.model].model
DefaultModelAlias(c) ==
    IF c.default # None THEN c.default
    ELSE IF Moonbridge \in DOMAIN c.routes THEN Moonbridge
    ELSE IF Cardinality(DOMAIN c.routes) = 1 THEN CHOOSE a \in DOMAIN c.routes : TRUE
    ELSE None

ModelMeta(c, p, m) ==
    IF p \in DOMAIN c.providers /\ m \in DOMAIN c.providers[p].models
    THEN <<c.providers[p].models[m]>> ELSE <<>>
ProvidersForModel(c, m) == {p \in DOMAIN c.providers : m \in DOMAIN c.providers[p].models}

SupportOf(metas) == IF metas = <<>> THEN "" ELSE metas[1].search.support
FirstSet(values, default) ==
    LET set == SelectSeq(values, LAMBDA v : v \notin {"", "unset"})
    IN  IF set = <<>> THEN default ELSE Head(set)
WebSearchForProvider(c, p) ==
    IF p \in DOMAIN c.providers THEN FirstSet(<<c.providers[p].search.support>>, c.search.support)
    ELSE c.search.support
\* What a bare model name gets: of each provider that has it the model's own
\* setting or the provider's, and any of them.
BareSupports(c, m) ==
    LET own == {FirstSet(<<SupportOf(ModelMeta(c, p, m)), c.providers[p].search.support>>, "") :
                    p \in ProvidersForModel(c, m)} \ {""}
    IN  IF own = {} THEN {c.search.support} ELSE own
WebSearchForModel(c, ref) ==
    IF IsRoute(c, ref)
    THEN LET e == c.routes[ref.model]
         IN  {FirstSet(<<e.search.support, SupportOf(ModelMeta(c, e.provider, e.model))>>,
                       WebSearchForProvider(c, e.provider))}
    ELSE IF ref.provider # None
    THEN {FirstSet(<<SupportOf(ModelMeta(c, ref.provider, ref.model))>>,
                   WebSearchForProvider(c, ref.provider))}
    ELSE BareSupports(c, ref.model)

\* webSearchConfigForModel, and the Tavily key that is used with it.
SearchSections(c, ref) ==
    LET p == ProviderFor(c, ref)
        own == IF p = None THEN <<>> ELSE ModelMeta(c, p, ModelFor(c, ref))
        bare == {c.providers[q].models[ref.model].search :
                    q \in IF ref.provider = None THEN ProvidersForModel(c, ref.model) ELSE {}}
        set == {s \in bare : s.support # ""}
    IN  IF IsRoute(c, ref) /\ c.routes[ref.model].search.support # ""
        THEN {c.routes[ref.model].search}
        ELSE IF SupportOf(own) # "" THEN {own[1].search}
        ELSE IF set = {} THEN {NoSearch} ELSE set
KeyProviders(c, ref) ==
    IF IsRoute(c, ref) THEN {c.routes[ref.model].provider}
    ELSE IF ref.provider # None THEN {ref.provider}
    ELSE IF ProvidersForModel(c, ref.model) = {} THEN {None}
    ELSE ProvidersForModel(c, ref.model)
TavilyForProvider(c, p) ==
    c.search.tavily \/ (p \in DOMAIN c.providers /\ c.providers[p].search.tavily)
TavilyForModel(c, ref) ==
    {s.tavily \/ TavilyForProvider(c, p) : s \in SearchSections(c, ref), p \in KeyProviders(c, ref)}

\* ExtensionEnabled, for an extension that is off by default.
ExtOf(metas) == IF metas = <<>> THEN "unset" ELSE metas[1].ext
ExtOfProvider(c, p) == IF p \in DOMAIN c.providers THEN c.providers[p].ext ELSE "unset"
BareExts(c, m) ==
    {FirstSet(<<ExtOf(ModelMeta(c, p, m)), c.providers[p].ext>>, "unset") :
        p \in ProvidersForModel(c, m)} \ {"unset"}
ExtensionEnabled(c, ref) ==
    LET e == c.routes[ref.model]
        routed == <<e.ext, ExtOf(ModelMeta(c, e.provider, e.model)), ExtOfProvider(c, e.provider)>>
        direct == <<ExtOf(ModelMeta(c, ref.provider, ref.model)), ExtOfProvider(c, ref.provider)>>
    IN  IF IsRoute(c, ref) THEN {FirstSet(routed, FirstSet(<<c.ext>>, "off"))}
        ELSE IF ref.provider # None THEN {FirstSet(direct, FirstSet(<<c.ext>>, "off"))}
        ELSE IF BareExts(c, ref.model) = {} THEN {FirstSet(<<c.ext>>, "off")}
        ELSE BareExts(c, ref.model)
=============================================================================
