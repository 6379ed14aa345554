--------------------------- MODULE MCModelRouting ---------------------------
(* A small configuration for ModelRouting: an Anthropic provider, one that  *)
(* speaks the chat protocol, and two that speak the Responses protocol, of  *)
(* which one has its key in the environment; two models, two routes and two *)
(* profiles.                                                                *)
EXTENDS ModelRouting

MCEnv == {"KEY_R"}
MCNative == {"A"}
MCRankOf(p) == CASE p = "A" -> 1 [] p = "B" -> 2 [] p = "R" -> 3 [] OTHER -> 4

MCModels ==
    [m1 |-> ModelOf("image", "unset", TRUE, NoSearch, "unset"),
     m2 |-> ModelOf("text", "unset", FALSE, NoSearch, "on")]
MCOffer(model, up, prio, price) ==
    [model |-> model, up |-> up, prio |-> prio, price |-> price, over |-> NoOver]
MCVision(offer) == [offer EXCEPT !.over = ModelOf("image", "unset", FALSE, NoSearch, "off")]
MCOffers ==
    [A |-> <<MCOffer("m1", None, 0, 3)>>,
     B |-> <<MCOffer("m2", "m2-b", 0, 1)>>,
     R |-> <<MCOffer("m2", None, 1, 2)>>,
     S |-> <<MCVision(MCOffer("m2", None, 2, 1))>>]
MCProtocols == [A |-> "anthropic", B |-> "openai-chat", R |-> "openai-response",
                S |-> "openai-response"]
MCProvider(p, key) ==
    [url |-> p, key |-> key, env |-> IF p = "R" THEN "KEY_R" ELSE None,
     proto |-> MCProtocols[p], search |-> NoSearch, ext |-> "unset", offers |-> MCOffers[p]]
MCRoute(provider, model) ==
    [model |-> model, to |-> None, provider |-> provider, search |-> NoSearch, ext |-> "unset"]

MCTable ==
    [p1 |-> [sol |-> Slot("A", "m1", "", "max"), terra |-> Slot("S", "m2", "normal", None),
           luna |-> Slot("B", "m2-b", "", None)],
     p2 |-> [sol |-> Slot("B", "m2-b", "", "low"), terra |-> Slot("A", "m1", "thinking", None),
           luna |-> Slot(None, "m2", "", None)]]
MCProfiles(shape) == [shape |-> shape, active |-> "p1", table |-> MCTable]

\* The file of the first start, and the one of a platform without secrets.
MCFile(keys) ==
    [search |-> [support |-> "auto", tavily |-> TRUE], default |-> None, ext |-> "unset",
     profiles |-> MCProfiles("profiles"), models |-> MCModels,
     providers |-> [p \in DOMAIN keys |-> MCProvider(p, keys[p])],
     routes |-> [moonbridge |-> MCRoute("A", "m1"),
                 fast |-> [MCRoute(None, None) EXCEPT !.to = Ref("B", "m2")]]]
MCKeys == [p \in {"A", "B", "R", "S"} |-> IF p = "R" THEN NoKey ELSE PlainKey(p)]
MCNoKeys == [p \in {"A", "B", "R", "S"} |-> NoKey]
MCSeeds == {MCFile(MCKeys), MCFile(MCNoKeys)}

\* A store that was never seeded, one of an older release, and one that no
\* longer loads.
MCLegacy ==
    [MCFile(MCKeys) EXCEPT !.profiles = MCProfiles("table"),
        !.routes.fast = MCRoute("B", "m2-b")]
MCStores == {NoStore, Stored(MCLegacy),
             Stored([MCFile(MCNoKeys) EXCEPT !.models = [m1 |-> MCModels.m1]])}

MCPatch(ops) ==
    [what |-> "patch", ops |-> ops, kind |-> None, id |-> None, value |-> None, desktop |-> FALSE]
MCDelete(kind, id) ==
    [what |-> "delete", kind |-> kind, id |-> id, ops |-> <<>>, value |-> None, desktop |-> FALSE]
MCCreate(kind, id, value) ==
    [what |-> "create", kind |-> kind, id |-> id, value |-> value, ops |-> <<>>, desktop |-> FALSE]
MCChanges ==
    {MCPatch(<<Op("provider", "A", "url", "A2"), Op("provider", "A", "key", PlainKey("A2"))>>),
     MCPatch(<<ClearOp("provider", "S", "env"), Op("provider", "S", "key", NoKey), Op("offer", <<"R", "m2">>, "prio", 3)>>),
     [MCPatch(<<Op("extension", "profiles", "active", "p2")>>) EXCEPT !.desktop = TRUE],
     MCPatch(<<Op("route", "moonbridge", "provider", "B"), Op("defaults", None, "model", "fast")>>),
     MCDelete("provider", "S"),
     MCCreate("offer", <<"A", "m2">>, MCOffer(None, "m2-a", 0, 1)),
     MCPatch(<<Op("offer", <<"A", "m1">>, "up", "m2")>>)}

\* A profile of its own, with slots that the default one lacks.
MCEdits == {[id |-> "p2", slots |-> [sol |-> Slot("S", "m2", "", "high"),
                                    terra |-> Slot("A", "m1", "", None),
                                    luna |-> Slot("B", "m2-b", "normal", None)]]}

MCAsk(ref, image) == [ref |-> ref, image |-> image, thinking |-> "enabled", effort |-> "low"]
MCAsks ==
    {MCAsk(Ref(None, m), FALSE) : m \in {"moonbridge", "fast", "m2", "sol", "terra", "luna", "other"}}
    \cup {MCAsk(Ref(None, "m2"), TRUE), MCAsk(Ref("S", "m2"), FALSE)}
=============================================================================
