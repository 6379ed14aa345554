--------------------------- MODULE ConfigPatches ----------------------------
(* What a change of the configuration graph does to the file form of the    *)
(* configuration (configgraph/patch.go, and the creation and deletion of    *)
(* resources in configgraph/service.go).                                    *)
(*                                                                          *)
(* An operation is [kind, id, field, value, clear, typed]: typed is FALSE   *)
(* for a value of the wrong type. A masked or empty secret is NoKey, or a   *)
(* search section without a Tavily key.                                     *)
EXTENDS ConfigFile

Op(kind, id, field, value) ==
    [kind |-> kind, id |-> id, field |-> field, value |-> value,
     clear |-> FALSE, typed |-> TRUE]
ClearOp(kind, id, field) ==
    [kind |-> kind, id |-> id, field |-> field, value |-> None, clear |-> TRUE, typed |-> TRUE]

Singletons == {"defaults", "web_search"}
Fields == [defaults |-> {"model"}, web_search |-> {"support", "tavily"},
           model |-> {"modal", "reason", "level", "search", "ext"},
           provider |-> {"url", "key", "env", "proto", "search", "ext"},
           offer |-> {"model", "up", "prio", "price", "over"},
           route |-> {"to", "model", "provider", "search", "ext"},
           extension |-> {"enabled", "config", "active"}]

\* An offer is known by its provider and the first of its models.
OfferIndex(offers, slug) == SelectInSeq(offers, LAMBDA o : o.model = slug)
HasOffer(f, id) ==
    id[1] \in DOMAIN f.providers /\ OfferIndex(f.providers[id[1]].offers, id[2]) # 0
NoProfiles == [shape |-> "absent"]
HasExtension(f, id) == IF id = "profiles" THEN f.profiles # NoProfiles ELSE f.ext # "unset"
ResourceExists(f, kind, id) ==
    CASE kind \in Singletons -> TRUE
      [] kind = "model" -> id \in DOMAIN f.models
      [] kind = "provider" -> id \in DOMAIN f.providers
      [] kind = "offer" -> HasOffer(f, id)
      [] kind = "route" -> id \in DOMAIN f.routes
      [] kind = "extension" -> HasExtension(f, id)
ValidTarget(f, op) ==
    /\ op.kind \in DOMAIN Fields
    /\ op.field \in Fields[op.kind]
    /\ ResourceExists(f, op.kind, op.id)
    /\ op.clear => op.value = None

\* preserveWebSearchSecrets
PreserveSearch(old, new) == [new EXCEPT !.tavily = @ \/ old.tavily]

PatchWebSearch(f, op) ==
    IF op.field = "support" THEN [f EXCEPT !.search.support = op.value]
    ELSE [f EXCEPT !.search.tavily = @ \/ op.value]
PatchModel(f, op) ==
    [f EXCEPT !.models[op.id] =
        IF op.field = "search" THEN [@ EXCEPT !.search = PreserveSearch(@, op.value)]
        ELSE [@ EXCEPT ![op.field] = op.value]]
PatchKey(old, op) ==
    IF op.clear THEN NoKey ELSE IF op.value = NoKey THEN old ELSE op.value
PatchProvider(f, op) ==
    [f EXCEPT !.providers[op.id] =
        CASE op.field = "key" -> [@ EXCEPT !.key = PatchKey(@, op)]
          [] op.field = "search" -> [@ EXCEPT !.search = PreserveSearch(@, op.value)]
          [] OTHER -> [@ EXCEPT ![op.field] = op.value]]
PatchOffer(f, op) ==
    LET n == OfferIndex(f.providers[op.id[1]].offers, op.id[2])
    IN  [f EXCEPT !.providers[op.id[1]].offers[n][op.field] = op.value]
PatchRoute(f, op) ==
    [f EXCEPT !.routes[op.id] =
        IF op.field = "search" THEN [@ EXCEPT !.search = PreserveSearch(@, op.value)]
        ELSE [@ EXCEPT ![op.field] = op.value]]

\* The routing profiles are an extension: its whole configuration, or the
\* active profile alone, may be set.
PatchExtension(f, op) ==
    IF op.id = "feature" THEN [f EXCEPT !.ext = op.value]
    ELSE CASE op.field = "config" -> [f EXCEPT !.profiles = op.value]
           [] op.field = "active" -> [f EXCEPT !.profiles.active = op.value]
           [] OTHER -> f

ApplyOp(f, op) ==
    CASE op.kind = "defaults" -> [f EXCEPT !.default = op.value]
      [] op.kind = "web_search" -> PatchWebSearch(f, op)
      [] op.kind = "model" -> PatchModel(f, op)
      [] op.kind = "provider" -> PatchProvider(f, op)
      [] op.kind = "offer" -> PatchOffer(f, op)
      [] op.kind = "route" -> PatchRoute(f, op)
      [] op.kind = "extension" -> PatchExtension(f, op)

\* The operations in order, each on what the ones before left; one that fails
\* is skipped and fails them all. The result is no file, or one.
StepOp(acc, op) ==
    IF ValidTarget(acc.file, op) /\ op.typed THEN [acc EXCEPT !.file = ApplyOp(@, op)]
    ELSE [acc EXCEPT !.failed = TRUE]
ApplyPatch(f, ops) ==
    LET end == FoldLeft(StepOp, [file |-> f, failed |-> FALSE], ops)
    IN  IF end.failed THEN {} ELSE {end.file}

(************************* Creation and deletion **************************)
With(map, key, value) == [k \in DOMAIN map \cup {key} |-> IF k = key THEN value ELSE map[k]]
Without(map, key) == [k \in DOMAIN map \ {key} |-> map[k]]

Creatable(f, kind, id) ==
    /\ kind \in {"model", "provider", "offer", "route", "extension"}
    /\ ~ResourceExists(f, kind, id)
    /\ kind = "offer" => id[1] \in DOMAIN f.providers
CreateResource(f, kind, id, value) ==
    IF ~Creatable(f, kind, id) THEN {}
    ELSE {CASE kind = "model" -> [f EXCEPT !.models = With(@, id, value)]
            [] kind = "provider" -> [f EXCEPT !.providers = With(@, id, value)]
            [] kind = "offer" ->
                [f EXCEPT !.providers[id[1]].offers =
                    Append(@, [value EXCEPT !.model = IF @ = None THEN id[2] ELSE @])]
            [] kind = "route" -> [f EXCEPT !.routes = With(@, id, value)]
            [] kind = "extension" ->
                IF id = "profiles" THEN [f EXCEPT !.profiles = value] ELSE [f EXCEPT !.ext = value]}

DeleteResource(f, kind, id) ==
    IF kind \notin {"model", "provider", "offer", "route", "extension"} THEN {}
    ELSE IF ~ResourceExists(f, kind, id) THEN {}
    ELSE {CASE kind = "model" -> [f EXCEPT !.models = Without(@, id)]
            [] kind = "provider" -> [f EXCEPT !.providers = Without(@, id)]
            [] kind = "offer" ->
                [f EXCEPT !.providers[id[1]].offers = RemoveAt(@, OfferIndex(@, id[2]))]
            [] kind = "route" -> [f EXCEPT !.routes = Without(@, id)]
            [] kind = "extension" ->
                IF id = "profiles" THEN [f EXCEPT !.profiles = NoProfiles]
                ELSE [f EXCEPT !.ext = "unset"]}

\* Of the fields here only the default model is not hot-reloadable.
RequiresRestart(ops) == \E n \in DOMAIN ops : ops[n].kind = "defaults"
=============================================================================
