---------------------------- MODULE RoutingSlots ----------------------------
(* The routing slots of the desktop: the table of profiles a configuration  *)
(* holds, the resolver built from it, what a request for a slot gets, and   *)
(* what the status page says of it (service/routingprofile/resolver.go, the *)
(* tables of its service.go, server.go and reasoning_policy.go).            *)
EXTENDS ProviderCatalog

CONSTANTS
    Deepseek,  \* the provider of the default profile, which has its name
    Flash      \* its model

SlotIds == {"sol", "terra", "luna"}
Slot(provider, model, mode, reason) ==
    [provider |-> provider, model |-> model, mode |-> mode, reason |-> reason]

(********************************** Tables *********************************)
DefaultTable ==
    [id \in {Deepseek} |->
        [sol |-> Slot(Deepseek, Flash, "", "max"), terra |-> Slot(Deepseek, Flash, "", "high"),
         luna |-> Slot(Deepseek, Flash, "", None)]]

\* normalizeSlotMode; a mode that is not one of these three is an error.
ModeIsValid(slot) == slot.mode \in {"", "normal", "thinking"}
ModeOf(slot) ==
    IF slot.mode # "" THEN slot.mode ELSE IF slot.reason = None THEN "normal" ELSE "thinking"

\* tableFromGraph: a table that cannot be read, or has no profiles under its
\* current name, is the default one.
TableOf(profiles) ==
    IF profiles.shape # "profiles" \/ DOMAIN profiles.table = {} THEN DefaultTable
    ELSE [id \in DOMAIN profiles.table |->
            [s \in DOMAIN profiles.table[id] |->
                [profiles.table[id][s] EXCEPT !.mode = ModeOf(profiles.table[id][s])]]]

\* CanonicalConfigForSave: one profile is replaced, which becomes the active one
\* if there is none.
CanonicalForSave(profiles, edit) ==
    LET table == [id \in DOMAIN TableOf(profiles) \cup {edit.id} |->
                    IF id = edit.id THEN [s \in DOMAIN edit.slots |->
                                            [edit.slots[s] EXCEPT !.mode = ModeOf(edit.slots[s])]]
                    ELSE TableOf(profiles)[id]]
        active == IF profiles.shape = "profiles" /\ DOMAIN profiles.table # {}
                  THEN profiles.active ELSE None
    IN  [shape |-> "profiles", table |-> table,
         active |-> IF active \in DOMAIN table THEN active ELSE edit.id]

(********************************* Resolvers *******************************)
ActiveState(profiles, table) ==
    IF profiles.active = None THEN "missing"
    ELSE IF profiles.active \in DOMAIN table THEN "present_valid" ELSE "unknown"
\* With the extension only its active profile counts; without it the table is
\* the default one and the desktop's own route names the profile.
FromExtension(profiles) ==
    LET table == TableOf(profiles)
        state == ActiveState(profiles, table)
    IN  [has |-> TRUE, table |-> table, state |-> state,
         active |-> IF state = "present_valid" THEN profiles.active ELSE None]
FromDefaults(id) ==
    [has |-> FALSE, table |-> DefaultTable, active |-> id,
     state |-> IF id = None THEN "missing" ELSE "present_valid"]
BuildSlotResolver(c) ==
    IF c.profiles # NoProfiles THEN FromExtension(c.profiles)
    ELSE FromDefaults(IF Moonbridge \in DOMAIN c.routes
                      THEN c.routes[Moonbridge].provider ELSE None)

HasSlot(r, s) == r.active \in DOMAIN r.table /\ s \in DOMAIN r.table[r.active]
\* ResolveSlot: the reasoning of a slot counts only if it thinks.
ResolveSlot(r, name) ==
    IF ~HasSlot(r, name) \/ ~ModeIsValid(r.table[r.active][name]) THEN <<>>
    ELSE LET slot == r.table[r.active][name]
         IN  <<[slot EXCEPT !.mode = ModeOf(slot),
                            !.reason = IF ModeOf(slot) = "thinking" THEN @ ELSE None]>>

(********************************** Status *********************************)
SafeSlotState(r, s) ==
    IF r.state # "present_valid" \/ r.active \notin DOMAIN r.table THEN "invalid"
    ELSE IF s \notin DOMAIN r.table[r.active] THEN "missing"
    ELSE IF ModeIsValid(r.table[r.active][s]) THEN "ready" ELSE "invalid"
ExtensionState(r) ==
    IF ~r.has THEN "absent" ELSE IF r.state = "present_valid" THEN "valid" ELSE "invalid"
\* Mutant: a slot is ready if its profile has it.
SlotStatusUnchecked(r, pm, s) ==
    IF ResolveSlot(r, s) = <<>> THEN SafeSlotState(r, s) ELSE "ready"
\* The reference <provider>/<model> of a slot; without a provider it names nothing.
SlotTarget(pm, slot) ==
    IF slot.provider = None THEN Unresolved("unknown")
    ELSE ResolveModel(pm, Ref(slot.provider, slot.model))
\* runtimeSlotStatus: ready if the slot leads to a provider of the manager.
SlotStatus(r, pm, s) ==
    LET slot == ResolveSlot(r, s)
    IN  IF slot = <<>> THEN SafeSlotState(r, s)
        ELSE IF SlotTarget(pm, slot[1]).state = "resolved"
        THEN "ready" ELSE "reference_unresolved"
\* RuntimeConfigurationStatus
ConfigurationState(r, pm) ==
    IF ExtensionState(r) = "invalid" \/ r.state # "present_valid" THEN "invalid"
    ELSE IF \A s \in SlotIds : SlotStatus(r, pm, s) = "ready" THEN "ready" ELSE "degraded"

(********************************* Reasoning *******************************)
\* What a request asks of its model: thinking or not, and how hard.
Asked(thinking, effort) == [thinking |-> thinking, effort |-> effort]
Canonical(effort) ==
    CASE effort \in {"low", "medium", "high"} -> "high"
      [] effort \in {"xhigh", "max"} -> "max"
      [] OTHER -> "refused"
\* applyRoutingReasoningPolicy: no request if it is refused.
ApplyPolicy(asked, mode, reason) ==
    CASE mode = "" -> {asked}
      [] mode = "normal" /\ reason = None -> {Asked("disabled", "")}
      [] mode = "thinking" /\ reason # None /\ Canonical(reason) # "refused" ->
            {Asked("enabled", Canonical(reason))}
      [] OTHER -> {}
=============================================================================
