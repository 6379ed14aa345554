------------------------- MODULE ModelRoutingProofs -------------------------
(***************************************************************************)
(* What a request is sent under the running configuration, for any         *)
(* configurations, stores, changes and requests: to the provider and under *)
(* the policy of its slot, at the addresses and with the credentials of    *)
(* the configuration that runs, and sent at all if the status page says    *)
(* that its slot is ready.  The invariant follows a request step by step   *)
(* through the configuration it came under; a request that outlives that   *)
(* configuration is not spoken of.                                         *)
(***************************************************************************)
EXTENDS ModelRouting, SequenceTheorems, WellFoundedInduction, TLAPS

LivePcs == {"resolving", "filtering", "entering", "trying", "adapting", "sending"}
FoundPcs == LivePcs \ {"resolving"}
ChosenPcs == FoundPcs \ {"filtering"}
LiveFields == {"pc", "ask", "resolver", "since", "found", "left", "pm", "asked", "search",
               "sent", "completed"}
ManagerFields == {"config", "issues", "ws", "clients", "statuses"}

-----------------------------------------------------------------------------
\* A request goes the way of its slot: nothing else has its name, and the slot
\* leads to a provider.
SlotOf(ask, resolver) == ResolveSlot(resolver, ask.ref.model)
ByItsSlot(pm, ask, resolver) ==
    /\ ResolveModel(pm, ask.ref).state = "unknown"
    /\ SlotOf(ask, resolver) # <<>>
    /\ SlotTarget(pm, SlotOf(ask, resolver)[1]).state = "resolved"

\* A candidate carries the slot and its policy, or none; and it is of the
\* manager that resolved it.
CandOK(pm, ask, resolver, cand) ==
    LET slot == SlotOf(ask, resolver)[1]
    IN  /\ ByItsSlot(pm, ask, resolver) =>
              /\ cand.slot = ask.ref.model
              /\ cand.provider = slot.provider /\ cand.upstream = slot.model
              /\ cand.mode = slot.mode /\ cand.reason = slot.reason
        /\ ~ByItsSlot(pm, ask, resolver) => cand.slot = None /\ cand.mode = ""
        /\ cand.proto = ProtocolForKey(pm, cand.provider)
        /\ cand.client = ClientOf(pm, cand.provider)

\* What was sent: what SlotPolicyIsKept and FreshAfterChange say of it.
PolicyOK(pm, ask, resolver, sent) ==
    LET slot == SlotOf(ask, resolver)[1]
    IN  /\ ByItsSlot(pm, ask, resolver) =>
              /\ sent.slot = ask.ref.model
              /\ sent.provider = slot.provider /\ sent.upstream = slot.model
              /\ sent.proto # "openai-response" =>
                    {sent.asked} = ApplyPolicy(AskedBy(ask), slot.mode, slot.reason)
        /\ ~ByItsSlot(pm, ask, resolver) => sent.slot = None /\ sent.asked = AskedBy(ask)
FreshOK(pm, cd, sent) ==
    LET def == pm.config.providers[sent.provider]
    IN  /\ sent.proto = "anthropic" =>
              sent.url = def.url /\ sent.key = PlainKey(ResolveKey(def, Env, cd, FALSE).key)
        /\ sent.proto = "openai-response" => sent.url = def.url /\ sent.key = def.key

\* A request that its slot leads to an Anthropic provider with a client, under
\* a policy that can be followed.
MustBeSent(pm, ask, resolver) ==
    LET slot == SlotOf(ask, resolver)[1]
    IN  /\ ByItsSlot(pm, ask, resolver) /\ ~ask.image
        /\ ApplyPolicy(AskedBy(ask), slot.mode, slot.reason) # {}
        /\ ProtocolForKey(pm, slot.provider) = "anthropic"
        /\ ClientOf(pm, slot.provider).ok

IsSeq(s) == Len(s) \in Nat /\ s = [n \in 1..Len(s) |-> s[n]]

FoundOK(q, pm) ==
    /\ DOMAIN q.found.cands \subseteq Nat
    /\ \A n \in DOMAIN q.found.cands : CandOK(pm, q.ask, q.resolver, q.found.cands[n])
    /\ ByItsSlot(pm, q.ask, q.resolver) => DOMAIN q.found.cands # {}
AskedOK(q) ==
    IF q.pc = "sending"
    THEN {q.asked} = ApplyPolicy(AskedBy(q.ask), Preferred(q).mode, Preferred(q).reason)
    ELSE q.asked = AskedBy(q.ask)
LeftOK(q, pm) ==
    /\ q.left \subseteq DOMAIN q.found.cands /\ q.left # {}
    /\ q.pc = "entering" => PassesThrough(Preferred(q))
    /\ q.pc = "trying" => /\ \A n \in q.left : PassesThrough(q.found.cands[n])
                          /\ q.pm.config = pm.config
    /\ q.pc \in {"adapting", "sending"} => ~PassesThrough(Preferred(q))
DoneOK(q, pm) ==
    /\ q.status = "not_found" =>
          /\ ResolveModel(pm, q.ask.ref).state # "resolved"
          /\ ~ByItsSlot(pm, q.ask, q.resolver)
    /\ MustBeSent(pm, q.ask, q.resolver) => q.sent # <<>>

SentOK(q, pm, cd) ==
    /\ IsSeq(q.sent)
    /\ \A n \in DOMAIN q.sent :
          PolicyOK(pm, q.ask, q.resolver, q.sent[n]) /\ FreshOK(pm, cd, q.sent[n])

\* A request under the configuration it came under.
Sound(q, pm, cd) ==
    /\ SentOK(q, pm, cd)
    /\ q.pc \in LivePcs => AskedOK(q)
    /\ q.pc \in FoundPcs => FoundOK(q, pm)
    /\ q.pc \in ChosenPcs => LeftOK(q, pm)
    /\ q.pc = "done" => DoneOK(q, pm)

Came(q) == q.pc \notin {"idle", "dropped"}
RequestOK(q, run, cd) ==
    /\ q.pc \in LivePcs \cup {"idle", "dropped", "done"}
    /\ q.pc \in LivePcs => DOMAIN q = LiveFields
    /\ Came(q) => /\ run.up
                  /\ q.since \in Nat /\ q.since <= run.version
                  /\ q.since = run.version => Sound(q, run.pm, cd)

\* A manager of a valid configuration, with the clients and the statuses of its
\* providers; some statuses may be forgotten.
ManagerOK(pm, cd) ==
    LET defs == pm.config.providers
    IN  /\ DOMAIN pm = ManagerFields
        /\ Valid(pm.config)
        /\ DOMAIN pm.clients = DOMAIN defs
        /\ DOMAIN pm.statuses \subseteq DOMAIN defs
        /\ \A p \in DOMAIN defs : \E blocked \in BOOLEAN :
              /\ pm.clients[p] = BuildClient(defs[p], Env, cd, blocked)
              /\ p \in DOMAIN pm.statuses =>
                    pm.statuses[p] = ResolveKey(defs[p], Env, cd, blocked).status

PlaneOK ==
    /\ running.up \in BOOLEAN
    /\ running.up => /\ running = Snapshot(running.pm, running.version)
                     /\ running.version \in Nat
                     /\ ManagerOK(running.pm, codec)
    /\ pending.step = "reload" => running.up /\ Valid(pending.config)

RoutingInv ==
    /\ PlaneOK
    /\ DOMAIN req = Requests
    /\ \A r \in Requests : RequestOK(req[r], running, codec)

-----------------------------------------------------------------------------
\* A set of naturals that is not empty has a least number, which Min chooses:
\* the candidate that comes first is one of those that are left.
LEMMA LeastIsIn ==
    ASSUME NEW S \in SUBSET Nat, S # {}
    PROVE  Min(S) \in S /\ \A n \in S : Min(S) <= n
<1> DEFINE R == OpToRel(<, Nat)
<1>1. PICK x \in S : \A y \in S : ~(<<y, x>> \in R)
    <2>1. IsWellFoundedOn(R, Nat)
        BY NatLessThanWellFounded
    <2> HIDE DEF R
    <2> QED BY <2>1, WFMin
<1>2. \A y \in S : x <= y
    <2> TAKE y \in S
    <2>1. <<y, x>> \notin R
        BY <1>1
    <2>2. ~(y < x)
        BY <2>1 DEF OpToRel
    <2> QED BY <2>2
<1> QED BY <1>2 DEF Min

\* What is sent is a sequence, and grows at its end.
LEMMA NothingSent == IsSeq(<<>>)
BY DEF IsSeq
LEMMA SentGrows ==
    ASSUME NEW s, IsSeq(s), NEW e
    PROVE  /\ IsSeq(Append(s, e)) /\ Append(s, e) # <<>>
           /\ \A n \in DOMAIN Append(s, e) :
                \/ n \in DOMAIN s /\ Append(s, e)[n] = s[n]
                \/ Append(s, e)[n] = e
<1> DEFINE S == {s[n] : n \in 1..Len(s)} \cup {e}
<1>1. s \in Seq(S)
    <2>1. \A n \in 1..Len(s) : s[n] \in S
        OBVIOUS
    <2>2. [n \in 1..Len(s) |-> s[n]] \in [1..Len(s) -> S]
        BY <2>1
    <2> HIDE DEF S
    <2>3. s \in [1..Len(s) -> S] /\ Len(s) \in Nat
        BY <2>2 DEF IsSeq
    <2> QED BY <2>3, SeqDef
<1> HIDE DEF S
<1>2. e \in S
    BY DEF S
<1>3. /\ Append(s, e) \in Seq(S) /\ Append(s, e) # <<>>
      /\ Len(Append(s, e)) = Len(s) + 1
      /\ \A n \in 1..Len(s) : Append(s, e)[n] = s[n]
      /\ Append(s, e)[Len(s) + 1] = e
    BY <1>1, <1>2, AppendProperties
<1>4. Len(s) \in Nat /\ DOMAIN s = 1..Len(s)
    BY <1>1, LenProperties
<1>5. DOMAIN Append(s, e) = 1..(Len(s) + 1)
    BY <1>3, LenProperties
<1>6. Append(s, e) \in [1..Len(Append(s, e)) -> S] /\ Len(Append(s, e)) \in Nat
    BY <1>3, LenProperties
<1>7. IsSeq(Append(s, e))
    BY <1>6 DEF IsSeq
<1> QED BY <1>3, <1>4, <1>5, <1>7

-----------------------------------------------------------------------------
\* What a model name leads to depends on nothing of the manager but its
\* configuration and its clients.
LEMMA SameWay ==
    ASSUME NEW a, NEW b, a.config = b.config, a.clients = b.clients
    PROVE  /\ \A p : ProtocolForKey(a, p) = ProtocolForKey(b, p) /\ ClientOf(a, p) = ClientOf(b, p)
           /\ \A ref : ResolveModel(a, ref) = ResolveModel(b, ref)
           /\ \A slot : SlotTarget(a, slot) = SlotTarget(b, slot)
<1>1. \A p : ProtocolForKey(a, p) = ProtocolForKey(b, p) /\ ClientOf(a, p) = ClientOf(b, p)
    BY DEF ProtocolForKey, ClientOf
<1>2. \A p, u : Candidate(a, p, u) = Candidate(b, p, u)
    BY <1>1 DEF Candidate
<1>3. \A entries, u : [n \in 1..Len(entries) |-> Candidate(a, entries[n].provider, u)]
                    = [n \in 1..Len(entries) |-> Candidate(b, entries[n].provider, u)]
    BY <1>2
<1>4. \A ref : ResolveModel(a, ref) = ResolveModel(b, ref)
    BY <1>2, <1>3 DEF ResolveModel
<1>5. \A slot : SlotTarget(a, slot) = SlotTarget(b, slot)
    BY <1>4 DEF SlotTarget
<1> QED BY <1>1, <1>4, <1>5

\* Nor does what is said of a request.
LEMMA SameSound ==
    ASSUME NEW a, NEW b, a.config = b.config, a.clients = b.clients,
           NEW q, NEW cd, Sound(q, a, cd)
    PROVE  Sound(q, b, cd)
<1>1. \A ask, resolver : ByItsSlot(a, ask, resolver) <=> ByItsSlot(b, ask, resolver)
    BY SameWay DEF ByItsSlot
<1>2. \A ask, resolver, c : CandOK(a, ask, resolver, c) <=> CandOK(b, ask, resolver, c)
    <2> TAKE ask, resolver, c
    <2>1. /\ ProtocolForKey(a, c.provider) = ProtocolForKey(b, c.provider)
          /\ ClientOf(a, c.provider) = ClientOf(b, c.provider)
        BY SameWay
    <2> QED BY <1>1, <2>1 DEF CandOK
<1>3. \A ask, resolver, s : PolicyOK(a, ask, resolver, s) <=> PolicyOK(b, ask, resolver, s)
    BY <1>1 DEF PolicyOK
<1>4. \A s : FreshOK(a, cd, s) <=> FreshOK(b, cd, s)
    BY DEF FreshOK
<1>5. \A ask, resolver : MustBeSent(a, ask, resolver) <=> MustBeSent(b, ask, resolver)
    BY <1>1, SameWay DEF MustBeSent
<1>6. FoundOK(q, a) => FoundOK(q, b)
    BY <1>1, <1>2 DEF FoundOK
<1>7. LeftOK(q, a) => LeftOK(q, b)
    BY DEF LeftOK
<1>8. DoneOK(q, a) => DoneOK(q, b)
    BY <1>1, <1>5, SameWay DEF DoneOK
<1> QED BY <1>3, <1>4, <1>6, <1>7, <1>8 DEF Sound, SentOK

-----------------------------------------------------------------------------
\* A policy leaves at most one thing to ask; without a mode, what was asked.
LEMMA OnePolicy ==
    ASSUME NEW asked, NEW mode, NEW reason, NEW x \in ApplyPolicy(asked, mode, reason)
    PROVE  {x} = ApplyPolicy(asked, mode, reason)
BY DEF ApplyPolicy
LEMMA NoPolicy == \A asked, reason : ApplyPolicy(asked, "", reason) = {asked}
BY DEF ApplyPolicy

\* What a name resolves to are candidates of the manager, without a policy; a
\* slot that leads somewhere leads to its own provider and model, alone.
LEMMA ResolvedCandidates ==
    ASSUME NEW pm, NEW ref, ResolveModel(pm, ref).state = "resolved",
           NEW cands, cands = ResolveModel(pm, ref).candidates
    PROVE  /\ DOMAIN cands \subseteq Nat
           /\ \A n \in DOMAIN cands : \E p, u : cands[n] = Candidate(pm, p, u)
<1>1. CASE ref.provider = None /\ ref.model \in DOMAIN pm.config.routes
    <2> DEFINE e == pm.config.routes[ref.model]
    <2>1. cands = <<Candidate(pm, e.provider, e.model)>>
        BY <1>1 DEF ResolveModel, Resolved, Unresolved
    <2> QED BY <2>1
<1>2. CASE ref.provider # None
    <2>1. cands = <<Candidate(pm, ref.provider, ref.model)>>
        BY <1>2 DEF ResolveModel, Resolved, Unresolved
    <2> QED BY <2>1
<1>3. CASE ref.provider = None /\ ref.model \notin DOMAIN pm.config.routes
    <2> DEFINE entries == InOrder(Indexed(pm.config, ref.model))
    <2>1. cands = [n \in 1..Len(entries) |-> Candidate(pm, entries[n].provider, ref.model)]
        BY <1>3 DEF ResolveModel, Resolved, Unresolved
    <2> QED BY <2>1
<1> QED BY <1>1, <1>2, <1>3
LEMMA TargetCandidate ==
    ASSUME NEW pm, NEW slot, SlotTarget(pm, slot).state = "resolved"
    PROVE  SlotTarget(pm, slot).candidates = <<Candidate(pm, slot.provider, slot.model)>>
BY DEF SlotTarget, ResolveModel, Resolved, Unresolved, Ref

\* A name resolves, fails, or is unknown.
LEMMA ThreeStates ==
    \A pm, ref : ResolveModel(pm, ref).state \in {"resolved", "failed", "unknown"}
BY DEF ResolveModel, Resolved, Unresolved

\* What a request is found is sound: the candidates of its slot, if it goes that
\* way, and otherwise candidates without a policy.
LEMMA FoundIsSound ==
    ASSUME NEW pm, NEW ask, NEW resolver, NEW observed, NEW found,
           found = ResolveOrFallback(pm, resolver, ask, observed)
    PROVE  /\ found.stage = "not_found" =>
                /\ ResolveModel(pm, ask.ref).state # "resolved"
                /\ ~ByItsSlot(pm, ask, resolver)
           /\ found.stage # "not_found" =>
                /\ DOMAIN found.cands \subseteq Nat
                /\ \A n \in DOMAIN found.cands : CandOK(pm, ask, resolver, found.cands[n])
                /\ ByItsSlot(pm, ask, resolver) => DOMAIN found.cands # {}
<1> DEFINE direct == ResolveModel(pm, ask.ref)
           slot == SlotOf(ask, resolver)
<1>a. \A c : (\E p, u : c = Candidate(pm, p, u)) =>
            /\ c.slot = None /\ c.mode = ""
            /\ c.proto = ProtocolForKey(pm, c.provider)
            /\ c.client = ClientOf(pm, c.provider)
    <2> SUFFICES ASSUME NEW p, NEW u
                 PROVE  LET c == Candidate(pm, p, u)
                        IN  /\ c.slot = None /\ c.mode = ""
                            /\ c.proto = ProtocolForKey(pm, c.provider)
                            /\ c.client = ClientOf(pm, c.provider)
        OBVIOUS
    <2> QED BY DEF Candidate
<1>b. ASSUME ~ByItsSlot(pm, ask, resolver), NEW ref, ResolveModel(pm, ref).state = "resolved"
      PROVE  LET cands == ResolveModel(pm, ref).candidates
             IN  /\ DOMAIN cands \subseteq Nat
                 /\ \A n \in DOMAIN cands : CandOK(pm, ask, resolver, cands[n])
    <2> DEFINE cands == ResolveModel(pm, ref).candidates
    <2>1. DOMAIN cands \subseteq Nat /\ \A n \in DOMAIN cands : \E p, u : cands[n] = Candidate(pm, p, u)
        BY <1>b, ResolvedCandidates
    <2> HIDE DEF cands
    <2>2. ASSUME NEW n \in DOMAIN cands PROVE CandOK(pm, ask, resolver, cands[n])
        <3>1. \E p, u : cands[n] = Candidate(pm, p, u)
            BY <2>1
        <3> QED BY <1>a, <1>b, <3>1 DEF CandOK
    <2>3. DOMAIN cands \subseteq Nat /\ \A n \in DOMAIN cands : CandOK(pm, ask, resolver, cands[n])
        BY <2>1, <2>2
    <2> QED BY <2>3 DEF cands
<1>1. CASE direct.state = "resolved"
    <2>1. ~ByItsSlot(pm, ask, resolver)
        BY <1>1 DEF ByItsSlot
    <2>2. found.stage = "explicit_route" /\ found.cands = direct.candidates
        BY <1>1 DEF ResolveOrFallback, Resolution
    <2> QED BY <1>1, <1>b, <2>1, <2>2
<1>2. CASE direct.state = "failed"
    BY <1>2 DEF ResolveOrFallback, NotFound, Resolution, ByItsSlot
<1>3. CASE direct.state = "unknown"
    <2>1. found = BySlot(pm, resolver, ask, observed)
        BY <1>3 DEF ResolveOrFallback
    <2>2. ask.ref.provider = None
        BY <1>3 DEF ResolveModel, Resolved, Unresolved
    <2>3. CASE ByItsSlot(pm, ask, resolver)
        <3> DEFINE cand == Candidate(pm, slot[1].provider, slot[1].model)
        <3>1. SlotTarget(pm, slot[1]).candidates = <<cand>>
            BY <2>3, TargetCandidate DEF ByItsSlot
        <3>2. found.stage = "exact_slot"
              /\ found.cands = WithPolicy(<<cand>>, ask.ref.model, resolver, slot[1])
            BY <2>1, <2>2, <2>3, <3>1 DEF BySlot, ByName, ByItsSlot, SlotOf, Resolution, NotFound
        <3>3. DOMAIN found.cands = {1}
              /\ found.cands[1] = [cand EXCEPT !.slot = ask.ref.model, !.profile = resolver.active,
                                               !.mode = slot[1].mode, !.reason = slot[1].reason]
            <4> HIDE DEF cand, slot
            <4>1. DOMAIN <<cand>> = {1} /\ <<cand>>[1] = cand
                OBVIOUS
            <4> QED BY <3>2, <4>1 DEF WithPolicy
        <3>4. CandOK(pm, ask, resolver, found.cands[1])
            BY <2>3, <3>3 DEF CandOK, Candidate
        <3> QED BY <3>2, <3>3, <3>4
    <2>4. CASE ~ByItsSlot(pm, ask, resolver)
        <3>1. ByName(pm, resolver, ask) = NotFound
            BY <1>3, <2>2, <2>4 DEF ByName, ByItsSlot, SlotOf, Unresolved
        <3>2. found = ByRelay(pm, observed)
            BY <2>1, <3>1 DEF BySlot
        <3>3. CASE found.stage = "not_found"
            BY <1>3, <2>4, <3>3
        <3>4. CASE found.stage # "not_found"
            <4>1. ResolveModel(pm, Ref(None, observed)).state = "resolved"
                  /\ found.cands = ResolveModel(pm, Ref(None, observed)).candidates
                BY <3>2, <3>4 DEF ByRelay, NotFound, Resolution
            <4> QED BY <1>b, <2>4, <3>4, <4>1
        <3> QED BY <3>3, <3>4
    <2> QED BY <2>3, <2>4
<1> QED BY <1>1, <1>2, <1>3, ThreeStates

-----------------------------------------------------------------------------
(* The steps of a request, one by one, under the manager pm of the          *)
(* configuration it came under.                                             *)

\* A request that ends.
LEMMA EndIsSound ==
    ASSUME NEW q, NEW pm, NEW cd, NEW status, NEW complete,
           SentOK(q, pm, cd),
           status = "not_found" => /\ ResolveModel(pm, q.ask.ref).state # "resolved"
                                   /\ ~ByItsSlot(pm, q.ask, q.resolver),
           MustBeSent(pm, q.ask, q.resolver) => q.sent # <<>>
    PROVE  Sound(Ended(q, status, complete), pm, cd)
BY DEF Sound, SentOK, DoneOK, Ended, LivePcs, FoundPcs, ChosenPcs

\* One more that is sent.
LEMMA OneMoreSent ==
    ASSUME NEW q, NEW pm, NEW cd, NEW e, DOMAIN q = LiveFields, SentOK(q, pm, cd),
           PolicyOK(pm, q.ask, q.resolver, e), FreshOK(pm, cd, e)
    PROVE  LET sent == [q EXCEPT !.sent = Append(@, e)]
           IN  SentOK(sent, pm, cd) /\ sent.sent # <<>>
<1> DEFINE sent == [q EXCEPT !.sent = Append(@, e)]
<1>1. sent.sent = Append(q.sent, e) /\ sent.ask = q.ask /\ sent.resolver = q.resolver
    BY DEF LiveFields
<1>2. IsSeq(q.sent)
    BY DEF SentOK
<1>3. /\ IsSeq(Append(q.sent, e)) /\ Append(q.sent, e) # <<>>
      /\ \A n \in DOMAIN Append(q.sent, e) :
            \/ n \in DOMAIN q.sent /\ Append(q.sent, e)[n] = q.sent[n]
            \/ Append(q.sent, e)[n] = e
    BY <1>2, SentGrows
<1> HIDE DEF sent
<1>4. SentOK(sent, pm, cd)
    BY <1>1, <1>3 DEF SentOK
<1>5. SentOK(sent, pm, cd) /\ sent.sent # <<>>
    BY <1>1, <1>3, <1>4
<1> QED BY <1>5 DEF sent

\* Resolve
LEMMA ResolveIsSound ==
    ASSUME NEW q, NEW pm, NEW cd, NEW observed, DOMAIN q = LiveFields, q.pc = "resolving",
           Sound(q, pm, cd),
           NEW found, found = ResolveOrFallback(pm, q.resolver, q.ask, observed)
    PROVE  /\ found.stage = "not_found" => Sound(Ended(q, "not_found", 0), pm, cd)
           /\ found.stage # "not_found" =>
                Sound([q EXCEPT !.pc = "filtering", !.found = found], pm, cd)
<1>1. ASSUME found.stage = "not_found" PROVE Sound(Ended(q, "not_found", 0), pm, cd)
    <2>1. ResolveModel(pm, q.ask.ref).state # "resolved" /\ ~ByItsSlot(pm, q.ask, q.resolver)
        BY <1>1, FoundIsSound
    <2>2. ~MustBeSent(pm, q.ask, q.resolver)
        BY <2>1 DEF MustBeSent
    <2>3. SentOK(q, pm, cd)
        BY DEF Sound
    <2> QED BY <2>1, <2>2, <2>3, EndIsSound
<1>2. ASSUME found.stage # "not_found"
      PROVE  Sound([q EXCEPT !.pc = "filtering", !.found = found], pm, cd)
    <2> DEFINE q2 == [q EXCEPT !.pc = "filtering", !.found = found]
    <2>1. /\ q2.pc = "filtering" /\ q2.found = found /\ q2.ask = q.ask /\ q2.sent = q.sent
          /\ q2.resolver = q.resolver /\ q2.asked = q.asked
        BY DEF LiveFields
    <2>2. q.asked = AskedBy(q.ask) /\ SentOK(q, pm, cd)
        BY DEF Sound, AskedOK, LivePcs
    <2>3. /\ DOMAIN found.cands \subseteq Nat
          /\ \A n \in DOMAIN found.cands : CandOK(pm, q.ask, q.resolver, found.cands[n])
          /\ ByItsSlot(pm, q.ask, q.resolver) => DOMAIN found.cands # {}
        BY <1>2, FoundIsSound
    <2> HIDE DEF q2
    <2>4. FoundOK(q2, pm)
        BY <2>1, <2>3 DEF FoundOK
    <2>5. Sound(q2, pm, cd)
        BY <2>1, <2>2, <2>4 DEF Sound, SentOK, AskedOK, FoundPcs, ChosenPcs, LivePcs
    <2> QED BY <2>5 DEF q2
<1> QED BY <1>1, <1>2

\* Filter. A request that must be sent keeps all its candidates.
LEMMA FilterIsSound ==
    ASSUME NEW q, NEW pm, NEW cd, DOMAIN q = LiveFields, q.pc = "filtering", Sound(q, pm, cd),
           NEW kept, kept = [q EXCEPT !.left = Kept(pm, q)],
           NEW branch, branch = IF PassesThrough(Preferred(kept)) THEN "entering" ELSE "adapting"
    PROVE  /\ kept.left = {} => Sound(Ended(q, "filtered", 0), pm, cd)
           /\ kept.left # {} => Sound([kept EXCEPT !.pc = branch], pm, cd)
<1>1. FoundOK(q, pm) /\ SentOK(q, pm, cd) /\ q.asked = AskedBy(q.ask)
    BY DEF Sound, AskedOK, FoundPcs, LivePcs
<1>2. kept.left = Kept(pm, q) /\ DOMAIN kept = LiveFields /\ kept.found = q.found
    BY DEF LiveFields
<1>3. ASSUME kept.left = {} PROVE Sound(Ended(q, "filtered", 0), pm, cd)
    <2>1. ASSUME MustBeSent(pm, q.ask, q.resolver) PROVE FALSE
        <3>1. Kept(pm, q) = DOMAIN q.found.cands
            BY <2>1 DEF MustBeSent, Kept
        <3> QED BY <1>1, <1>2, <1>3, <2>1, <3>1 DEF FoundOK, MustBeSent
    <2> QED BY <1>1, <2>1, EndIsSound
<1>4. ASSUME kept.left # {} PROVE Sound([kept EXCEPT !.pc = branch], pm, cd)
    <2> DEFINE q2 == [kept EXCEPT !.pc = branch]
    <2>1. /\ q2.pc = branch /\ q2.found = q.found /\ q2.ask = q.ask /\ q2.sent = q.sent
          /\ q2.resolver = q.resolver /\ q2.asked = q.asked /\ q2.left = kept.left
        BY <1>2 DEF LiveFields
    <2>2. branch \in {"entering", "adapting"}
        OBVIOUS
    <2> HIDE DEF q2
    <2>3. Preferred(q2) = Preferred(kept)
        BY <1>2, <2>1 DEF Preferred
    <2>4. FoundOK(q2, pm)
        BY <1>1, <2>1 DEF FoundOK
    <2>5. LeftOK(q2, pm)
        <3>1. q2.left \subseteq DOMAIN q2.found.cands /\ q2.left # {}
            BY <1>2, <1>4, <2>1 DEF Kept
        <3> QED BY <2>1, <2>2, <2>3, <3>1 DEF LeftOK
    <2>6. Sound(q2, pm, cd)
        BY <1>1, <2>1, <2>2, <2>4, <2>5 DEF Sound, SentOK, AskedOK, FoundPcs, ChosenPcs, LivePcs
    <2> QED BY <2>6 DEF q2
<1> QED BY <1>3, <1>4

\* Enter. A request that is passed through and must be sent there is not: its
\* slot leads to a provider of another protocol.
LEMMA EnterIsSound ==
    ASSUME NEW q, NEW pm, NEW cd, DOMAIN q = LiveFields, q.pc = "entering", Sound(q, pm, cd),
           NEW q2, q2 = [q EXCEPT !.pc = "trying", !.pm = pm,
                                  !.left = {n \in @ : PassesThrough(q.found.cands[n])}]
    PROVE  Sound(q2, pm, cd)
<1>1. FoundOK(q, pm) /\ SentOK(q, pm, cd) /\ LeftOK(q, pm) /\ q.asked = AskedBy(q.ask)
    BY DEF Sound, AskedOK, FoundPcs, ChosenPcs, LivePcs
<1>2. /\ q2.pc = "trying" /\ q2.found = q.found /\ q2.ask = q.ask /\ q2.sent = q.sent
      /\ q2.resolver = q.resolver /\ q2.asked = q.asked /\ q2.pm = pm
      /\ q2.left = {n \in q.left : PassesThrough(q.found.cands[n])}
    BY DEF LiveFields
<1>3. Min(q.left) \in q.left
    BY <1>1, LeastIsIn DEF LeftOK, FoundOK
<1>4. Min(q.left) \in q2.left
    BY <1>1, <1>2, <1>3 DEF LeftOK, Preferred
<1>5. FoundOK(q2, pm)
    BY <1>1, <1>2 DEF FoundOK
<1>6. LeftOK(q2, pm)
    BY <1>1, <1>2, <1>4 DEF LeftOK
<1> QED BY <1>1, <1>2, <1>5, <1>6 DEF Sound, SentOK, AskedOK, FoundPcs, ChosenPcs, LivePcs
LEMMA NotTried ==
    ASSUME NEW q, NEW pm, q.pc = "trying", FoundOK(q, pm), LeftOK(q, pm)
    PROVE  ~MustBeSent(pm, q.ask, q.resolver)
<1>1. PICK n \in q.left : TRUE
    BY DEF LeftOK
<1>2. CandOK(pm, q.ask, q.resolver, q.found.cands[n]) /\ PassesThrough(q.found.cands[n])
    BY <1>1 DEF FoundOK, LeftOK
<1> QED BY <1>2 DEF CandOK, MustBeSent, PassesThrough

\* The next candidate, or the end.
LEMMA NextIsSound ==
    ASSUME NEW q, NEW pm, NEW cd, DOMAIN q = LiveFields, q.pc = "trying", Sound(q, pm, cd)
    PROVE  Sound(NextTry(q), pm, cd)
<1>1. FoundOK(q, pm) /\ SentOK(q, pm, cd) /\ LeftOK(q, pm) /\ q.asked = AskedBy(q.ask)
    BY DEF Sound, AskedOK, FoundPcs, ChosenPcs, LivePcs
<1>2. CASE q.left = {Min(q.left)}
    BY <1>1, <1>2, NotTried, EndIsSound DEF NextTry
<1>3. CASE q.left # {Min(q.left)}
    <2> DEFINE q2 == [q EXCEPT !.left = @ \ {Min(@)}]
    <2>1. NextTry(q) = q2
        BY <1>3 DEF NextTry
    <2>2. /\ q2.pc = "trying" /\ q2.found = q.found /\ q2.ask = q.ask /\ q2.sent = q.sent
          /\ q2.resolver = q.resolver /\ q2.asked = q.asked /\ q2.pm = q.pm
          /\ q2.left = q.left \ {Min(q.left)}
        BY DEF LiveFields
    <2> HIDE DEF q2
    <2>3. Min(q.left) \in q.left
        BY <1>1, LeastIsIn DEF LeftOK, FoundOK
    <2>4. q2.left # {}
        BY <1>3, <2>2, <2>3
    <2>5. FoundOK(q2, pm)
        BY <1>1, <2>2 DEF FoundOK
    <2>6. LeftOK(q2, pm)
        BY <1>1, <2>2, <2>4 DEF LeftOK
    <2>7. Sound(q2, pm, cd)
        BY <1>1, <2>2, <2>5, <2>6 DEF Sound, SentOK, AskedOK, FoundPcs, ChosenPcs, LivePcs
    <2> QED BY <2>1, <2>7
<1> QED BY <1>2, <1>3

\* Forward. What is sent has the address and the key of the configuration.
LEMMA ForwardIsSound ==
    ASSUME NEW q, NEW pm, NEW cd, DOMAIN q = LiveFields, q.pc = "trying", Sound(q, pm, cd),
           NEW search, NEW cand, cand = Preferred(q),
           NEW sent, sent = [q EXCEPT !.sent = Append(@, Sent(cand,
                        StoredClient(q.pm.config.providers[cand.provider]), q.asked, search))]
    PROVE  /\ Sound(NextTry(sent), pm, cd)
           /\ \A status \in {"answered", "refused", "failed"} : Sound(Ended(sent, status, 1), pm, cd)
<1>1. FoundOK(q, pm) /\ SentOK(q, pm, cd) /\ LeftOK(q, pm) /\ q.asked = AskedBy(q.ask)
    BY DEF Sound, AskedOK, FoundPcs, ChosenPcs, LivePcs
<1> DEFINE e == Sent(cand, StoredClient(q.pm.config.providers[cand.provider]), q.asked, search)
<1>2. Min(q.left) \in q.left
    BY <1>1, LeastIsIn DEF LeftOK, FoundOK
<1>3. /\ CandOK(pm, q.ask, q.resolver, cand) /\ PassesThrough(cand)
      /\ q.pm.config = pm.config
    BY <1>1, <1>2 DEF FoundOK, LeftOK, Preferred
<1>4. PolicyOK(pm, q.ask, q.resolver, e)
    BY <1>1, <1>3 DEF PolicyOK, CandOK, Sent, PassesThrough
<1>5. FreshOK(pm, cd, e)
    BY <1>3 DEF FreshOK, Sent, StoredClient, PassesThrough
<1> HIDE DEF e
<1>6. SentOK(sent, pm, cd)
    BY <1>1, <1>4, <1>5, OneMoreSent DEF e
<1>7. /\ sent.pc = "trying" /\ sent.found = q.found /\ sent.ask = q.ask /\ sent.left = q.left
      /\ sent.resolver = q.resolver /\ sent.asked = q.asked /\ sent.pm = q.pm
      /\ DOMAIN sent = LiveFields
    BY DEF LiveFields
<1>8. FoundOK(sent, pm) /\ LeftOK(sent, pm)
    BY <1>1, <1>7 DEF FoundOK, LeftOK
<1>9. Sound(sent, pm, cd)
    BY <1>1, <1>6, <1>7, <1>8 DEF Sound, AskedOK, FoundPcs, ChosenPcs, LivePcs
<1> QED BY <1>6, <1>7, <1>8, <1>9, NextIsSound, NotTried, EndIsSound

\* Adapt. The candidate that comes first carries the policy of the slot.
LEMMA AdaptIsSound ==
    ASSUME NEW q, NEW pm, NEW cd, DOMAIN q = LiveFields, q.pc = "adapting", Sound(q, pm, cd),
           NEW cand, cand = Preferred(q),
           NEW policy, policy = ApplyPolicy(q.asked, cand.mode, cand.reason)
    PROVE  /\ policy = {} => Sound(Ended(q, "failed", 1), pm, cd)
           /\ \A asked \in policy : \A s :
                Sound([q EXCEPT !.pc = "sending", !.asked = asked, !.search = s], pm, cd)
<1>1. FoundOK(q, pm) /\ SentOK(q, pm, cd) /\ LeftOK(q, pm) /\ q.asked = AskedBy(q.ask)
    BY DEF Sound, AskedOK, FoundPcs, ChosenPcs, LivePcs
<1>2. Min(q.left) \in q.left
    BY <1>1, LeastIsIn DEF LeftOK, FoundOK
<1>3. CandOK(pm, q.ask, q.resolver, cand)
    BY <1>1, <1>2 DEF FoundOK, LeftOK, Preferred
<1>4. ASSUME policy = {} PROVE Sound(Ended(q, "failed", 1), pm, cd)
    <2>1. ~MustBeSent(pm, q.ask, q.resolver)
        BY <1>1, <1>3, <1>4 DEF MustBeSent, CandOK
    <2> QED BY <1>1, <2>1, EndIsSound
<1>5. ASSUME NEW asked \in policy, NEW s
      PROVE  Sound([q EXCEPT !.pc = "sending", !.asked = asked, !.search = s], pm, cd)
    <2> DEFINE q2 == [q EXCEPT !.pc = "sending", !.asked = asked, !.search = s]
    <2>1. /\ q2.pc = "sending" /\ q2.found = q.found /\ q2.ask = q.ask /\ q2.sent = q.sent
          /\ q2.resolver = q.resolver /\ q2.asked = asked /\ q2.left = q.left
        BY DEF LiveFields
    <2> HIDE DEF q2
    <2>2. Preferred(q2) = cand
        BY <2>1 DEF Preferred
    <2>3. {asked} = policy
        BY <1>5, OnePolicy
    <2>4. AskedOK(q2)
        BY <1>1, <2>1, <2>2, <2>3 DEF AskedOK
    <2>5. FoundOK(q2, pm)
        BY <1>1, <2>1 DEF FoundOK
    <2>6. LeftOK(q2, pm)
        BY <1>1, <2>1, <2>2 DEF LeftOK
    <2>7. Sound(q2, pm, cd)
        BY <1>1, <2>1, <2>4, <2>5, <2>6 DEF Sound, SentOK
    <2> QED BY <2>7 DEF q2
<1> QED BY <1>4, <1>5

\* A request that is about to be sent by an adapter.
LEMMA AboutToSend ==
    ASSUME NEW q, NEW pm, NEW cd, q.pc = "sending", Sound(q, pm, cd),
           NEW cand, cand = Preferred(q)
    PROVE  /\ SentOK(q, pm, cd) /\ CandOK(pm, q.ask, q.resolver, cand)
           /\ {q.asked} = ApplyPolicy(AskedBy(q.ask), cand.mode, cand.reason)
           /\ cand.proto # "openai-response"
           /\ \A client, search : PolicyOK(pm, q.ask, q.resolver, Sent(cand, client, q.asked, search))
<1>1. FoundOK(q, pm) /\ SentOK(q, pm, cd) /\ LeftOK(q, pm)
      /\ {q.asked} = ApplyPolicy(AskedBy(q.ask), cand.mode, cand.reason)
    BY DEF Sound, AskedOK, FoundPcs, ChosenPcs, LivePcs
<1>2. Min(q.left) \in q.left
    BY <1>1, LeastIsIn DEF LeftOK, FoundOK
<1>3. CandOK(pm, q.ask, q.resolver, cand) /\ ~PassesThrough(cand)
    BY <1>1, <1>2 DEF FoundOK, LeftOK, Preferred
<1>4. ~ByItsSlot(pm, q.ask, q.resolver) => q.asked = AskedBy(q.ask)
    BY <1>1, <1>3, NoPolicy DEF CandOK
<1>5. ASSUME NEW client, NEW search
      PROVE  PolicyOK(pm, q.ask, q.resolver, Sent(cand, client, q.asked, search))
    BY <1>1, <1>3, <1>4 DEF PolicyOK, CandOK, Sent
<1> QED BY <1>1, <1>3, <1>5 DEF PassesThrough
LEMMA EndsAreSound ==
    ASSUME NEW q, NEW pm, NEW cd, DOMAIN q = LiveFields, SentOK(q, pm, cd),
           NEW cand, NEW client,
           client = <<>> => ~MustBeSent(pm, q.ask, q.resolver),
           client # <<>> =>
                /\ PolicyOK(pm, q.ask, q.resolver, Sent(cand, client[1], q.asked, q.search))
                /\ FreshOK(pm, cd, Sent(cand, client[1], q.asked, q.search)),
           NEW end \in Ends(q, cand, client)
    PROVE  Sound(end, pm, cd)
<1>1. CASE client = <<>>
    <2>1. end = Ended(q, "failed", 1)
        BY <1>1 DEF Ends
    <2> QED BY <1>1, <2>1, EndIsSound
<1>2. CASE client # <<>>
    <2> DEFINE sent == [q EXCEPT !.sent = Append(@, Sent(cand, client[1], q.asked, q.search))]
    <2>1. PICK s \in {"answered", "failed"} : end = Ended(sent, s, 1)
        BY <1>2 DEF Ends
    <2>2. SentOK(sent, pm, cd) /\ sent.sent # <<>>
        BY <1>2, OneMoreSent
    <2> HIDE DEF sent
    <2> QED BY <2>1, <2>2, EndIsSound
<1> QED BY <1>1, <1>2

\* SendOwn. Not to an Anthropic provider, and not passed through.
LEMMA SendOwnIsSound ==
    ASSUME NEW q, NEW pm, NEW cd, DOMAIN q = LiveFields, q.pc = "sending", Sound(q, pm, cd),
           NEW cand, cand = Preferred(q), cand.proto \in OwnProtocols,
           NEW client, NEW end \in Ends(q, cand, client)
    PROVE  Sound(end, pm, cd)
<1>1. SentOK(q, pm, cd) /\ CandOK(pm, q.ask, q.resolver, cand)
      /\ \A c, search : PolicyOK(pm, q.ask, q.resolver, Sent(cand, c, q.asked, search))
    BY AboutToSend
<1>2. ~MustBeSent(pm, q.ask, q.resolver)
    BY <1>1 DEF CandOK, MustBeSent, OwnProtocols
<1>3. FreshOK(pm, cd, Sent(cand, client[1], q.asked, q.search))
    BY DEF FreshOK, Sent, OwnProtocols
<1> QED BY <1>1, <1>2, <1>3, EndsAreSound

\* SendManaged. The client is of the manager of the configuration.
LEMMA ManagedClient ==
    ASSUME NEW pm, NEW cd, ManagerOK(pm, cd), NEW p, ClientOf(pm, p).ok
    PROVE  LET def == pm.config.providers[p]
           IN  ClientOf(pm, p) = Client(def.url, ResolveKey(def, Env, cd, FALSE).key)
<1> DEFINE def == pm.config.providers[p]
<1>1. p \in DOMAIN pm.clients /\ ClientOf(pm, p) = pm.clients[p]
    BY DEF ClientOf, NoClient
<1>2. PICK blocked \in BOOLEAN : pm.clients[p] = BuildClient(def, Env, cd, blocked)
    BY <1>1 DEF ManagerOK
<1>3. ResolveKey(def, Env, cd, blocked).key # None
      /\ pm.clients[p] = Client(def.url, ResolveKey(def, Env, cd, blocked).key)
    BY <1>1, <1>2 DEF BuildClient, NoClient
<1>4. blocked = FALSE
    <2>1. ResolveKey(def, Env, cd, TRUE).key = None
        BY DEF ResolveKey, Unavailable
    <2> QED BY <1>3, <2>1
<1> QED BY <1>1, <1>3, <1>4
LEMMA SendManagedIsSound ==
    ASSUME NEW q, NEW pm, NEW cd, DOMAIN q = LiveFields, q.pc = "sending", Sound(q, pm, cd),
           ManagerOK(pm, cd),
           NEW cand, cand = Preferred(q), NEW end \in Ends(q, cand, ManagerClient(cand))
    PROVE  Sound(end, pm, cd)
<1>1. /\ SentOK(q, pm, cd) /\ CandOK(pm, q.ask, q.resolver, cand)
      /\ cand.proto # "openai-response"
      /\ \A c, search : PolicyOK(pm, q.ask, q.resolver, Sent(cand, c, q.asked, search))
    BY AboutToSend
<1>2. cand.client = ClientOf(pm, cand.provider)
    BY <1>1 DEF CandOK
<1>3. CASE cand.client.ok
    <2> DEFINE def == pm.config.providers[cand.provider]
               client == [url |-> def.url, key |-> PlainKey(ResolveKey(def, Env, cd, FALSE).key)]
    <2>1. cand.client = Client(def.url, ResolveKey(def, Env, cd, FALSE).key)
        BY <1>2, <1>3, ManagedClient
    <2>2. ManagerClient(cand) = <<client>>
        <3>1. /\ cand.client.url = def.url
              /\ cand.client.key = ResolveKey(def, Env, cd, FALSE).key
            BY <2>1 DEF Client
        <3> HIDE DEF def
        <3>2. ManagerClient(cand) = <<[url |-> cand.client.url, key |-> PlainKey(cand.client.key)]>>
            BY <1>3 DEF ManagerClient
        <3> QED BY <3>1, <3>2
    <2>3. FreshOK(pm, cd, Sent(cand, client, q.asked, q.search))
        BY <1>1 DEF FreshOK, Sent
    <2>4. ManagerClient(cand) # <<>> /\ ManagerClient(cand)[1] = client
        BY <2>2
    <2> HIDE DEF client
    <2> QED BY <1>1, <2>3, <2>4, EndsAreSound
<1>4. CASE ~cand.client.ok
    <2>1. ManagerClient(cand) = <<>>
        BY <1>4 DEF ManagerClient
    <2>2. ~MustBeSent(pm, q.ask, q.resolver)
        BY <1>1, <1>2, <1>4 DEF CandOK, MustBeSent
    <2> QED BY <1>1, <2>1, <2>2, EndsAreSound
<1> QED BY <1>3, <1>4

-----------------------------------------------------------------------------
(* The managers.                                                            *)

\* What is accepted as a configuration is valid.
LEMMA ReadingsAreValid == \A f : \A c \in FromFile(f) : Valid(c)
BY DEF FromFile
LEMMA LoadedIsValid == \A s, cd : \A c \in LoadAll(s, cd) : Valid(c)
BY ReadingsAreValid DEF LoadAll
LEMMA SeedIsValid == \A f, cd : \A c \in SeedsOf(f, cd) : Valid(c)
BY ReadingsAreValid DEF SeedsOf
LEMMA AcceptedIsValid == \A f, cd : \A a \in Accept(f, cd) : Valid(a.config)
<1> SUFFICES ASSUME NEW f, NEW cd, NEW a \in Accept(f, cd) PROVE Valid(a.config)
    OBVIOUS
<1>1. PICK g \in Normalize(f, cd) : \E c \in FromFile(g) : \E s \in Save(c, cd) :
            a = [config |-> c, store |-> s]
    BY DEF Accept
<1> QED BY <1>1, ReadingsAreValid

LEMMA NewManager ==
    ASSUME NEW c, Valid(c), NEW cd, NEW issues
    PROVE  /\ ManagerOK(Manager(c, Env, cd, issues), cd)
           /\ \A pm \in ResolveSearch(Manager(c, Env, cd, issues), Native) : ManagerOK(pm, cd)
<1> DEFINE m == Manager(c, Env, cd, issues)
<1>1. /\ DOMAIN m = ManagerFields /\ m.config = c
      /\ m.clients = [p \in DOMAIN c.providers |->
                        BuildClient(c.providers[p], Env, cd, p \in issues)]
      /\ m.statuses = [p \in DOMAIN c.providers |->
                        ResolveKey(c.providers[p], Env, cd, p \in issues).status]
    BY DEF Manager, ManagerFields
<1> HIDE DEF m
<1>2. \A p \in DOMAIN c.providers : \E blocked \in BOOLEAN :
        /\ m.clients[p] = BuildClient(c.providers[p], Env, cd, blocked)
        /\ m.statuses[p] = ResolveKey(c.providers[p], Env, cd, blocked).status
    <2> TAKE p \in DOMAIN c.providers
    <2> DEFINE blocked == p \in issues
    <2>1. /\ m.clients[p] = BuildClient(c.providers[p], Env, cd, blocked)
          /\ m.statuses[p] = ResolveKey(c.providers[p], Env, cd, blocked).status
        BY <1>1
    <2>2. blocked \in BOOLEAN
        OBVIOUS
    <2> HIDE DEF blocked
    <2> QED BY <2>1, <2>2
<1>3. ManagerOK(m, cd)
    BY <1>1, <1>2 DEF ManagerOK
<1>4. ASSUME NEW pm \in ResolveSearch(m, Native) PROVE ManagerOK(pm, cd)
    <2>1. PICK ws \in SearchTables(m, Native) : pm = [m EXCEPT !.ws = ws]
        BY <1>4 DEF ResolveSearch
    <2>2. /\ DOMAIN pm = ManagerFields /\ pm.config = m.config /\ pm.clients = m.clients
          /\ pm.statuses = m.statuses
        BY <1>1, <2>1 DEF ManagerFields
    <2> QED BY <1>3, <2>2 DEF ManagerOK
<1> QED BY <1>3, <1>4 DEF m

LEMMA IssuesForgotten ==
    ASSUME NEW pm, NEW cd, ManagerOK(pm, cd), NEW ids
    PROVE  /\ ManagerOK(ClearIssues(pm, ids), cd)
           /\ ClearIssues(pm, ids).config = pm.config
           /\ ClearIssues(pm, ids).clients = pm.clients
<1> DEFINE m == ClearIssues(pm, ids)
<1>1. DOMAIN pm = ManagerFields
    BY DEF ManagerOK
<1>2. /\ DOMAIN m = ManagerFields /\ m.config = pm.config /\ m.clients = pm.clients
      /\ m.statuses = [p \in DOMAIN pm.statuses \ ids |-> pm.statuses[p]]
    BY <1>1 DEF ClearIssues, ManagerFields
<1> HIDE DEF m
<1>3. ManagerOK(m, cd)
    BY <1>2 DEF ManagerOK
<1> QED BY <1>2, <1>3 DEF m

-----------------------------------------------------------------------------
(* The invariant.                                                           *)

LEMMA InitIsSound == Init => RoutingInv
BY DEF Init, RoutingInv, PlaneOK, RequestOK, Came, Stopped, Settled, Idle, LivePcs

\* One request takes a step, and nothing else moves that the invariant is about.
LEMMA OneMoves ==
    ASSUME RoutingInv, NEW r \in Requests, NEW q, req' = [req EXCEPT ![r] = q],
           UNCHANGED <<running, codec, pending>>, RequestOK(q, running, codec)
    PROVE  RoutingInv'
<1>1. PlaneOK'
    BY DEF RoutingInv, PlaneOK
<1>2. DOMAIN req' = Requests /\ \A x \in Requests : req'[x] = IF x = r THEN q ELSE req[x]
    BY DEF RoutingInv
<1>3. \A x \in Requests : RequestOK(req'[x], running, codec)
    BY <1>2 DEF RoutingInv
<1> QED BY <1>1, <1>2, <1>3 DEF RoutingInv

\* A request that goes on, and one that ends, under whatever configuration.
LEMMA GoesOn ==
    ASSUME NEW q, NEW q2, NEW run, NEW cd, RequestOK(q, run, cd), q.pc \in LivePcs,
           q2.pc \in LivePcs, DOMAIN q2 = LiveFields, q2.since = q.since,
           Sound(q, run.pm, cd) => Sound(q2, run.pm, cd)
    PROVE  RequestOK(q2, run, cd)
BY DEF RequestOK, Came, LivePcs
LEMMA ComesToAnEnd ==
    ASSUME NEW q, NEW q2, NEW run, NEW cd, RequestOK(q, run, cd), q.pc \in LivePcs,
           q2.pc = "done", q2.since = q.since,
           Sound(q, run.pm, cd) => Sound(q2, run.pm, cd)
    PROVE  RequestOK(q2, run, cd)
BY DEF RequestOK, Came, LivePcs

\* What the steps of a request leave the invariant.
LEMMA ReceiveKeeps == ASSUME RoutingInv, NEW r \in Requests, Receive(r) PROVE RoutingInv'
<1>1. PICK ask \in Asks : req' = [req EXCEPT ![r] =
            [pc |-> "resolving", ask |-> ask, resolver |-> holder.resolver,
             since |-> running.version, found |-> NotFound, left |-> {}, pm |-> NoManager,
             asked |-> AskedBy(ask), search |-> "none", sent |-> <<>>, completed |-> 0]]
    BY DEF Receive
<1> DEFINE q == [pc |-> "resolving", ask |-> ask, resolver |-> holder.resolver,
                 since |-> running.version, found |-> NotFound, left |-> {}, pm |-> NoManager,
                 asked |-> AskedBy(ask), search |-> "none", sent |-> <<>>, completed |-> 0]
<1>2. /\ q.pc = "resolving" /\ DOMAIN q = LiveFields /\ q.since = running.version
      /\ q.asked = AskedBy(q.ask) /\ q.sent = <<>>
    BY DEF LiveFields
<1>3. running.up /\ running.version \in Nat
    BY DEF Receive, RoutingInv, PlaneOK
<1>4. req' = [req EXCEPT ![r] = q]
    BY <1>1
<1> HIDE DEF q
<1>5. Sound(q, running.pm, codec)
    BY <1>2, NothingSent DEF Sound, SentOK, AskedOK, LivePcs, FoundPcs, ChosenPcs
<1>6. RequestOK(q, running, codec)
    BY <1>2, <1>3, <1>5 DEF RequestOK, Came, LivePcs
<1>7. UNCHANGED <<running, codec, pending>>
    BY DEF Receive, plane
<1> QED BY <1>4, <1>6, <1>7, OneMoves

LEMMA ResolveKeeps == ASSUME RoutingInv, NEW r \in Requests, Resolve(r) PROVE RoutingInv'
<1> DEFINE q == req[r]
<1>1. /\ q.pc = "resolving" /\ RequestOK(q, running, codec) /\ r \in DOMAIN req
      /\ UNCHANGED <<running, codec, pending>>
    BY DEF Resolve, RoutingInv, plane
<1>2. DOMAIN q = LiveFields /\ q.pc \in LivePcs
    BY <1>1 DEF RequestOK, LivePcs
<1>3. PICK observed : LET found == ResolveOrFallback(running.pm, q.resolver, q.ask, observed)
                      IN  req' = [req EXCEPT ![r] =
                            IF found.stage = "not_found" THEN Ended(@, "not_found", 0)
                            ELSE [@ EXCEPT !.pc = "filtering", !.found = found]]
    BY DEF Resolve
<1> DEFINE found == ResolveOrFallback(running.pm, q.resolver, q.ask, observed)
           next == IF found.stage = "not_found" THEN Ended(q, "not_found", 0)
                   ELSE [q EXCEPT !.pc = "filtering", !.found = found]
<1>4. req' = [req EXCEPT ![r] = next]
    BY <1>1, <1>3
<1> HIDE DEF q, found
<1>5. CASE found.stage = "not_found"
    <2>1. next = Ended(q, "not_found", 0) /\ next.pc = "done" /\ next.since = q.since
        BY <1>5 DEF Ended
    <2> HIDE DEF next
    <2>2. Sound(q, running.pm, codec) => Sound(next, running.pm, codec)
        BY <1>1, <1>2, <1>5, <2>1, ResolveIsSound DEF found
    <2>3. RequestOK(next, running, codec)
        BY <1>1, <1>2, <2>1, <2>2, ComesToAnEnd
    <2> QED BY <1>1, <1>4, <2>3, OneMoves
<1>6. CASE found.stage # "not_found"
    <2>1. next = [q EXCEPT !.pc = "filtering", !.found = found]
        BY <1>6
    <2>2. next.pc \in LivePcs /\ DOMAIN next = LiveFields /\ next.since = q.since
        BY <1>2, <2>1 DEF LivePcs, LiveFields
    <2> HIDE DEF next
    <2>3. Sound(q, running.pm, codec) => Sound(next, running.pm, codec)
        BY <1>1, <1>2, <1>6, <2>1, ResolveIsSound DEF found
    <2>4. RequestOK(next, running, codec)
        BY <1>1, <1>2, <2>2, <2>3, GoesOn
    <2> QED BY <1>1, <1>4, <2>4, OneMoves
<1> QED BY <1>5, <1>6

LEMMA FilterKeeps == ASSUME RoutingInv, NEW r \in Requests, Filter(r) PROVE RoutingInv'
<1> DEFINE q == req[r]
           kept == [q EXCEPT !.left = Kept(running.pm, q)]
           branch == IF PassesThrough(Preferred(kept)) THEN "entering" ELSE "adapting"
           next == IF kept.left = {} THEN Ended(q, "filtered", 0) ELSE [kept EXCEPT !.pc = branch]
<1>1. /\ q.pc = "filtering" /\ RequestOK(q, running, codec)
      /\ UNCHANGED <<running, codec, pending>>
      /\ req' = [req EXCEPT ![r] = next]
    BY DEF Filter, RoutingInv, plane
<1>2. DOMAIN q = LiveFields /\ q.pc \in LivePcs
    BY <1>1 DEF RequestOK, LivePcs
<1> HIDE DEF q
<1>3. DOMAIN kept = LiveFields /\ kept.since = q.since
    BY <1>2 DEF LiveFields
<1>4. Sound(q, running.pm, codec) =>
        /\ kept.left = {} => Sound(Ended(q, "filtered", 0), running.pm, codec)
        /\ kept.left # {} => Sound([kept EXCEPT !.pc = branch], running.pm, codec)
    BY <1>1, <1>2, FilterIsSound
<1> HIDE DEF kept
<1>5. branch \in {"entering", "adapting"}
    OBVIOUS
<1> HIDE DEF branch
<1>6. CASE kept.left = {}
    <2>1. next = Ended(q, "filtered", 0) /\ next.pc = "done" /\ next.since = q.since
        BY <1>6 DEF Ended
    <2> HIDE DEF next
    <2> QED BY <1>1, <1>2, <1>4, <1>6, <2>1, ComesToAnEnd, OneMoves
<1>7. CASE kept.left # {}
    <2>1. next = [kept EXCEPT !.pc = branch]
        BY <1>7
    <2>2. next.pc \in LivePcs /\ DOMAIN next = LiveFields /\ next.since = q.since
        BY <1>3, <1>5, <2>1 DEF LivePcs, LiveFields
    <2> HIDE DEF next
    <2> QED BY <1>1, <1>2, <1>4, <1>7, <2>1, <2>2, GoesOn, OneMoves
<1> QED BY <1>6, <1>7

LEMMA EnterKeeps == ASSUME RoutingInv, NEW r \in Requests, Enter(r) PROVE RoutingInv'
<1> DEFINE q == req[r]
           through == {n \in q.left : PassesThrough(q.found.cands[n])}
           next == [q EXCEPT !.pc = "trying", !.pm = running.pm, !.left = through]
<1>1. /\ q.pc = "entering" /\ RequestOK(q, running, codec)
      /\ UNCHANGED <<running, codec, pending>>
      /\ req' = [req EXCEPT ![r] = next]
    BY DEF Enter, RoutingInv, plane
<1>2. DOMAIN q = LiveFields /\ q.pc \in LivePcs
    BY <1>1 DEF RequestOK, LivePcs
<1> HIDE DEF q
<1>3. next.pc \in LivePcs /\ DOMAIN next = LiveFields /\ next.since = q.since
    BY <1>2 DEF LivePcs, LiveFields
<1>4. Sound(q, running.pm, codec) => Sound(next, running.pm, codec)
    BY <1>1, <1>2, EnterIsSound
<1> HIDE DEF next
<1> QED BY <1>1, <1>2, <1>3, <1>4, GoesOn, OneMoves

\* The next candidate of a request, or its end.
LEMMA NextTryKeeps ==
    ASSUME NEW q, NEW q2, NEW run, NEW cd, RequestOK(q, run, cd), q.pc = "trying",
           q2.pc = "trying", DOMAIN q2 = LiveFields, q2.since = q.since,
           Sound(q, run.pm, cd) => Sound(NextTry(q2), run.pm, cd)
    PROVE  RequestOK(NextTry(q2), run, cd)
<1>1. CASE q2.left = {Min(q2.left)}
    <2>1. NextTry(q2) = Ended(q2, "failed", 1)
        BY <1>1 DEF NextTry
    <2>2. NextTry(q2).pc = "done" /\ NextTry(q2).since = q.since
        BY <2>1 DEF Ended
    <2> QED BY <2>2, ComesToAnEnd DEF LivePcs
<1>2. CASE q2.left # {Min(q2.left)}
    <2>1. NextTry(q2) = [q2 EXCEPT !.left = @ \ {Min(@)}]
        BY <1>2 DEF NextTry
    <2>2. NextTry(q2).pc = "trying" /\ DOMAIN NextTry(q2) = LiveFields /\ NextTry(q2).since = q.since
        BY <2>1 DEF LiveFields
    <2> QED BY <2>2, GoesOn DEF LivePcs
<1> QED BY <1>1, <1>2

LEMMA SkipKeeps == ASSUME RoutingInv, NEW r \in Requests, Skip(r) PROVE RoutingInv'
<1> DEFINE q == req[r]
<1>1. /\ q.pc = "trying" /\ RequestOK(q, running, codec)
      /\ UNCHANGED <<running, codec, pending>>
      /\ req' = [req EXCEPT ![r] = NextTry(q)]
    BY DEF Skip, RoutingInv, plane
<1>2. DOMAIN q = LiveFields
    BY <1>1 DEF RequestOK, LivePcs
<1> HIDE DEF q
<1>3. RequestOK(NextTry(q), running, codec)
    BY <1>1, <1>2, NextIsSound, NextTryKeeps
<1> QED BY <1>1, <1>3, OneMoves

LEMMA ForwardKeeps == ASSUME RoutingInv, NEW r \in Requests, Forward(r) PROVE RoutingInv'
<1> DEFINE q == req[r]
           cand == Preferred(q)
           search == InjectSearchTool(q.pm, AliasOf(q))
           sent == [q EXCEPT !.sent = Append(@, Sent(cand,
                        StoredClient(q.pm.config.providers[cand.provider]), q.asked, search))]
<1>1. /\ q.pc = "trying" /\ RequestOK(q, running, codec)
      /\ UNCHANGED <<running, codec, pending>>
    BY DEF Forward, RoutingInv, plane
<1>2. PICK end \in {NextTry(sent)} \cup
                   {Ended(sent, s, 1) : s \in {"answered", "refused", "failed"}} :
        req' = [req EXCEPT ![r] = end]
    BY DEF Forward
<1>3. DOMAIN q = LiveFields /\ q.pc \in LivePcs
    BY <1>1 DEF RequestOK, LivePcs
<1> HIDE DEF q, search
<1>4. sent.pc = "trying" /\ DOMAIN sent = LiveFields /\ sent.since = q.since
    BY <1>1, <1>3 DEF LiveFields
<1>5. Sound(q, running.pm, codec) =>
        /\ Sound(NextTry(sent), running.pm, codec)
        /\ \A s \in {"answered", "refused", "failed"} : Sound(Ended(sent, s, 1), running.pm, codec)
    BY <1>1, <1>3, ForwardIsSound
<1> HIDE DEF sent
<1>6. CASE end = NextTry(sent)
    BY <1>1, <1>2, <1>4, <1>5, <1>6, NextTryKeeps, OneMoves
<1>7. ASSUME NEW s \in {"answered", "refused", "failed"}, end = Ended(sent, s, 1)
      PROVE  RoutingInv'
    <2>1. end.pc = "done" /\ end.since = q.since
        BY <1>4, <1>7 DEF Ended
    <2> QED BY <1>1, <1>2, <1>3, <1>5, <1>7, <2>1, ComesToAnEnd, OneMoves
<1> QED BY <1>2, <1>6, <1>7

LEMMA AdaptKeeps == ASSUME RoutingInv, NEW r \in Requests, Adapt(r) PROVE RoutingInv'
<1> DEFINE q == req[r]
           cand == Preferred(q)
           policy == ApplyPolicy(q.asked, cand.mode, cand.reason)
<1>1. /\ q.pc = "adapting" /\ RequestOK(q, running, codec)
      /\ UNCHANGED <<running, codec, pending>>
    BY DEF Adapt, RoutingInv, plane
<1>2. DOMAIN q = LiveFields /\ q.pc \in LivePcs
    BY <1>1 DEF RequestOK, LivePcs
<1>3. \/ policy = {} /\ req' = [req EXCEPT ![r] = Ended(q, "failed", 1)]
      \/ \E asked \in policy : \E s :
            req' = [req EXCEPT ![r] = [q EXCEPT !.pc = "sending", !.asked = asked, !.search = s]]
    BY DEF Adapt
<1> HIDE DEF q
<1>4. Sound(q, running.pm, codec) =>
        /\ policy = {} => Sound(Ended(q, "failed", 1), running.pm, codec)
        /\ \A asked \in policy : \A s :
            Sound([q EXCEPT !.pc = "sending", !.asked = asked, !.search = s], running.pm, codec)
    BY <1>1, <1>2, AdaptIsSound
<1> HIDE DEF policy
<1>5. CASE policy = {} /\ req' = [req EXCEPT ![r] = Ended(q, "failed", 1)]
    <2>1. Ended(q, "failed", 1).pc = "done" /\ Ended(q, "failed", 1).since = q.since
        BY DEF Ended
    <2> QED BY <1>1, <1>2, <1>4, <1>5, <2>1, ComesToAnEnd, OneMoves
<1>6. ASSUME NEW asked \in policy, NEW s,
             req' = [req EXCEPT ![r] = [q EXCEPT !.pc = "sending", !.asked = asked, !.search = s]]
      PROVE  RoutingInv'
    <2> DEFINE next == [q EXCEPT !.pc = "sending", !.asked = asked, !.search = s]
    <2>1. next.pc \in LivePcs /\ DOMAIN next = LiveFields /\ next.since = q.since
        BY <1>2 DEF LivePcs, LiveFields
    <2>2. Sound(q, running.pm, codec) => Sound(next, running.pm, codec)
        BY <1>4
    <2>3. req' = [req EXCEPT ![r] = next]
        BY <1>6
    <2> HIDE DEF next
    <2> QED BY <1>1, <1>2, <2>1, <2>2, <2>3, GoesOn, OneMoves
<1> QED BY <1>3, <1>5, <1>6

LEMMA SendKeeps ==
    ASSUME RoutingInv, NEW r \in Requests, SendOwn(r) \/ SendManaged(r) PROVE RoutingInv'
<1> DEFINE q == req[r]
           cand == Preferred(q)
<1>1. /\ q.pc = "sending" /\ RequestOK(q, running, codec)
      /\ UNCHANGED <<running, codec, pending>>
    BY DEF SendOwn, SendManaged, RoutingInv, plane
<1>2. DOMAIN q = LiveFields /\ q.pc \in LivePcs
    BY <1>1 DEF RequestOK, LivePcs
<1>3. ManagerOK(running.pm, codec)
    BY <1>1 DEF RoutingInv, PlaneOK, RequestOK, Came
<1>4. PICK client : \E end \in Ends(q, cand, client) :
        /\ req' = [req EXCEPT ![r] = end]
        /\ cand.proto \in OwnProtocols \/ client = ManagerClient(cand)
    BY DEF SendOwn, SendManaged
<1>4e. PICK end \in Ends(q, cand, client) :
        /\ req' = [req EXCEPT ![r] = end]
        /\ cand.proto \in OwnProtocols \/ client = ManagerClient(cand)
    BY <1>4
<1> HIDE DEF q
<1>5. Sound(q, running.pm, codec) => Sound(end, running.pm, codec)
    BY <1>1, <1>2, <1>3, <1>4e, SendOwnIsSound, SendManagedIsSound
<1>6. end.pc = "done" /\ end.since = q.since
    BY <1>2, <1>4e DEF Ends, Ended, LiveFields
<1> QED BY <1>1, <1>2, <1>4e, <1>5, <1>6, ComesToAnEnd, OneMoves

\* A start finds no request under way; a stop leaves none.
LEMMA NoneUnderWay ==
    ASSUME RoutingInv, ~running.up, NEW run, NEW cd, NEW r \in Requests
    PROVE  RequestOK(req[r], run, cd)
BY DEF RoutingInv, RequestOK, Came, LivePcs
LEMMA RunOnKeeps ==
    ASSUME NEW c, Valid(c), NEW issues, RunOn(c, issues)
    PROVE  running'.up /\ running' = Snapshot(running'.pm, running'.version)
           /\ running'.version \in Nat /\ ManagerOK(running'.pm, codec')
<1>1. PICK pm \in ResolveSearch(Manager(c, Env, codec', issues), Native) : running' = Snapshot(pm, 1)
    BY DEF RunOn
<1>2. ManagerOK(pm, codec')
    BY <1>1, NewManager
<1> QED BY <1>1, <1>2 DEF Snapshot
LEMMA StartKeeps == ASSUME RoutingInv, Start PROVE RoutingInv'
<1>1. ~running.up /\ UNCHANGED <<pending, req>>
    BY DEF Start
<1>2. pending.step # "reload"
    BY <1>1 DEF RoutingInv, PlaneOK
<1>3. \/ UNCHANGED running
      \/ \E c, issues : Valid(c) /\ RunOn(c, issues)
    <2>1. PICK f \in Seeds :
            \/ UNCHANGED running
            \/ \E seed \in SeedsOf(f, codec') :
                IF store.seeded THEN UseStore(seed) ELSE SeedStore(seed)
        BY DEF Start
    <2>2. ASSUME NEW seed \in SeedsOf(f, codec'), UseStore(seed)
          PROVE  \E c, issues : Valid(c) /\ RunOn(c, issues)
        <3>1. Valid(seed)
            BY <2>2, SeedIsValid
        <3>2. \/ RunOn(seed, {})
              \/ \E c \in LoadAll(store, codec') : RunOn(c, Issues(store, codec'))
            BY <2>2 DEF UseStore
        <3> QED BY <3>1, <3>2, LoadedIsValid
    <2>3. ASSUME NEW seed \in SeedsOf(f, codec'), SeedStore(seed)
          PROVE  \E c, issues : Valid(c) /\ RunOn(c, issues)
        BY <2>3, SeedIsValid DEF SeedStore
    <2> QED BY <2>1, <2>2, <2>3
<1>4. PlaneOK'
    <2>1. CASE UNCHANGED running
        BY <1>1, <1>2, <2>1 DEF PlaneOK, RoutingInv
    <2>2. ASSUME NEW c, NEW issues, Valid(c), RunOn(c, issues) PROVE PlaneOK'
        <3>1. /\ running'.up /\ running' = Snapshot(running'.pm, running'.version)
              /\ running'.version \in Nat /\ ManagerOK(running'.pm, codec')
            BY <2>2, RunOnKeeps
        <3>2. running'.up = TRUE
            BY <3>1 DEF Snapshot
        <3> QED BY <1>1, <1>2, <3>1, <3>2 DEF PlaneOK
    <2> QED BY <1>3, <2>1, <2>2
<1>5. \A r \in Requests : RequestOK(req[r], running', codec')
    BY <1>1, NoneUnderWay
<1> QED BY <1>1, <1>4, <1>5 DEF RoutingInv

LEMMA StopKeeps == ASSUME RoutingInv, Stop PROVE RoutingInv'
<1>1. /\ running' = Stopped /\ pending' = Settled
      /\ req' = [r \in Requests |-> IF req[r].pc = "idle" THEN Idle ELSE [pc |-> "dropped"]]
    BY DEF Stop
<1>2. PlaneOK'
    BY <1>1 DEF PlaneOK, Stopped, Settled
<1>3. \A r \in Requests : req'[r].pc \in {"idle", "dropped"}
    BY <1>1 DEF Idle
<1>4. \A r \in Requests : RequestOK(req'[r], running', codec')
    BY <1>3 DEF RequestOK, Came, LivePcs
<1> QED BY <1>1, <1>2, <1>4 DEF RoutingInv

\* A change that is saved forgets issues of the manager that runs, and nothing
\* else of it.
LEMMA CommitKeeps == ASSUME RoutingInv, Commit PROVE RoutingInv'
<1> DEFINE Installs(change, config) ==
        /\ running' = [running EXCEPT !.pm = ClearIssues(@, KeysGiven(change))]
        /\ pending' = IF RequiresRestart(change.ops) THEN RestartNeeded
                      ELSE [step |-> "reload", config |-> config, desktop |-> change.desktop]
<1>a. PICK change \in Changes : \E f : \E accepted \in Accept(f, codec) :
            Installs(change, accepted.config)
    BY DEF Commit
<1>1. PICK accepted : Valid(accepted.config) /\ Installs(change, accepted.config)
    BY <1>a, AcceptedIsValid
<1>2. /\ running.up /\ UNCHANGED <<codec, req>>
      /\ running = Snapshot(running.pm, running.version) /\ running.version \in Nat
      /\ ManagerOK(running.pm, codec)
    BY DEF Commit, RoutingInv, PlaneOK
<1> DEFINE pm == ClearIssues(running.pm, KeysGiven(change))
<1>3. running' = Snapshot(pm, running.version)
    BY <1>1, <1>2 DEF Snapshot
<1>4. ManagerOK(pm, codec) /\ pm.config = running.pm.config /\ pm.clients = running.pm.clients
    BY <1>2, IssuesForgotten
<1> HIDE DEF pm
<1>5. /\ running'.up = TRUE /\ running'.pm = pm /\ running'.version = running.version
    BY <1>3 DEF Snapshot
<1>6. pending'.step = "reload" => Valid(pending'.config)
    BY <1>1 DEF RestartNeeded
<1>7. PlaneOK'
    BY <1>2, <1>3, <1>4, <1>5, <1>6 DEF PlaneOK
<1>8. ASSUME NEW r \in Requests PROVE RequestOK(req[r], running', codec)
    <2>1. RequestOK(req[r], running, codec)
        BY DEF RoutingInv
    <2>2. Sound(req[r], running.pm, codec) => Sound(req[r], pm, codec)
        BY <1>4, SameSound
    <2> QED BY <1>5, <2>1, <2>2 DEF RequestOK
<1> QED BY <1>2, <1>7, <1>8 DEF RoutingInv

\* A new snapshot: no request has come under it.
LEMMA ReloadKeeps == ASSUME RoutingInv, Reload PROVE RoutingInv'
<1> DEFINE pm == Manager(pending.config, Env, codec, {})
<1>1. /\ running' = Snapshot(pm, running.version + 1) /\ pending' = Settled
      /\ UNCHANGED <<codec, req>>
    BY DEF Reload
<1>2. Valid(pending.config) /\ running.up /\ running.version \in Nat
    BY DEF Reload, RoutingInv, PlaneOK
<1>3. ManagerOK(pm, codec)
    BY <1>2, NewManager
<1> HIDE DEF pm
<1>4. running'.up = TRUE /\ running'.pm = pm /\ running'.version = running.version + 1
    BY <1>1 DEF Snapshot
<1>5. PlaneOK'
    <2>1. running' = Snapshot(running'.pm, running'.version) /\ running'.version \in Nat
        BY <1>1, <1>2, <1>4
    <2>2. ManagerOK(running'.pm, codec')
        BY <1>1, <1>3, <1>4
    <2>3. pending'.step # "reload"
        BY <1>1 DEF Settled
    <2> QED BY <1>4, <2>1, <2>2, <2>3 DEF PlaneOK
<1>6. ASSUME NEW r \in Requests PROVE RequestOK(req[r], running', codec)
    <2>1. RequestOK(req[r], running, codec)
        BY DEF RoutingInv
    <2>2. Came(req[r]) => req[r].since # running.version + 1 /\ req[r].since <= running.version + 1
        BY <1>2, <2>1 DEF RequestOK
    <2> QED BY <1>4, <2>1, <2>2 DEF RequestOK
<1> QED BY <1>1, <1>5, <1>6 DEF RoutingInv

LEMMA NextKeeps == ASSUME RoutingInv, [Next]_vars PROVE RoutingInv'
<1>1. ASSUME UNCHANGED <<running, codec, pending, req>> PROVE RoutingInv'
    BY <1>1 DEF RoutingInv, PlaneOK
<1>2. CASE Start
    BY <1>2, StartKeeps
<1>3. CASE Stop
    BY <1>3, StopKeeps
<1>4. CASE Commit
    BY <1>4, CommitKeeps
<1>5. CASE Reload
    BY <1>5, ReloadKeeps
<1>6. CASE Derive \/ Refresh \/ SaveStopped \/ Done \/ UNCHANGED vars
    BY <1>1, <1>6 DEF Derive, Refresh, SaveStopped, Done, vars
<1>7. ASSUME NEW r \in Requests,
             \/ Receive(r) \/ Resolve(r) \/ Filter(r) \/ Enter(r) \/ Skip(r) \/ Forward(r)
             \/ Adapt(r) \/ SendOwn(r) \/ SendManaged(r)
      PROVE  RoutingInv'
    BY <1>7, ReceiveKeeps, ResolveKeeps, FilterKeeps, EnterKeeps, SkipKeeps, ForwardKeeps,
       AdaptKeeps, SendKeeps
<1> QED BY <1>2, <1>3, <1>4, <1>5, <1>6, <1>7 DEF Next

\* Every request that is under the configuration it came under has the
\* candidates of its slot, or none with a policy, and has been sent what that
\* configuration says (RoutingInv).
THEOREM RoutingIsSound == Spec => []RoutingInv
BY InitIsSound, NextKeeps, PTL DEF Spec

-----------------------------------------------------------------------------
(* The properties.                                                          *)

\* A request that comes under a configuration is sound under it.
LEMMA CameIsSound ==
    ASSUME RoutingInv, NEW r \in Requests, CameNow(r)
    PROVE  /\ Sound(req[r], running.pm, codec) /\ ManagerOK(running.pm, codec)
           /\ req[r].pc = "done" => DoneOK(req[r], running.pm)
BY DEF RoutingInv, PlaneOK, RequestOK, Came, CameNow, Sound

\* A request that comes once a change is at work goes to the addresses, and with
\* the credentials, of that change (Reload, newProviderManager, ProviderBaseURL).
THEOREM RequestsAreFresh == Spec => []FreshAfterChange
<1>1. RoutingInv => FreshAfterChange
    <2> SUFFICES ASSUME RoutingInv, NEW r \in Requests, CameNow(r), NEW n \in DOMAIN req[r].sent
                 PROVE  LET sent == req[r].sent[n]
                            def == running.pm.config.providers[sent.provider]
                        IN  CASE sent.proto = "anthropic" ->
                                    /\ sent.url = def.url
                                    /\ sent.key = PlainKey(ResolveKey(def, Env, codec, FALSE).key)
                              [] sent.proto = "openai-response" ->
                                    sent.url = def.url /\ sent.key = def.key
                              [] OTHER -> TRUE
        BY DEF FreshAfterChange
    <2>1. FreshOK(running.pm, codec, req[r].sent[n])
        BY CameIsSound DEF Sound, SentOK
    <2> QED BY <2>1 DEF FreshOK
<1> QED BY <1>1, RoutingIsSound, PTL

\* A request for a slot goes to the provider and the model of the slot and asks
\* what the policy of the slot says; nobody else gets a policy
\* (resolveModelOrFallbackContext, applyRoutingReasoningPolicy).
THEOREM SlotsKeepTheirPolicy == Spec => []SlotPolicyIsKept
<1>1. RoutingInv => SlotPolicyIsKept
    <2> SUFFICES ASSUME RoutingInv, NEW r \in Requests, CameNow(r), NEW n \in DOMAIN req[r].sent
                 PROVE  LET sent == req[r].sent[n]
                            ask == req[r].ask
                            named == ResolveModel(running.pm, ask.ref).state # "unknown"
                            slot == ResolveSlot(req[r].resolver, ask.ref.model)
                        IN  IF named \/ slot = <<>> \/ SlotTarget(running.pm, slot[1]).state # "resolved"
                            THEN sent.slot = None /\ sent.asked = AskedBy(ask)
                            ELSE /\ sent.slot = ask.ref.model
                                 /\ sent.provider = slot[1].provider /\ sent.upstream = slot[1].model
                                 /\ sent.proto # "openai-response" =>
                                        {sent.asked} = ApplyPolicy(AskedBy(ask), slot[1].mode,
                                                                   slot[1].reason)
        BY DEF SlotPolicyIsKept
    <2>1. PolicyOK(running.pm, req[r].ask, req[r].resolver, req[r].sent[n])
        BY CameIsSound DEF Sound, SentOK
    <2> QED BY <2>1 DEF PolicyOK, ByItsSlot, SlotOf
<1> QED BY <1>1, RoutingIsSound, PTL

\* A slot is called ready only if it leads to a provider.
LEMMA ReadyLeads ==
    ASSUME NEW resolver, NEW pm, NEW s \in SlotIds,
           "ready" \in {SlotStatus(resolver, pm, s), ConfigurationState(resolver, pm)}
    PROVE  /\ ResolveSlot(resolver, s) # <<>>
           /\ SlotTarget(pm, ResolveSlot(resolver, s)[1]).state = "resolved"
<1>1. SlotStatus(resolver, pm, s) = "ready"
    BY DEF ConfigurationState
<1>2. CASE ResolveSlot(resolver, s) = <<>>
    <2>1. SafeSlotState(resolver, s) = "ready"
        BY <1>1, <1>2 DEF SlotStatus
    <2>2. HasSlot(resolver, s) /\ ModeIsValid(resolver.table[resolver.active][s])
        BY <2>1 DEF SafeSlotState, HasSlot
    <2> QED BY <1>2, <2>2 DEF ResolveSlot
<1>3. CASE ResolveSlot(resolver, s) # <<>>
    BY <1>1, <1>3 DEF SlotStatus
<1> QED BY <1>2, <1>3
\* In a valid configuration no name of its own fails to resolve.
LEMMA NamesResolve ==
    ASSUME NEW pm, NEW cd, ManagerOK(pm, cd), NEW ref, ref.provider = None
    PROVE  ResolveModel(pm, ref).state # "failed"
<1>1. ref.model \in DOMAIN pm.config.routes =>
        pm.config.routes[ref.model].provider \in DOMAIN pm.clients
    BY DEF ManagerOK, Valid
<1> QED BY <1>1 DEF ResolveModel, Resolved, Unresolved
\* Credentials that are called available make a client.
LEMMA AvailableIsClient ==
    ASSUME NEW pm, NEW cd, ManagerOK(pm, cd), NEW p, CredentialState(pm, p) = "available",
           HoldsKey(pm.config.providers[p])
    PROVE  ClientOf(pm, p).ok
<1> DEFINE def == pm.config.providers[p]
<1>1. p \in DOMAIN pm.statuses /\ pm.statuses[p].state = "available" /\ p \in DOMAIN pm.clients
    BY DEF CredentialState, ManagerOK
<1>2. PICK blocked \in BOOLEAN :
        /\ pm.clients[p] = BuildClient(def, Env, cd, blocked)
        /\ pm.statuses[p] = ResolveKey(def, Env, cd, blocked).status
    BY <1>1 DEF ManagerOK
<1>3. ResolveKey(def, Env, cd, blocked).key # None
    <2>1. CASE blocked = TRUE
        BY <1>1, <1>2, <2>1 DEF ResolveKey, Unavailable, Status
    <2>2. CASE blocked = FALSE
        BY <1>1, <1>2, <2>2 DEF ResolveKey, Unavailable, Status, HoldsKey, FromEnv, NoneFound
    <2> QED BY <2>1, <2>2
<1> QED BY <1>1, <1>2, <1>3 DEF BuildClient, Client, ClientOf

\* A slot that the status page calls ready is found, and served if its policy
\* can be followed and its provider has credentials (runtimeSlotStatus,
\* credentialStateFor against resolveModelOrFallbackContext, newProviderManager).
THEOREM ReadySlotsServe == Spec => []ReadySlotsAreServed
<1>1. RoutingInv => ReadySlotsAreServed
    <2> SUFFICES ASSUME RoutingInv, NEW r \in Requests, CameNow(r),
                        holder.resolver = req[r].resolver, req[r].pc = "done",
                        ~req[r].ask.image, req[r].ask.ref.provider = None,
                        req[r].ask.ref.model \in SlotIds,
                        "ready" \in {SlotStatus(holder.resolver, running.pm, req[r].ask.ref.model),
                                     ConfigurationState(holder.resolver, running.pm)}
                 PROVE  LET ask == req[r].ask
                            slot == ResolveSlot(holder.resolver, ask.ref.model)[1]
                        IN  /\ req[r].status # "not_found"
                            /\ /\ ResolveModel(running.pm, ask.ref).state = "unknown"
                               /\ ApplyPolicy(AskedBy(ask), slot.mode, slot.reason) # {}
                               /\ CredentialState(running.pm, slot.provider) = "available"
                               /\ HoldsKey(running.pm.config.providers[slot.provider])
                               /\ ProtocolForKey(running.pm, slot.provider) = "anthropic"
                               => req[r].sent # <<>>
        BY DEF ReadySlotsAreServed
    <2> DEFINE ask == req[r].ask
               pm == running.pm
               slot == ResolveSlot(holder.resolver, ask.ref.model)[1]
    <2>1. DoneOK(req[r], pm) /\ ManagerOK(pm, codec)
        BY CameIsSound
    <2>2. SlotOf(ask, req[r].resolver) # <<>> /\ SlotOf(ask, req[r].resolver)[1] = slot
          /\ SlotTarget(pm, slot).state = "resolved"
        BY ReadyLeads DEF SlotOf
    <2> HIDE DEF pm, slot, ask
    <2>3. ResolveModel(pm, ask.ref).state = "unknown" => ByItsSlot(pm, ask, req[r].resolver)
        BY <2>2 DEF ByItsSlot
    <2>4. req[r].status # "not_found"
        BY <2>1, <2>3, NamesResolve, ThreeStates DEF DoneOK, ask
    <2>5. ASSUME /\ ResolveModel(pm, ask.ref).state = "unknown"
                 /\ ApplyPolicy(AskedBy(ask), slot.mode, slot.reason) # {}
                 /\ CredentialState(pm, slot.provider) = "available"
                 /\ HoldsKey(pm.config.providers[slot.provider])
                 /\ ProtocolForKey(pm, slot.provider) = "anthropic"
          PROVE  req[r].sent # <<>>
        <3>1. ClientOf(pm, slot.provider).ok
            BY <2>1, <2>5, AvailableIsClient
        <3>2. MustBeSent(pm, ask, req[r].resolver)
            BY <2>2, <2>3, <2>5, <3>1 DEF MustBeSent, ask
        <3> QED BY <2>1, <3>2 DEF DoneOK, ask
    <2> QED BY <2>4, <2>5 DEF pm, ask, slot
<1> QED BY <1>1, RoutingIsSound, PTL
=============================================================================
