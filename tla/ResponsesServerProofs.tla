----------------------- MODULE ResponsesServerProofs -----------------------
(***************************************************************************)
(* While the handler writes an event the converter, one step ahead, does   *)
(* not write to what the event refers to, for channels of any capacity,    *)
(* answers of any length and any moment the client leaves.  The invariant  *)
(* is about all events between the adapter and the converter: an index is  *)
(* ended once, texts are not ended once calls are, and the whole response  *)
(* is reported before its items or after their ends.                       *)
(***************************************************************************)
EXTENDS ResponsesServer, SequenceTheorems, TLAPS

IsSeq(s) == Len(s) \in Nat /\ s = [n \in 1..Len(s) |-> s[n]]

-----------------------------------------------------------------------------
\* Core events: those that end a block or a call write to an item that is
\* there; those of a text make an item of it; some change nothing.
Lifecycles == {"created", "in_progress", "completed", "incomplete", "failed"}
Changes == {"block_started", "text_delta", "args_delta", "args_done", "block_done"}
Ends(e) == e.type \in {"args_done", "block_done"}
Texts(e) == e.type = "text_delta" \/ (e.type = "block_started" /\ e.block \in {"text", "reasoning"})
Inert(e) == e.type \notin Changes

\* The core events between the adapter and the converter, in their order.
Joint(s, t) ==
    [k \in 1..(Len(s) + Len(t)) |-> IF k <= Len(s) THEN s[k] ELSE t[k - Len(s)]]
InFlight == Joint(events, provider.pend)

\* The state of the conversion: the items the indexes stand for are there, and
\* no two indexes stand for one.
ConvFields == {"output", "text", "args", "at", "nested", "reasoning", "finalized"}
ItemFields == {"type", "id", "status", "data"}
ConvOK(cv) ==
    /\ DOMAIN cv = ConvFields
    /\ IsSeq(cv.output)
    /\ \A n \in DOMAIN cv.output : DOMAIN cv.output[n] = ItemFields
    /\ \A i \in DOMAIN cv.at : cv.at[i] \in DOMAIN cv.output
    /\ \A i, j \in DOMAIN cv.at : cv.at[i] = cv.at[j] => i = j
Touched(cv) == DOMAIN cv.text \cup DOMAIN cv.at
TextIn(cv) == DOMAIN cv.text \cup {i \in DOMAIN cv.at : cv.output[cv.at[i]].type = "message"}

\* Indexes the adapter may still end: of blocks that are open or will come.
Over == {"closing", "finished", "failed"}
BlockStages == {"text", "thinking", "tool_use", "nested", "server_tool_use", "search"}
Opened(u) == u.blocks - (IF u.stage \in BlockStages THEN 1 ELSE 0)
Unstopped(u) == IF u.stage \in Over THEN {} ELSE {i \in Nat : i >= Opened(u)}
Stops(cs) == {cs[k].index : k \in {j \in DOMAIN cs : cs[j].type = "block_stop"}}
AllTaken == Finished(up) /\ chunks = <<>>
Endable ==
    CASE provider.pc = "run" /\ kind = "chat" ->
            IF AllTaken THEN {} ELSE {i \in Nat : i >= provider.st.block}
      [] provider.pc = "run" /\ kind = "google" -> IF AllTaken THEN {} ELSE {0}
      [] provider.pc = "run" /\ kind = "anthropic" -> Stops(chunks) \cup Unstopped(up)
      [] provider.pc = "blocks" -> {i \in Nat : i >= provider.st.next - 1}
      [] OTHER -> {}

-----------------------------------------------------------------------------
\* What is in flight is in order: an index is ended once, or before anything
\* else is said of it; once calls are ended, texts no longer are; and an event
\* that carries the whole response comes before all items or after all ends.
EndedOnce(q, cv, F) ==
    \A k \in DOMAIN q : q[k].type = "block_done" =>
        \/ q[k].index \notin F /\ \A j \in DOMAIN q : j > k /\ Ends(q[j]) => q[j].index # q[k].index
        \/ q[k].index \notin Touched(cv) /\ \A j \in DOMAIN q : j < k => q[j].index # q[k].index
TextsFirst(q, cv, F) ==
    \A k \in DOMAIN q : q[k].type = "args_done" =>
        /\ \A i \in TextIn(cv) : i \notin F /\ \A j \in DOMAIN q : j >= k /\ Ends(q[j]) => q[j].index # i
        /\ \A l \in DOMAIN q : l < k /\ Texts(q[l]) =>
              /\ q[l].index \notin F
              /\ \A j \in DOMAIN q : j >= k /\ Ends(q[j]) => q[j].index # q[l].index
NoMoreEnds(q, F) == F = {} /\ \A k \in DOMAIN q : ~Ends(q[k])
WholeAtEnds(q, cv, F) ==
    \A k \in DOMAIN q : q[k].type \in Lifecycles =>
        \/ F = {} /\ \A j \in DOMAIN q : j > k => ~Ends(q[j])
        \/ cv.output = <<>> /\ \A j \in DOMAIN q : j < k => Inert(q[j])
Flow(q, cv, F) == EndedOnce(q, cv, F) /\ TextsFirst(q, cv, F) /\ WholeAtEnds(q, cv, F)

\* Nothing in flight writes to item n, or to anything.
Kept(n, q, cv, F) ==
    \A i \in DOMAIN cv.at : cv.at[i] = n =>
        i \notin F /\ \A k \in DOMAIN q : Ends(q[k]) => q[k].index # i
\* An event for the client that nothing in flight writes to, or that goes
\* before others of its step.
Message(e, cv) == e.item # 0 /\ cv.output[e.item].type = "message"
SseOK(e, q, cv, F) ==
    /\ e.item = 0 => e.output = <<>> \/ (NoMoreEnds(q, F) /\ DOMAIN e.output \subseteq DOMAIN cv.output)
    /\ e.item # 0 /\ e.kind \in {"added", "done"} => e.item \in DOMAIN cv.output
    /\ e.kind = "done" /\ Message(e, cv) => Kept(e.item, q, cv, F)
SaidOK(pend, event, q, cv, F) ==
    /\ IsSeq(pend)
    /\ \A k \in DOMAIN pend :
          /\ SseOK(pend[k], q, cv, F)
          /\ pend[k].kind = "added" /\ Message(pend[k], cv) => k < Len(pend)
    /\ event # NoEvent =>
          /\ SseOK(event, q, cv, F)
          /\ event.kind = "added" /\ Message(event, cv) => pend # <<>>

-----------------------------------------------------------------------------
UpFields == {"stage", "n", "told", "blocks", "repeated", "hidden"}
\* A chat stream: reasoning, content, calls and the end, in this order.
ChatRank(c) ==
    IF c.finish THEN 4 ELSE IF c.call # 0 THEN 3 ELSE IF c.content # <<>> THEN 2 ELSE 1
StageRank == [start |-> 0, reasoning |-> 1, content |-> 2, calls |-> 3, finished |-> 4]
ChatForm(c) ==
    /\ {c.role, c.finish} \subseteq BOOLEAN
    /\ ChatRank(c) > 1 => ~c.role /\ c.reasoning = <<>>
    /\ ChatRank(c) > 2 => c.content = <<>>
    /\ c.finish => c.call = 0
    /\ c.block \in {"tool_use", "nested"}
ChatChunks(u, cs) ==
    /\ u.stage \in DOMAIN StageRank
    /\ u.stage = "calls" => u.blocks # 0
    /\ \A k \in DOMAIN cs :
          /\ ChatForm(cs[k])
          /\ ChatRank(cs[k]) <= StageRank[u.stage]
          /\ cs[k].finish => k = Len(cs)
          /\ \A j \in DOMAIN cs : k < j => ChatRank(cs[k]) <= ChatRank(cs[j])
ChatFields == {"started", "block", "hasReasoning", "reasonIndex", "calls", "toolIdx", "slot"}
ChatState(st) ==
    /\ DOMAIN st = ChatFields
    /\ st.block \in Nat /\ {st.started, st.hasReasoning, st.calls} \subseteq BOOLEAN
    /\ st.hasReasoning => st.reasonIndex = st.block
    /\ ~st.calls => DOMAIN st.slot = {}
    /\ st.calls => /\ st.toolIdx \in Nat /\ st.toolIdx > st.block
                   /\ \A x \in DOMAIN st.slot :
                         st.slot[x] \in Nat /\ st.block < st.slot[x] /\ st.slot[x] < st.toolIdx
ChatPlaces(st, u, cs, q, cv) ==
    /\ st.calls => /\ StageRank[u.stage] >= 3
                   /\ \A k \in DOMAIN cs : ChatRank(cs[k]) >= 3
    /\ ~st.calls => /\ \A i \in Touched(cv) : i <= st.block
                    /\ \A k \in DOMAIN q : q[k].index <= st.block
    /\ \A i \in TextIn(cv) : i <= st.block
    /\ \A k \in DOMAIN q : Texts(q[k]) => q[k].index <= st.block

GoogleChunks(u, cs) ==
    \A k \in DOMAIN cs :
        cs[k].finish \in BOOLEAN /\ (cs[k].finish => k = Len(cs) /\ Finished(u))

AnthropicForm(c) ==
    /\ c.type \in {"block_start", "block_delta", "block_stop"} \cup DOMAIN AnthropicEvents
    /\ c.index \in Nat
    /\ c.search \in BOOLEAN
    /\ c.type = "block_start" => c.block \in DOMAIN AnthropicKind \cup {"server_tool_use"}
Enders == {"message_delta", "message_stop", "error"}
AnthropicChunks(u, cs, open, q, cv) ==
    /\ u.stage \in {"start", "between"} \cup BlockStages \cup Over
    /\ u.stage \in BlockStages => u.blocks > 0
    /\ u.stage = "start" => cs = <<>> /\ (open => q = <<>> /\ cv.output = <<>>)
    /\ \A k \in DOMAIN cs :
          /\ AnthropicForm(cs[k])
          /\ cs[k].type = "message_start" => k = 1 /\ q = <<>> /\ cv.output = <<>>
          /\ cs[k].type = "block_stop" =>
                /\ cs[k].index \notin Unstopped(u)
                /\ \A j \in DOMAIN cs : k < j /\ cs[j].type = "block_stop"
                      => cs[j].index # cs[k].index
          /\ cs[k].type \in Enders =>
                /\ u.stage \in Over
                /\ \A j \in DOMAIN cs : k < j => cs[j].type # "block_stop"

ResponsePlaces(st, q, cv) ==
    /\ DOMAIN st = {"blocks", "next", "status"}
    /\ st.next \in Nat \ {0}
    /\ st.status \in {"completed", "incomplete", "failed"}
    /\ \A i \in TextIn(cv) : i < st.next - 1
    /\ \A k \in DOMAIN q : Texts(q[k]) => q[k].index < st.next - 1

UpstreamOK ==
    /\ IsSeq(chunks) /\ DOMAIN up = UpFields /\ up.blocks \in Nat
    /\ kind \in PathKinds \cup {"none"}
    /\ body = "open" => kind \in Streams
    /\ kind = "chat" => ChatChunks(up, chunks)
    /\ kind = "google" => GoogleChunks(up, chunks)
    /\ kind = "anthropic" => AnthropicChunks(up, chunks, body = "open", InFlight, converter.cv)
ProviderOK ==
    /\ DOMAIN provider = {"pc", "st", "pend"}
    /\ provider.pc \in {"run", "blocks", "closing", "done"}
    /\ provider.pc = "run" => kind \in Streams
    /\ provider.pc = "blocks" =>
          kind \in {"whole", "visual"} /\ ResponsePlaces(provider.st, InFlight, converter.cv)
    /\ provider.pc = "run" /\ kind = "chat" =>
          ChatState(provider.st) /\ ChatPlaces(provider.st, up, chunks, InFlight, converter.cv)
    /\ kind = "whole" => events = <<>>

BeginOK ==
    handler.pc = "begin" =>
        /\ kind = "none" /\ up = NewUpstream /\ chunks = <<>> /\ events = <<>> /\ body = "closed"
        /\ provider.pc = "done" /\ provider.pend = <<>>
        /\ converter.cv = NewConversion /\ converter.pend = <<>>
        /\ handler.event = NoEvent

PipeOK ==
    /\ IsSeq(events) /\ IsSeq(provider.pend)
    /\ \A k \in DOMAIN InFlight : InFlight[k].index \in Nat
    /\ DOMAIN converter = {"pc", "cv", "pend"}
    /\ DOMAIN handler = {"pc", "event", "final", "ending"}
    /\ ConvOK(converter.cv) /\ Touched(converter.cv) \subseteq Nat

StreamInv ==
    /\ PipeOK
    /\ BeginOK
    /\ UpstreamOK
    /\ ProviderOK
    /\ Flow(InFlight, converter.cv, Endable)
    /\ SaidOK(converter.pend, handler.event, InFlight, converter.cv, Endable)

-----------------------------------------------------------------------------
LEMMA SeqOver == ASSUME NEW s, IsSeq(s) PROVE \E S : s \in Seq(S)
<1> DEFINE S == {s[n] : n \in 1..Len(s)}
<1>1. [n \in 1..Len(s) |-> s[n]] \in [1..Len(s) -> S]
    OBVIOUS
<1> HIDE DEF S
<1>2. s \in [1..Len(s) -> S] /\ Len(s) \in Nat
    BY <1>1 DEF IsSeq
<1> QED BY <1>2, SeqDef

LEMMA IsSeqOf == ASSUME NEW S, NEW s \in Seq(S) PROVE IsSeq(s)
<1>1. s \in [1..Len(s) -> S] /\ Len(s) \in Nat
    BY LenProperties
<1> QED BY <1>1 DEF IsSeq

LEMMA DomainOf ==
    ASSUME NEW s, IsSeq(s)
    PROVE  /\ Len(s) \in Nat /\ DOMAIN s = 1..Len(s)
           /\ s = <<>> <=> Len(s) = 0
<1>1. PICK S : s \in Seq(S)
    BY SeqOver
<1> QED BY <1>1, LenProperties, EmptySeq

LEMMA TailOf ==
    ASSUME NEW s, IsSeq(s), s # <<>>
    PROVE  /\ Head(s) = s[1] /\ Len(s) > 0
           /\ IsSeq(Tail(s)) /\ Len(Tail(s)) = Len(s) - 1
           /\ \A n \in 1..(Len(s) - 1) : Tail(s)[n] = s[n + 1]
<1>1. PICK S : s \in Seq(S)
    BY SeqOver
<1>2. Tail(s) \in Seq(S) /\ Len(Tail(s)) = Len(s) - 1 /\ Head(s) = s[1] /\ Len(s) > 0
    BY <1>1, HeadTailProperties, DomainOf
<1>3. \A n \in 1..(Len(s) - 1) : Tail(s)[n] = s[n + 1]
    BY <1>1, <1>2, HeadTailProperties
<1> QED BY <1>2, <1>3, IsSeqOf

LEMMA AppendOf ==
    ASSUME NEW s, IsSeq(s), NEW e
    PROVE  /\ IsSeq(Append(s, e)) /\ Len(Append(s, e)) = Len(s) + 1
           /\ \A n \in 1..Len(s) : Append(s, e)[n] = s[n]
           /\ Append(s, e)[Len(s) + 1] = e
<1>1. PICK T : s \in Seq(T)
    BY SeqOver
<1> DEFINE S == T \cup {e}
<1>2. s \in Seq(S)
    <2>1. s \in [1..Len(s) -> T] /\ Len(s) \in Nat
        BY <1>1, LenProperties
    <2>2. s \in [1..Len(s) -> S]
        BY <2>1
    <2> QED BY <2>1, <2>2, SeqDef
<1>3. e \in S
    OBVIOUS
<1> HIDE DEF S
<1>4. /\ Append(s, e) \in Seq(S)
      /\ Len(Append(s, e)) = Len(s) + 1
      /\ \A n \in 1..Len(s) : Append(s, e)[n] = s[n]
      /\ Append(s, e)[Len(s) + 1] = e
    BY <1>2, <1>3, AppendProperties
<1> QED BY <1>4, IsSeqOf

\* Short sequences, as the handlers return them.
LEMMA NoneOf == IsSeq(<<>>) /\ Len(<<>>) = 0
BY DEF IsSeq
LEMMA OneOf == \A a : IsSeq(<<a>>) /\ Len(<<a>>) = 1 /\ <<a>>[1] = a
BY DEF IsSeq
LEMMA TwoOf == \A a, b : LET s == <<a, b>> IN IsSeq(s) /\ Len(s) = 2 /\ s[1] = a /\ s[2] = b
BY DEF IsSeq
LEMMA ThreeOf ==
    \A a, b, c : LET s == <<a, b, c>>
                 IN  IsSeq(s) /\ Len(s) = 3 /\ s[1] = a /\ s[2] = b /\ s[3] = c
BY DEF IsSeq

-----------------------------------------------------------------------------
\* What the conversion of one event does to the items: those that are there
\* keep their type, and only an end writes to one, that of its index.
Follows(cv, e, new) ==
    /\ ConvOK(new)
    /\ DOMAIN cv.output \subseteq DOMAIN new.output
    /\ \A n \in DOMAIN cv.output :
          /\ new.output[n].type = cv.output[n].type
          /\ new.output[n] # cv.output[n] =>
                Ends(e) /\ e.index \in DOMAIN cv.at /\ cv.at[e.index] = n
    /\ \A i \in DOMAIN new.at :
          \/ i \in DOMAIN cv.at /\ new.at[i] = cv.at[i]
          \/ i = e.index /\ new.at[i] \notin DOMAIN cv.output
    /\ \A i \in DOMAIN new.text : i \in DOMAIN cv.text \/ (i = e.index /\ Texts(e))
    /\ \A i \in TextIn(new) : i \in TextIn(cv) \/ (i = e.index /\ Texts(e))

\* And what is said of it to the client.
SaysOK(cv, e, new, k, len, s) ==
    /\ s.item = 0 => s.output = <<>> \/ (e.type \in Lifecycles /\ s.output = cv.output)
    /\ s.item # 0 /\ s.kind \in {"added", "done"} => s.item \in DOMAIN new.output
    /\ s.kind = "added" /\ Message(s, new) => k < len
    /\ s.kind = "done" /\ Message(s, new) =>
          \/ e.type = "args_done"
          \/ /\ e.type = "block_done" /\ e.index \in Touched(cv)
             /\ e.index \in DOMAIN new.at /\ new.at[e.index] = s.item
HandlerOK(cv, e, r) ==
    /\ Follows(cv, e, r.cv)
    /\ IsSeq(r.sse)
    /\ \A k \in DOMAIN r.sse : SaysOK(cv, e, r.cv, k, Len(r.sse), r.sse[k])

LEMMA SaysNone ==
    ASSUME NEW cv, NEW e, NEW r, Follows(cv, e, r.cv), r.sse = <<>>
    PROVE  HandlerOK(cv, e, r)
<1>1. IsSeq(r.sse) /\ DOMAIN r.sse = {}
    BY NoneOf, DomainOf
<1> QED BY <1>1 DEF HandlerOK
LEMMA SaysOne ==
    ASSUME NEW cv, NEW e, NEW r, NEW a, Follows(cv, e, r.cv), r.sse = <<a>>,
           SaysOK(cv, e, r.cv, 1, 1, a)
    PROVE  HandlerOK(cv, e, r)
<1>1. IsSeq(r.sse) /\ Len(r.sse) = 1 /\ r.sse[1] = a
    BY OneOf
<1>2. DOMAIN r.sse = 1..1
    BY <1>1, DomainOf
<1> QED BY <1>1, <1>2 DEF HandlerOK
LEMMA SaysTwo ==
    ASSUME NEW cv, NEW e, NEW r, NEW a, NEW b, Follows(cv, e, r.cv), r.sse = <<a, b>>,
           SaysOK(cv, e, r.cv, 1, 2, a), SaysOK(cv, e, r.cv, 2, 2, b)
    PROVE  HandlerOK(cv, e, r)
<1>1. IsSeq(r.sse) /\ Len(r.sse) = 2 /\ r.sse[1] = a /\ r.sse[2] = b
    BY TwoOf
<1>2. DOMAIN r.sse = 1..2
    BY <1>1, DomainOf
<1> QED BY <1>1, <1>2 DEF HandlerOK
LEMMA SaysThree ==
    ASSUME NEW cv, NEW e, NEW r, NEW a, NEW b, NEW c,
           Follows(cv, e, r.cv), r.sse = <<a, b, c>>,
           SaysOK(cv, e, r.cv, 1, 3, a), SaysOK(cv, e, r.cv, 2, 3, b), SaysOK(cv, e, r.cv, 3, 3, c)
    PROVE  HandlerOK(cv, e, r)
<1>1. IsSeq(r.sse) /\ Len(r.sse) = 3 /\ r.sse[1] = a /\ r.sse[2] = b /\ r.sse[3] = c
    BY ThreeOf
<1>2. DOMAIN r.sse = 1..3
    BY <1>1, DomainOf
<1> QED BY <1>1, <1>2 DEF HandlerOK

\* An event that announces or changes none of the items.
LEMMA SaysLittle ==
    \A cv, e, new, k, len, kind_, n :
        n # 0 /\ kind_ \notin {"added", "done"} => SaysOK(cv, e, new, k, len, Sse(kind_, n))
BY SMT DEF SaysOK, Sse

LEMMA WithIs ==
    ASSUME NEW map, NEW i, NEW value
    PROVE  /\ DOMAIN With(map, i, value) = DOMAIN map \cup {i}
           /\ With(map, i, value)[i] = value
           /\ \A x \in DOMAIN map : x # i => With(map, i, value)[x] = map[x]
BY DEF With

\* A new item at the end.
LEMMA ExtendedIs ==
    ASSUME NEW cv, ConvOK(cv), NEW i, NEW item, DOMAIN item = ItemFields
    PROVE  LET new == Extended(cv, i, item)
               n == Len(new.output)
           IN  /\ ConvOK(new)
               /\ DOMAIN new.output = DOMAIN cv.output \cup {n}
               /\ n \notin DOMAIN cv.output /\ n # 0 /\ new.output[n] = item
               /\ \A m \in DOMAIN cv.output : new.output[m] = cv.output[m]
               /\ DOMAIN new.at = DOMAIN cv.at \cup {i} /\ new.at[i] = n
               /\ \A j \in DOMAIN cv.at : j # i => new.at[j] = cv.at[j]
               /\ new.text = cv.text
<1> DEFINE new == Extended(cv, i, item)
           len == Len(cv.output)
<1>1. DOMAIN cv = ConvFields /\ IsSeq(cv.output) /\ len \in Nat /\ DOMAIN cv.output = 1..len
    BY DomainOf DEF ConvOK
<1>2. /\ DOMAIN new = ConvFields
      /\ new.output = Append(cv.output, item)
      /\ new.at = With(cv.at, i, len + 1)
      /\ new.text = cv.text
    BY <1>1 DEF Extended, ConvFields
<1> HIDE DEF new
<1>3. /\ IsSeq(new.output) /\ Len(new.output) = len + 1
      /\ \A m \in 1..len : new.output[m] = cv.output[m]
      /\ new.output[len + 1] = item
    BY <1>1, <1>2, AppendOf
<1>4. DOMAIN new.output = 1..(len + 1)
    BY <1>3, DomainOf
<1>5. /\ DOMAIN new.at = DOMAIN cv.at \cup {i} /\ new.at[i] = len + 1
      /\ \A j \in DOMAIN cv.at : j # i => new.at[j] = cv.at[j]
    BY <1>2, WithIs DEF With
<1>6. \A n \in DOMAIN new.output : DOMAIN new.output[n] = ItemFields
    BY <1>1, <1>3, <1>4 DEF ConvOK
<1>7. \A j \in DOMAIN new.at : new.at[j] \in DOMAIN new.output
    BY <1>1, <1>4, <1>5 DEF ConvOK
<1>8. \A j, k \in DOMAIN new.at : new.at[j] = new.at[k] => j = k
    <2>1. \A j \in DOMAIN cv.at : cv.at[j] \in 1..len
        BY <1>1 DEF ConvOK
    <2> QED BY <1>1, <1>5, <2>1 DEF ConvOK
<1>9. ConvOK(new)
    BY <1>2, <1>3, <1>6, <1>7, <1>8 DEF ConvOK
<1>10. len + 1 \notin DOMAIN cv.output /\ len + 1 # 0
       /\ DOMAIN new.output = DOMAIN cv.output \cup {len + 1}
    BY <1>1, <1>4
<1> QED BY <1>1, <1>2, <1>3, <1>5, <1>9, <1>10 DEF new

\* An item that is written to.
LEMMA WrittenIs ==
    ASSUME NEW o, IsSeq(o), \A n \in DOMAIN o : DOMAIN o[n] = ItemFields,
           NEW m \in DOMAIN o, NEW d
    PROVE  LET w == Completed(o, m, d)
           IN  /\ IsSeq(w) /\ DOMAIN w = DOMAIN o
               /\ \A n \in DOMAIN o : DOMAIN w[n] = ItemFields /\ w[n].type = o[n].type
               /\ \A n \in DOMAIN o : n # m => w[n] = o[n]
<1> DEFINE w == Completed(o, m, d)
<1>1. DOMAIN o = 1..Len(o) /\ Len(o) \in Nat
    BY DomainOf
<1>2. /\ DOMAIN w = DOMAIN o
      /\ w = [n \in DOMAIN o |-> IF n = m THEN [o[m] EXCEPT !.data = d, !.status = "completed"]
                                 ELSE o[n]]
    BY DEF Completed
<1> HIDE DEF w
<1>3. IsSeq(w)
    <2> DEFINE S == {w[n] : n \in 1..Len(o)}
    <2>1. w \in [1..Len(o) -> S]
        BY <1>1, <1>2
    <2> HIDE DEF S
    <2>2. w \in Seq(S)
        BY <1>1, <2>1, SeqDef
    <2> QED BY <2>2, IsSeqOf
<1>4. \A n \in DOMAIN o : DOMAIN w[n] = ItemFields /\ w[n].type = o[n].type
    BY <1>2 DEF ItemFields
<1>5. \A n \in DOMAIN o : n # m => w[n] = o[n]
    BY <1>2
<1> QED BY <1>2, <1>3, <1>4, <1>5 DEF w

\* A handler that leaves the items alone.
LEMMA FollowsAlone ==
    ASSUME NEW cv, ConvOK(cv), NEW e, NEW new, DOMAIN new = ConvFields,
           new.output = cv.output,
           DOMAIN new.at \subseteq DOMAIN cv.at, \A i \in DOMAIN new.at : new.at[i] = cv.at[i],
           \A i \in DOMAIN new.text : i \in DOMAIN cv.text \/ (i = e.index /\ Texts(e))
    PROVE  Follows(cv, e, new)
BY DEF Follows, ConvOK, TextIn

\* One that adds an item for its index.
LEMMA FollowsExtended ==
    ASSUME NEW cv, ConvOK(cv), NEW e, NEW item, DOMAIN item = ItemFields,
           NEW base, ConvOK(base), base.output = cv.output, base.at = cv.at,
           NEW old, old = Extended(base, e.index, item),
           NEW new, DOMAIN new = ConvFields, new.output = old.output, new.at = old.at,
           \A i \in DOMAIN new.text : i \in DOMAIN cv.text \/ (i = e.index /\ Texts(e)),
           item.type = "message" => Texts(e) \/ e.index \in DOMAIN cv.text
    PROVE  /\ Follows(cv, e, new)
           /\ LET n == Len(old.output)
              IN  /\ n \in DOMAIN new.output /\ n # 0 /\ new.output[n] = item
                  /\ n \notin DOMAIN cv.output
                  /\ e.index \in DOMAIN new.at /\ new.at[e.index] = n
<1> DEFINE n == Len(old.output)
<1>1. /\ ConvOK(old)
      /\ DOMAIN new.output = DOMAIN cv.output \cup {n}
      /\ n \notin DOMAIN cv.output /\ n # 0 /\ new.output[n] = item
      /\ \A m \in DOMAIN cv.output : new.output[m] = cv.output[m]
      /\ DOMAIN new.at = DOMAIN cv.at \cup {e.index} /\ new.at[e.index] = n
      /\ \A j \in DOMAIN cv.at : j # e.index => new.at[j] = cv.at[j]
    BY ExtendedIs
<1> HIDE DEF n
<1>2. ConvOK(new)
    BY <1>1 DEF ConvOK
<1>3. \A i \in DOMAIN new.at : \/ i \in DOMAIN cv.at /\ new.at[i] = cv.at[i]
                               \/ i = e.index /\ new.at[i] \notin DOMAIN cv.output
    BY <1>1
<1>4. \A i \in TextIn(new) : i \in TextIn(cv) \/ (i = e.index /\ Texts(e))
    <2> SUFFICES ASSUME NEW i \in TextIn(new) PROVE i \in TextIn(cv) \/ (i = e.index /\ Texts(e))
        OBVIOUS
    <2>1. CASE i \in DOMAIN new.text
        BY <2>1 DEF TextIn
    <2>2. CASE i \in DOMAIN new.at /\ new.output[new.at[i]].type = "message" /\ i = e.index
        BY <1>1, <2>2 DEF TextIn
    <2>3. CASE i \in DOMAIN new.at /\ new.output[new.at[i]].type = "message" /\ i # e.index
        <3>1. i \in DOMAIN cv.at /\ new.at[i] = cv.at[i] /\ cv.at[i] \in DOMAIN cv.output
            BY <1>1, <2>3 DEF ConvOK
        <3> QED BY <1>1, <2>3, <3>1 DEF TextIn
    <2> QED BY <2>1, <2>2, <2>3 DEF TextIn
<1>5. Follows(cv, e, new)
    BY <1>1, <1>2, <1>3, <1>4 DEF Follows
<1> QED BY <1>1, <1>5 DEF n

\* One that ends the item of its index.
LEMMA FollowsWritten ==
    ASSUME NEW cv, ConvOK(cv), NEW e, Ends(e), e.index \in DOMAIN cv.at, NEW d,
           NEW new, DOMAIN new = ConvFields,
           new.output = Completed(cv.output, cv.at[e.index], d),
           DOMAIN new.at \subseteq DOMAIN cv.at, \A i \in DOMAIN new.at : new.at[i] = cv.at[i],
           DOMAIN new.text \subseteq DOMAIN cv.text
    PROVE  Follows(cv, e, new) /\ DOMAIN new.output = DOMAIN cv.output
<1> DEFINE m == cv.at[e.index]
<1>1. m \in DOMAIN cv.output
    BY DEF ConvOK
<1>2. /\ IsSeq(new.output) /\ DOMAIN new.output = DOMAIN cv.output
      /\ \A n \in DOMAIN cv.output : /\ DOMAIN new.output[n] = ItemFields
                                     /\ new.output[n].type = cv.output[n].type
      /\ \A n \in DOMAIN cv.output : n # m => new.output[n] = cv.output[n]
    BY <1>1, WrittenIs DEF ConvOK
<1> HIDE DEF m
<1>3. ConvOK(new)
    BY <1>2 DEF ConvOK
<1>4. \A i \in TextIn(new) : i \in TextIn(cv)
    BY <1>2 DEF TextIn, ConvOK
<1>5. \A n \in DOMAIN cv.output : new.output[n] # cv.output[n] => cv.at[e.index] = n
    BY <1>2 DEF m
<1> QED BY <1>2, <1>3, <1>4, <1>5 DEF Follows

-----------------------------------------------------------------------------
LEMMA ConvFieldsOf == \A cv : ConvOK(cv) => DOMAIN cv = ConvFields
BY DEF ConvOK
LEMMA ItemIs ==
    \A type, id, status, data : /\ DOMAIN Item(type, id, status, data) = ItemFields
                                /\ Item(type, id, status, data).type = type
BY DEF Item, ItemFields

LEMMA LifecycleOK ==
    ASSUME NEW cv, ConvOK(cv), NEW e, e.type \in Lifecycles
    PROVE  HandlerOK(cv, e, OnLifecycle(cv, e))
<1> DEFINE r == OnLifecycle(cv, e)
           a == ResponseSse(e.type, cv)
<1>1. r.cv = cv /\ r.sse = <<a>>
    BY DEF OnLifecycle, Result
<1>2. Follows(cv, e, cv)
    BY ConvFieldsOf, FollowsAlone
<1>3. SaysOK(cv, e, cv, 1, 1, a)
    BY DEF SaysOK, ResponseSse, Message, Lifecycles
<1> HIDE DEF r, a
<1>4. HandlerOK(cv, e, r)
    BY <1>1, <1>2, <1>3, SaysOne
<1> QED BY <1>4 DEF r

LEMMA TextStartedOK ==
    ASSUME NEW cv, ConvOK(cv), NEW e, e.type = "block_started", e.block = "text"
    PROVE  HandlerOK(cv, e, OnTextStarted(cv, e))
<1> DEFINE r == OnTextStarted(cv, e)
<1>1. /\ r.sse = <<>> /\ DOMAIN r.cv = ConvFields
      /\ r.cv.output = cv.output /\ r.cv.at = cv.at
      /\ r.cv.text = With(cv.text, e.index, <<>>)
    BY ConvFieldsOf DEF OnTextStarted, Result, ConvFields
<1> HIDE DEF r
<1>2. \A i \in DOMAIN r.cv.text : i \in DOMAIN cv.text \/ (i = e.index /\ Texts(e))
    BY <1>1 DEF Texts, With
<1>3. HandlerOK(cv, e, r)
    BY <1>1, <1>2, FollowsAlone, SaysNone
<1> QED BY <1>3 DEF r

LEMMA ReasoningStartedOK ==
    ASSUME NEW cv, ConvOK(cv), NEW e, e.type = "block_started", e.block = "reasoning"
    PROVE  HandlerOK(cv, e, OnReasoningStarted(cv, e))
<1> DEFINE r == OnReasoningStarted(cv, e)
           item == Item("reasoning", 0, "in_progress", <<>>)
           old == Extended(cv, e.index, item)
           n == Len(old.output)
<1>1. DOMAIN old = ConvFields
    BY ItemIs, ExtendedIs, ConvFieldsOf
<1>2. /\ r.sse = <<Sse("added", n), Sse("part_added", n)>> /\ DOMAIN r.cv = ConvFields
      /\ r.cv.output = old.output /\ r.cv.at = old.at
      /\ r.cv.text = With(cv.text, e.index, <<>>)
    BY <1>1 DEF OnReasoningStarted, Result, ConvFields
<1>3. \A i \in DOMAIN r.cv.text : i \in DOMAIN cv.text \/ (i = e.index /\ Texts(e))
    BY <1>2 DEF Texts, With
<1>4. DOMAIN item = ItemFields /\ item.type = "reasoning"
    BY ItemIs
<1> HIDE DEF r, item
<1>5. /\ Follows(cv, e, r.cv)
      /\ n \in DOMAIN r.cv.output /\ n # 0 /\ r.cv.output[n] = item
    BY <1>2, <1>3, <1>4, FollowsExtended
<1> HIDE DEF old, n
<1>6. SaysOK(cv, e, r.cv, 1, 2, Sse("added", n))
    BY <1>4, <1>5 DEF SaysOK, Sse, Message
<1>7. HandlerOK(cv, e, r)
    BY <1>2, <1>5, <1>6, SaysTwo, SaysLittle
<1> QED BY <1>7 DEF r

LEMMA ToolStartedOK ==
    ASSUME NEW cv, ConvOK(cv), NEW e, e.type = "block_started"
    PROVE  HandlerOK(cv, e, OnToolStarted(cv, e))
<1> DEFINE r == OnToolStarted(cv, e)
<1>1. CASE e.block = "nested"
    <2>1. /\ r.sse = <<>> /\ DOMAIN r.cv = ConvFields
          /\ r.cv.output = cv.output /\ r.cv.at = cv.at /\ r.cv.text = cv.text
        BY <1>1, ConvFieldsOf DEF OnToolStarted, Result, ConvFields
    <2> HIDE DEF r
    <2> QED BY <2>1, FollowsAlone, SaysNone DEF r
<1>2. CASE e.block # "nested"
    <2> DEFINE item == Item("call", e.id, "in_progress", <<>>)
               old == Extended(cv, e.index, item)
               n == Len(old.output)
    <2>1. DOMAIN old = ConvFields /\ old.text = cv.text
        BY ItemIs, ExtendedIs, ConvFieldsOf
    <2>2. r.sse = <<Sse("added", n)>> /\ r.cv = old
        BY <1>2 DEF OnToolStarted, Result
    <2>3. DOMAIN item = ItemFields /\ item.type = "call"
        BY ItemIs
    <2> HIDE DEF r, item
    <2>4. /\ Follows(cv, e, r.cv)
          /\ n \in DOMAIN r.cv.output /\ n # 0 /\ r.cv.output[n] = item
        BY <2>1, <2>2, <2>3, FollowsExtended
    <2> HIDE DEF old, n
    <2>5. SaysOK(cv, e, r.cv, 1, 1, Sse("added", n))
        BY <2>3, <2>4 DEF SaysOK, Sse, Message
    <2> QED BY <2>2, <2>4, <2>5, SaysOne DEF r
<1> QED BY <1>1, <1>2

LEMMA ConvAlone ==
    \A cv, new : ConvOK(cv) /\ DOMAIN new = ConvFields /\ new.output = cv.output /\ new.at = cv.at
                    => ConvOK(new)
BY DEF ConvOK
LEMMA AtIs ==
    ASSUME NEW cv, ConvOK(cv), NEW i
    PROVE  /\ At(cv, i) # 0
           /\ i \in DOMAIN cv.at => At(cv, i) = cv.at[i] /\ At(cv, i) \in DOMAIN cv.output
<1>1. DOMAIN cv.output = 1..Len(cv.output) /\ Len(cv.output) \in Nat
    BY DomainOf DEF ConvOK
<1>2. \A j \in DOMAIN cv.at : cv.at[j] \in 1..Len(cv.output)
    BY <1>1 DEF ConvOK
<1> QED BY <1>1, <1>2 DEF At, Get

LEMMA TextDeltaOK ==
    ASSUME NEW cv, ConvOK(cv), NEW e, e.type = "text_delta"
    PROVE  HandlerOK(cv, e, OnTextDelta(cv, e))
<1> DEFINE i == e.index
           r == OnTextDelta(cv, e)
           grown == [cv EXCEPT !.text = With(cv.text, i, Get(cv.text, i, <<>>) \o e.data)]
           item == Item("message", 0, "in_progress", <<>>)
           opened == Extended(grown, i, item)
           n == Len(opened.output)
<1>1. /\ DOMAIN grown = ConvFields /\ grown.output = cv.output /\ grown.at = cv.at
      /\ grown.text = With(cv.text, i, Get(cv.text, i, <<>>) \o e.data)
    BY ConvFieldsOf DEF ConvFields
<1>2. CASE i \in cv.reasoning \/ i \in DOMAIN cv.at
    <2>1. r.cv = grown /\ r.sse = <<Sse("delta", At(cv, i))>>
        BY <1>2 DEF OnTextDelta, Result
    <2>2. At(cv, i) # 0
        BY AtIs
    <2> HIDE DEF r, grown
    <2>3. \A j \in DOMAIN r.cv.text : j \in DOMAIN cv.text \/ (j = e.index /\ Texts(e))
        BY <1>1, <2>1 DEF Texts, With
    <2>4. Follows(cv, e, r.cv)
        BY <1>1, <2>1, <2>3, FollowsAlone
    <2>5. HandlerOK(cv, e, r)
        BY <2>1, <2>2, <2>4, SaysOne, SaysLittle
    <2> QED BY <2>5 DEF r
<1>3. CASE ~(i \in cv.reasoning \/ i \in DOMAIN cv.at)
    <2>1. r.cv = opened /\ r.sse = <<Sse("added", n), Sse("part_added", n), Sse("delta", n)>>
        BY <1>3 DEF OnTextDelta, Result
    <2>2. DOMAIN item = ItemFields /\ item.type = "message"
        BY ItemIs
    <2>3. ConvOK(grown)
        BY <1>1, ConvAlone
    <2> HIDE DEF r, grown, item
    <2>4. DOMAIN opened = ConvFields /\ opened.text = grown.text
        BY <2>2, <2>3, ExtendedIs, ConvFieldsOf
    <2> HIDE DEF opened
    <2>5. \A j \in DOMAIN r.cv.text : j \in DOMAIN cv.text \/ (j = e.index /\ Texts(e))
        BY <1>1, <2>1, <2>4 DEF Texts, With
    <2>6. /\ Follows(cv, e, r.cv)
          /\ n \in DOMAIN r.cv.output /\ n # 0
        BY <1>1, <2>1, <2>2, <2>3, <2>4, <2>5, FollowsExtended DEF opened, Texts
    <2> HIDE DEF n
    <2>7. SaysOK(cv, e, r.cv, 1, 3, Sse("added", n))
        BY <2>6 DEF SaysOK, Sse, Message
    <2>8. HandlerOK(cv, e, r)
        BY <2>1, <2>6, <2>7, SaysThree, SaysLittle
    <2> QED BY <2>8 DEF r
<1> QED BY <1>2, <1>3

LEMMA NestedDeltaOK ==
    ASSUME NEW cv, ConvOK(cv), NEW e, e.index \in DOMAIN cv.nested
    PROVE  HandlerOK(cv, e, OnNestedDelta(cv, e))
<1> DEFINE i == e.index
           r == OnNestedDelta(cv, e)
           call == cv.nested[i]
           more == call.buf \o e.data
           known == [call EXCEPT !.buf = more, !.emitted = call.emitted \/ Extractable(more)]
           grown == [cv EXCEPT !.args = With(cv.args, i, Get(cv.args, i, <<>>) \o e.data),
                               !.nested = With(cv.nested, i, known)]
           item == Item("call", call.id, "in_progress", <<>>)
           opened == Extended(grown, i, item)
           n == Len(opened.output)
<1>1. /\ DOMAIN grown = ConvFields /\ grown.output = cv.output /\ grown.at = cv.at
      /\ grown.text = cv.text
    BY ConvFieldsOf DEF ConvFields
<1>2. At(cv, i) # 0
    BY AtIs
<1>3. ConvOK(grown) /\ Follows(cv, e, grown)
    <2> HIDE DEF grown
    <2> QED BY <1>1, ConvAlone, FollowsAlone
<1>4. CASE call.emitted
    <2>1. r.cv = grown /\ r.sse = <<Sse("delta", At(cv, i))>>
        BY <1>4 DEF OnNestedDelta, Result
    <2> HIDE DEF r, grown
    <2>2. HandlerOK(cv, e, r)
        BY <1>2, <1>3, <2>1, SaysOne, SaysLittle
    <2> QED BY <2>2 DEF r
<1>5. CASE ~call.emitted /\ Extractable(more)
    <2>1. r.cv = opened /\ r.sse = <<Sse("added", n), Sse("delta", n)>>
        BY <1>5 DEF OnNestedDelta, Result
    <2>2. DOMAIN item = ItemFields /\ item.type = "call"
        BY ItemIs
    <2> HIDE DEF r, grown, item
    <2>3. DOMAIN opened = ConvFields /\ opened.text = grown.text
        BY <1>3, <2>2, ExtendedIs, ConvFieldsOf
    <2>4. /\ Follows(cv, e, r.cv)
          /\ n \in DOMAIN r.cv.output /\ n # 0 /\ r.cv.output[n] = item
        <3> HIDE DEF opened
        <3> QED BY <1>1, <1>3, <2>1, <2>2, <2>3, FollowsExtended DEF opened
    <2> HIDE DEF n, opened
    <2>5. SaysOK(cv, e, r.cv, 1, 2, Sse("added", n))
        BY <2>2, <2>4 DEF SaysOK, Sse, Message
    <2>6. HandlerOK(cv, e, r)
        BY <2>1, <2>4, <2>5, SaysTwo, SaysLittle
    <2> QED BY <2>6 DEF r
<1>6. CASE ~call.emitted /\ ~Extractable(more)
    <2>1. r.cv = grown /\ r.sse = <<>>
        BY <1>6 DEF OnNestedDelta, Result
    <2> HIDE DEF r, grown
    <2>2. HandlerOK(cv, e, r)
        BY <1>3, <2>1, SaysNone
    <2> QED BY <2>2 DEF r
<1> QED BY <1>4, <1>5, <1>6

LEMMA ArgsDeltaOK ==
    ASSUME NEW cv, ConvOK(cv), NEW e
    PROVE  HandlerOK(cv, e, OnArgsDelta(cv, e))
<1> DEFINE i == e.index
           r == OnArgsDelta(cv, e)
           grown == [cv EXCEPT !.args = With(cv.args, i, Get(cv.args, i, <<>>) \o e.data)]
<1>1. CASE i \in DOMAIN cv.nested
    BY <1>1, NestedDeltaOK DEF OnArgsDelta
<1>2. CASE i \notin DOMAIN cv.nested
    <2>1. /\ DOMAIN grown = ConvFields /\ grown.output = cv.output /\ grown.at = cv.at
          /\ grown.text = cv.text
        BY ConvFieldsOf DEF ConvFields
    <2>2. r.cv = grown /\ r.sse = <<Sse("delta", At(cv, i))>>
        BY <1>2 DEF OnArgsDelta, Result
    <2>3. At(cv, i) # 0
        BY AtIs
    <2> HIDE DEF r, grown
    <2>4. Follows(cv, e, grown)
        BY <2>1, FollowsAlone
    <2>5. HandlerOK(cv, e, r)
        BY <2>2, <2>3, <2>4, SaysOne, SaysLittle
    <2> QED BY <2>5 DEF r
<1> QED BY <1>1, <1>2

LEMMA UnextractedDoneOK ==
    ASSUME NEW cv, ConvOK(cv), NEW e, e.type = "args_done"
    PROVE  HandlerOK(cv, e, OnUnextractedDone(cv, e))
<1> DEFINE r == OnUnextractedDone(cv, e)
           call == cv.nested[e.index]
           item == Item("call", call.id, "completed", IF call.buf = <<>> THEN e.data ELSE call.buf)
           old == Extended(cv, e.index, item)
           n == Len(old.output)
<1>1. DOMAIN old = ConvFields /\ old.text = cv.text
    BY ItemIs, ExtendedIs, ConvFieldsOf
<1>2. /\ r.sse = <<Sse("added", n), Sse("data_done", n), Sse("done", n)>>
      /\ DOMAIN r.cv = ConvFields
      /\ r.cv.output = old.output /\ r.cv.at = old.at /\ r.cv.text = cv.text
    BY <1>1 DEF OnUnextractedDone, Result, ConvFields
<1>3. DOMAIN item = ItemFields /\ item.type = "call"
    BY ItemIs
<1> HIDE DEF r, item
<1>4. /\ Follows(cv, e, r.cv)
      /\ n \in DOMAIN r.cv.output /\ n # 0 /\ r.cv.output[n] = item
    <2> HIDE DEF old
    <2> QED BY <1>1, <1>2, <1>3, FollowsExtended DEF old
<1> HIDE DEF n, old
<1>5. SaysOK(cv, e, r.cv, 1, 3, Sse("added", n)) /\ SaysOK(cv, e, r.cv, 3, 3, Sse("done", n))
    BY <1>3, <1>4 DEF SaysOK, Sse, Message
<1>6. HandlerOK(cv, e, r)
    BY <1>2, <1>4, <1>5, SaysThree, SaysLittle
<1> QED BY <1>6 DEF r

\* The two events that close a call.
LEMMA ClosingOK ==
    ASSUME NEW cv, NEW e, NEW r, Follows(cv, e, r.cv), r.sse = Closing(r.cv, e.index),
           e.type = "args_done" \/ (e.type = "block_done" /\ e.index \in DOMAIN cv.at),
           e.index \in DOMAIN cv.at => e.index \in DOMAIN r.cv.at
    PROVE  HandlerOK(cv, e, r)
<1> DEFINE i == e.index
           a == Sse("data_done", At(r.cv, i))
           b == IF At(r.cv, i) \in DOMAIN r.cv.output THEN Sse("done", At(r.cv, i))
                ELSE Sse("panic", 0)
<1>1. r.sse = <<a, b>>
    BY DEF Closing
<1>2. ConvOK(r.cv)
    BY DEF Follows
<1>3. At(r.cv, i) # 0 /\ (i \in DOMAIN r.cv.at => At(r.cv, i) = r.cv.at[i])
    BY <1>2, AtIs
<1>4. SaysOK(cv, e, r.cv, 1, 2, a)
    BY <1>3, SaysLittle
<1>5. SaysOK(cv, e, r.cv, 2, 2, b)
    <2>1. CASE At(r.cv, i) \in DOMAIN r.cv.output
        BY <1>3, <2>1 DEF SaysOK, Sse, Message, Touched
    <2>2. CASE At(r.cv, i) \notin DOMAIN r.cv.output
        BY <2>2 DEF SaysOK, Sse
    <2> QED BY <2>1, <2>2
<1> HIDE DEF a, b
<1> QED BY <1>1, <1>4, <1>5, SaysTwo

LEMMA ArgsDoneOK ==
    ASSUME NEW cv, ConvOK(cv), NEW e, e.type = "args_done"
    PROVE  HandlerOK(cv, e, OnArgsDone(cv, e))
<1> DEFINE i == e.index
           r == OnArgsDone(cv, e)
           data == IF e.data = <<>> THEN Get(cv.args, i, <<>>) ELSE e.data
           output == IF i \notin DOMAIN cv.at THEN cv.output
                     ELSE Completed(cv.output, cv.at[i], data)
           final == [cv EXCEPT !.nested = Without(cv.nested, i),
                               !.finalized = @ \cup {i}, !.output = output]
<1>1. CASE i \in cv.finalized
    <2>1. r.cv = cv /\ r.sse = <<>>
        BY <1>1 DEF OnArgsDone, Result
    <2> HIDE DEF r
    <2>2. Follows(cv, e, r.cv)
        BY <2>1, ConvFieldsOf, FollowsAlone
    <2> QED BY <2>1, <2>2, SaysNone DEF r
<1>2. CASE i \notin cv.finalized /\ i \in DOMAIN cv.nested /\ ~cv.nested[i].emitted
    BY <1>2, UnextractedDoneOK DEF OnArgsDone
<1>3. CASE i \notin cv.finalized /\ ~(i \in DOMAIN cv.nested /\ ~cv.nested[i].emitted)
    <2>1. r.cv = final /\ r.sse = Closing(final, i)
        BY <1>3 DEF OnArgsDone, Result
    <2>2. /\ DOMAIN final = ConvFields /\ final.output = output /\ final.at = cv.at
          /\ final.text = cv.text
        BY ConvFieldsOf DEF ConvFields
    <2> HIDE DEF r, final, data
    <2>3. Follows(cv, e, r.cv)
        <3>1. CASE i \in DOMAIN cv.at
            BY <2>1, <2>2, <3>1, FollowsWritten DEF Ends
        <3>2. CASE i \notin DOMAIN cv.at
            BY <2>1, <2>2, <3>2, FollowsAlone
        <3> QED BY <3>1, <3>2
    <2>4. HandlerOK(cv, e, r)
        BY <2>1, <2>2, <2>3, ClosingOK
    <2> QED BY <2>4 DEF r
<1> QED BY <1>1, <1>2, <1>3

LEMMA ReasoningDoneOK ==
    ASSUME NEW cv, ConvOK(cv), NEW e, e.type = "block_done"
    PROVE  HandlerOK(cv, e, OnReasoningDone(cv, e))
<1> DEFINE i == e.index
           r == OnReasoningDone(cv, e)
           data == Get(cv.text, i, <<>>)
           output == IF i \notin DOMAIN cv.at THEN cv.output
                     ELSE Completed(cv.output, cv.at[i], data)
<1>1. /\ DOMAIN r.cv = ConvFields /\ r.cv.output = output
      /\ r.cv.at = Without(cv.at, i) /\ r.cv.text = Without(cv.text, i)
      /\ r.sse = <<Sse("part_done", At(cv, i))>>
    BY ConvFieldsOf DEF OnReasoningDone, Result, ConvFields
<1>2. At(cv, i) # 0
    BY AtIs
<1> HIDE DEF r, data
<1>3. /\ DOMAIN r.cv.at \subseteq DOMAIN cv.at /\ \A j \in DOMAIN r.cv.at : r.cv.at[j] = cv.at[j]
      /\ DOMAIN r.cv.text \subseteq DOMAIN cv.text
    BY <1>1 DEF Without, Restrict
<1>4. Follows(cv, e, r.cv)
    <2>1. CASE i \in DOMAIN cv.at
        BY <1>1, <1>3, <2>1, FollowsWritten DEF Ends
    <2>2. CASE i \notin DOMAIN cv.at
        BY <1>1, <1>3, <2>2, FollowsAlone
    <2> QED BY <2>1, <2>2
<1>5. HandlerOK(cv, e, r)
    BY <1>1, <1>2, <1>4, SaysOne, SaysLittle
<1> QED BY <1>5 DEF r

LEMMA TextDoneOK ==
    ASSUME NEW cv, ConvOK(cv), NEW e, e.type = "block_done", e.index \in DOMAIN cv.text
    PROVE  HandlerOK(cv, e, OnTextDone(cv, e))
<1> DEFINE i == e.index
           r == OnTextDone(cv, e)
           new == Item("message", 0, "in_progress", <<>>)
           ensured == IF i \in DOMAIN cv.at THEN cv ELSE Extended(cv, i, new)
           n == ensured.at[i]
           item == ensured.output[n]
           data == IF item.type = "message" THEN cv.text[i] ELSE item.data
<1>1. DOMAIN new = ItemFields /\ new.type = "message"
    BY ItemIs
<1> HIDE DEF new
<1>2. /\ ConvOK(ensured) /\ i \in DOMAIN ensured.at /\ n \in DOMAIN ensured.output
      /\ n # 0 /\ ensured.text = cv.text
    <2>1. CASE i \in DOMAIN cv.at
        BY <2>1, AtIs
    <2>2. CASE i \notin DOMAIN cv.at
        BY <1>1, <2>2, ExtendedIs, DomainOf
    <2> QED BY <2>1, <2>2
<1>3. Follows(cv, e, ensured)
    <2>1. CASE i \in DOMAIN cv.at
        BY <2>1, ConvFieldsOf, FollowsAlone
    <2>2. CASE i \notin DOMAIN cv.at
        <3>1. ensured = Extended(cv, i, new)
            BY <2>2
        <3>2. DOMAIN ensured = ConvFields
            BY <1>2, ConvFieldsOf
        <3> HIDE DEF ensured
        <3> QED BY <1>1, <1>2, <3>1, <3>2, FollowsExtended
    <2> QED BY <2>1, <2>2
<1>4. /\ DOMAIN r.cv = ConvFields /\ r.cv.output = Completed(ensured.output, n, data)
      /\ r.cv.at = ensured.at /\ r.cv.text = Without(cv.text, i)
      /\ r.sse = <<Sse("data_done", n), Sse("part_done", n), Sse("done", n)>>
    <2>1. DOMAIN ensured = ConvFields
        BY <1>2, ConvFieldsOf
    <2>2. r = Result([ensured EXCEPT !.output = Completed(ensured.output, n, data),
                                     !.text = Without(cv.text, i)],
                     <<Sse("data_done", n), Sse("part_done", n), Sse("done", n)>>)
        BY DEF OnTextDone, new
    <2> HIDE DEF r, ensured, n, data
    <2> QED BY <2>1, <2>2 DEF Result, ConvFields
<1> HIDE DEF r, data
<1>5. DOMAIN r.cv.text \subseteq DOMAIN cv.text
    BY <1>4 DEF Without, Restrict
<1>6. Follows(ensured, e, r.cv) /\ DOMAIN r.cv.output = DOMAIN ensured.output
    <2> HIDE DEF ensured
    <2> QED BY <1>2, <1>4, <1>5, FollowsWritten DEF Ends
<1>7. Follows(cv, e, r.cv)
    <2>1. CASE i \in DOMAIN cv.at
        BY <1>6, <2>1
    <2>2. CASE i \notin DOMAIN cv.at
        <3>1. /\ DOMAIN ensured.output = DOMAIN cv.output \cup {n} /\ n \notin DOMAIN cv.output
              /\ \A m \in DOMAIN cv.output : ensured.output[m] = cv.output[m]
            BY <1>1, <2>2, ExtendedIs
        <3> HIDE DEF ensured
        <3>2. \A m \in DOMAIN cv.output : r.cv.output[m] = cv.output[m]
            BY <1>2, <1>6, <3>1 DEF Follows
        <3>3. \A j \in DOMAIN r.cv.at : \/ j \in DOMAIN cv.at /\ r.cv.at[j] = cv.at[j]
                                        \/ j = e.index /\ r.cv.at[j] \notin DOMAIN cv.output
            BY <1>3, <1>4 DEF Follows
        <3>4. \A j \in TextIn(r.cv) : j \in TextIn(cv) \/ (j = e.index /\ Texts(e))
            <4>1. \A j \in TextIn(r.cv) : j \in TextIn(ensured) \/ (j = e.index /\ Texts(e))
                BY <1>6 DEF Follows
            <4>2. \A j \in TextIn(ensured) : j \in TextIn(cv) \/ (j = e.index /\ Texts(e))
                BY <1>3 DEF Follows
            <4> QED BY <4>1, <4>2
        <3> QED BY <1>5, <1>6, <3>1, <3>2, <3>3, <3>4 DEF Follows
    <2> QED BY <2>1, <2>2
<1>8. SaysOK(cv, e, r.cv, 3, 3, Sse("done", n))
    <2> HIDE DEF ensured, n
    <2>1. n \in DOMAIN r.cv.output /\ i \in DOMAIN r.cv.at /\ r.cv.at[i] = n
        BY <1>2, <1>4, <1>6 DEF n
    <2> QED BY <1>2, <2>1 DEF SaysOK, Sse, Message, Touched
<1> HIDE DEF ensured, n
<1>9. HandlerOK(cv, e, r)
    BY <1>2, <1>4, <1>7, <1>8, SaysThree, SaysLittle
<1> QED BY <1>9 DEF r

LEMMA CallDoneOK ==
    ASSUME NEW cv, ConvOK(cv), NEW e, e.type = "block_done", e.index \in DOMAIN cv.at
    PROVE  HandlerOK(cv, e, OnCallDone(cv, e))
<1> DEFINE i == e.index
           r == OnCallDone(cv, e)
           n == cv.at[i]
           args == Get(cv.args, i, <<>>)
           data == IF args = <<>> THEN cv.output[n].data ELSE args
<1>1. /\ DOMAIN r.cv = ConvFields /\ r.cv.output = Completed(cv.output, n, data)
      /\ r.cv.at = cv.at /\ r.cv.text = cv.text /\ r.sse = Closing(cv, i)
    BY ConvFieldsOf DEF OnCallDone, Result, ConvFields
<1> HIDE DEF r, data
<1>2. Follows(cv, e, r.cv) /\ DOMAIN r.cv.output = DOMAIN cv.output
    BY <1>1, FollowsWritten DEF Ends
<1>3. r.sse = Closing(r.cv, i)
    BY <1>1, <1>2 DEF Closing, At
<1>4. HandlerOK(cv, e, r)
    BY <1>1, <1>2, <1>3, ClosingOK
<1> QED BY <1>4 DEF r

\* Every handler, and an event that has none.
LEMMA ConvertOK ==
    ASSUME NEW cv, ConvOK(cv), NEW e
    PROVE  /\ HandlerOK(cv, e, Convert(cv, e))
           /\ Inert(e) => Convert(cv, e).cv = cv
<1> DEFINE nothing == Result(cv, <<>>)
<1>1. nothing.cv = cv /\ nothing.sse = <<>>
    BY DEF Result
<1>2. HandlerOK(cv, e, nothing)
    <2> HIDE DEF nothing
    <2> QED BY <1>1, ConvFieldsOf, FollowsAlone, SaysNone
<1> HIDE DEF nothing
<1>3. CASE e.type \in Lifecycles
    <2>1. Convert(cv, e) = OnLifecycle(cv, e)
        BY <1>3 DEF Convert, Lifecycles
    <2> QED BY <1>3, <2>1, LifecycleOK DEF OnLifecycle, Result
<1>4. CASE e.type = "block_started"
    BY <1>2, <1>4, TextStartedOK, ReasoningStartedOK, ToolStartedOK
    DEF Convert, nothing, Inert, Changes
<1>5. CASE e.type = "text_delta"
    BY <1>5, TextDeltaOK DEF Convert, Inert, Changes
<1>6. CASE e.type = "args_delta"
    BY <1>6, ArgsDeltaOK DEF Convert, Inert, Changes
<1>7. CASE e.type = "args_done"
    BY <1>7, ArgsDoneOK DEF Convert, Inert, Changes
<1>8. CASE e.type = "block_done"
    <2>1. Convert(cv, e) = OnBlockDone(cv, e)
        BY <1>8 DEF Convert
    <2>2. HandlerOK(cv, e, OnBlockDone(cv, e))
        BY <1>2, <1>8, ReasoningDoneOK, TextDoneOK, CallDoneOK DEF OnBlockDone, nothing
    <2> QED BY <1>8, <2>1, <2>2 DEF Inert, Changes
<1>9. CASE e.type \notin Lifecycles \cup Changes
    <2>1. Convert(cv, e) = nothing
        BY <1>9 DEF Convert, Lifecycles, Changes, nothing
    <2> QED BY <1>1, <1>2, <2>1
<1> QED BY <1>3, <1>4, <1>5, <1>6, <1>7, <1>8, <1>9 DEF Changes

-----------------------------------------------------------------------------
\* What is in flight when an event is taken, dropped or sent.
Within(s, q) ==
    /\ IsSeq(s)
    /\ \E g \in [DOMAIN s -> DOMAIN q] :
          /\ \A k \in DOMAIN s : s[k] = q[g[k]]
          /\ \A j, k \in DOMAIN s : j < k => g[j] < g[k]
Taken(q, s) ==
    /\ IsSeq(s) /\ q # <<>> /\ Len(s) = Len(q) - 1
    /\ \A n \in DOMAIN s : s[n] = q[n + 1]
Grown(q, sent, s) ==
    /\ IsSeq(s) /\ Len(s) = Len(q) + Len(sent)
    /\ \A k \in DOMAIN q : s[k] = q[k]
    /\ \A k \in DOMAIN sent : s[Len(q) + k] = sent[k]

LEMMA JointIs ==
    ASSUME NEW s, IsSeq(s), NEW t, IsSeq(t)
    PROVE  LET q == Joint(s, t)
           IN  /\ IsSeq(q) /\ Len(q) = Len(s) + Len(t) /\ DOMAIN q = 1..(Len(s) + Len(t))
               /\ \A k \in DOMAIN s : q[k] = s[k]
               /\ \A k \in DOMAIN t : q[Len(s) + k] = t[k]
<1> DEFINE q == Joint(s, t)
           m == Len(s) + Len(t)
           S == {q[n] : n \in 1..m}
<1>1. /\ Len(s) \in Nat /\ Len(t) \in Nat /\ m \in Nat
      /\ DOMAIN s = 1..Len(s) /\ DOMAIN t = 1..Len(t)
    BY DomainOf
<1>2. q = [k \in 1..m |-> IF k <= Len(s) THEN s[k] ELSE t[k - Len(s)]]
    BY DEF Joint
<1> HIDE DEF q, m
<1>3. q \in [1..m -> S]
    BY <1>2
<1> HIDE DEF S
<1>4. q \in Seq(S)
    BY <1>1, <1>3, SeqDef
<1>5. IsSeq(q) /\ Len(q) = m /\ DOMAIN q = 1..m
    BY <1>1, <1>3, <1>4, IsSeqOf, LenProperties
<1>6. \A k \in DOMAIN s : q[k] = s[k]
    BY <1>1, <1>2 DEF m
<1>7. \A k \in DOMAIN t : q[Len(s) + k] = t[k]
    BY <1>1, <1>2 DEF m
<1> QED BY <1>5, <1>6, <1>7 DEF q, m

\* Two sequences of the same length and elements.
LEMMA SameSeq ==
    ASSUME NEW s, IsSeq(s), NEW t, IsSeq(t), Len(s) = Len(t), \A n \in 1..Len(s) : s[n] = t[n]
    PROVE  s = t
BY DEF IsSeq

LEMMA JointNothing ==
    ASSUME NEW s, IsSeq(s), NEW t, IsSeq(t), Len(t) = 0
    PROVE  Joint(s, t) = s
<1>1. Len(s) \in Nat /\ DOMAIN s = 1..Len(s)
    BY DomainOf
<1>2. /\ IsSeq(Joint(s, t)) /\ Len(Joint(s, t)) = Len(s) + Len(t)
      /\ \A k \in DOMAIN s : Joint(s, t)[k] = s[k]
    BY JointIs
<1>3. Len(Joint(s, t)) = Len(s)
    BY <1>1, <1>2
<1> QED BY <1>1, <1>2, <1>3, SameSeq
LEMMA JointNone == \A s, t : IsSeq(s) /\ t = <<>> => Joint(s, t) = s
BY JointNothing, NoneOf

LEMMA JointTaken ==
    ASSUME NEW s, IsSeq(s), s # <<>>, NEW t, IsSeq(t)
    PROVE  Taken(Joint(s, t), Joint(Tail(s), t)) /\ Joint(s, t)[1] = Head(s)
<1> DEFINE q == Joint(s, t)
           p == Joint(Tail(s), t)
<1>1. /\ Len(s) \in Nat \ {0} /\ Len(t) \in Nat
      /\ DOMAIN s = 1..Len(s) /\ DOMAIN t = 1..Len(t)
      /\ Head(s) = s[1] /\ IsSeq(Tail(s)) /\ Len(Tail(s)) = Len(s) - 1
      /\ \A n \in 1..(Len(s) - 1) : Tail(s)[n] = s[n + 1]
    BY DomainOf, TailOf
<1>2. /\ IsSeq(q) /\ Len(q) = Len(s) + Len(t)
      /\ \A k \in DOMAIN s : q[k] = s[k]
      /\ \A k \in DOMAIN t : q[Len(s) + k] = t[k]
    BY JointIs
<1>3. /\ IsSeq(p) /\ Len(p) = Len(s) - 1 + Len(t) /\ DOMAIN p = 1..(Len(s) - 1 + Len(t))
      /\ p = [k \in 1..(Len(s) - 1 + Len(t)) |->
                IF k <= Len(s) - 1 THEN Tail(s)[k] ELSE t[k - (Len(s) - 1)]]
    BY <1>1, JointIs DEF Joint
<1>4. q # <<>>
    BY <1>1, <1>2, DomainOf
<1> HIDE DEF q, p
<1>5. \A n \in DOMAIN p : p[n] = q[n + 1]
    <2> SUFFICES ASSUME NEW n \in DOMAIN p PROVE p[n] = q[n + 1]
        OBVIOUS
    <2>1. CASE n <= Len(s) - 1
        BY <1>1, <1>2, <1>3, <2>1
    <2>2. CASE ~(n <= Len(s) - 1)
        <3> DEFINE k == n - (Len(s) - 1)
        <3>1. k \in DOMAIN t /\ p[n] = t[k] /\ Len(s) + k = n + 1
            BY <1>1, <1>3, <2>2
        <3> QED BY <1>2, <3>1
    <2> QED BY <2>1, <2>2
<1>6. q[1] = Head(s)
    BY <1>1, <1>2
<1>7. Taken(q, p)
    BY <1>1, <1>2, <1>3, <1>4, <1>5 DEF Taken
<1> QED BY <1>6, <1>7 DEF q, p

LEMMA JointMoved ==
    ASSUME NEW s, IsSeq(s), NEW t, IsSeq(t), t # <<>>
    PROVE  Joint(Append(s, Head(t)), Tail(t)) = Joint(s, t)
<1> DEFINE a == Append(s, Head(t))
           b == Tail(t)
<1>1. /\ Len(s) \in Nat /\ Len(t) \in Nat \ {0}
      /\ DOMAIN s = 1..Len(s) /\ DOMAIN t = 1..Len(t)
      /\ Head(t) = t[1] /\ Len(b) = Len(t) - 1
      /\ \A n \in 1..(Len(t) - 1) : b[n] = t[n + 1]
    BY DomainOf, TailOf
<1>2. /\ Len(a) = Len(s) + 1 /\ a[Len(s) + 1] = Head(t)
      /\ \A n \in 1..Len(s) : a[n] = s[n]
    BY AppendOf
<1> HIDE DEF a, b
<1>3. \A k \in 1..(Len(s) + Len(t)) :
          (IF k <= Len(a) THEN a[k] ELSE b[k - Len(a)]) = (IF k <= Len(s) THEN s[k] ELSE t[k - Len(s)])
    <2> SUFFICES ASSUME NEW k \in 1..(Len(s) + Len(t))
                 PROVE  (IF k <= Len(a) THEN a[k] ELSE b[k - Len(a)])
                            = (IF k <= Len(s) THEN s[k] ELSE t[k - Len(s)])
        OBVIOUS
    <2>1. CASE k <= Len(s)
        BY <1>1, <1>2, <2>1
    <2>2. CASE k = Len(s) + 1
        BY <1>1, <1>2, <2>2
    <2>3. CASE k > Len(s) + 1
        <3>1. k - Len(a) \in 1..(Len(t) - 1) /\ (k - Len(a)) + 1 = k - Len(s)
            BY <1>1, <1>2, <2>3
        <3> QED BY <1>1, <1>2, <2>3, <3>1
    <2> QED BY <1>1, <2>1, <2>2, <2>3
<1>4. Len(a) + Len(b) = Len(s) + Len(t)
    BY <1>1, <1>2
<1>5. Joint(a, b) = Joint(s, t)
    BY <1>3, <1>4 DEF Joint
<1> QED BY <1>5 DEF a, b

LEMMA JointGrown ==
    ASSUME NEW s, IsSeq(s), NEW t, t = <<>>, NEW sent, IsSeq(sent)
    PROVE  Joint(s, t) = s /\ Grown(s, sent, Joint(s, sent))
BY JointNone, JointIs DEF Grown

\* The head of what is to be sent is dropped, or all of it.
LEMMA JointDropped ==
    ASSUME NEW s, IsSeq(s), NEW t, IsSeq(t), t # <<>>
    PROVE  Within(Joint(s, Tail(t)), Joint(s, t))
<1> DEFINE q == Joint(s, t)
           p == Joint(s, Tail(t))
           g == [k \in DOMAIN p |-> IF k <= Len(s) THEN k ELSE k + 1]
<1>1. /\ Len(s) \in Nat /\ Len(t) \in Nat \ {0}
      /\ DOMAIN s = 1..Len(s) /\ DOMAIN t = 1..Len(t)
      /\ IsSeq(Tail(t)) /\ Len(Tail(t)) = Len(t) - 1
      /\ \A n \in 1..(Len(t) - 1) : Tail(t)[n] = t[n + 1]
    BY DomainOf, TailOf
<1>2. /\ DOMAIN q = 1..(Len(s) + Len(t))
      /\ \A k \in DOMAIN s : q[k] = s[k]
      /\ \A k \in DOMAIN t : q[Len(s) + k] = t[k]
    BY JointIs
<1>3. /\ IsSeq(p) /\ DOMAIN p = 1..(Len(s) + Len(t) - 1)
      /\ p = [k \in 1..(Len(s) + (Len(t) - 1)) |-> IF k <= Len(s) THEN s[k] ELSE Tail(t)[k - Len(s)]]
    BY <1>1, JointIs DEF Joint
<1> HIDE DEF q, p
<1>4. g \in [DOMAIN p -> DOMAIN q]
    BY <1>1, <1>2, <1>3
<1>5. \A k \in DOMAIN p : p[k] = q[g[k]]
    <2> SUFFICES ASSUME NEW k \in DOMAIN p PROVE p[k] = q[g[k]]
        OBVIOUS
    <2>1. CASE k <= Len(s)
        BY <1>1, <1>2, <1>3, <2>1
    <2>2. CASE ~(k <= Len(s))
        <3> DEFINE m == k - Len(s)
        <3>1. /\ m \in 1..(Len(t) - 1) /\ m + 1 \in DOMAIN t
              /\ Len(s) + (m + 1) = k + 1 /\ p[k] = Tail(t)[m]
            BY <1>1, <1>3, <2>2
        <3> HIDE DEF m
        <3> QED BY <1>1, <1>2, <2>2, <3>1
    <2> QED BY <2>1, <2>2
<1>6. \A j, k \in DOMAIN p : j < k => g[j] < g[k]
    BY <1>1, <1>3
<1> HIDE DEF g
<1>7. Within(p, q)
    BY <1>3, <1>4, <1>5, <1>6 DEF Within
<1> QED BY <1>7 DEF p, q

LEMMA JointCleared ==
    ASSUME NEW s, IsSeq(s), NEW t, IsSeq(t), NEW none, none = <<>>
    PROVE  Within(Joint(s, none), Joint(s, t))
<1> DEFINE q == Joint(s, t)
           g == [k \in DOMAIN s |-> k]
<1>1. /\ Len(s) \in Nat /\ Len(t) \in Nat /\ DOMAIN s = 1..Len(s)
      /\ DOMAIN q = 1..(Len(s) + Len(t))
      /\ \A k \in DOMAIN s : q[k] = s[k]
    BY DomainOf, JointIs
<1> HIDE DEF q
<1>2. g \in [DOMAIN s -> DOMAIN q]
    BY <1>1
<1>3. /\ \A k \in DOMAIN s : s[k] = q[g[k]]
      /\ \A j, k \in DOMAIN s : j < k => g[j] < g[k]
    BY <1>1
<1> HIDE DEF g
<1>4. Within(s, q)
    BY <1>2, <1>3 DEF Within
<1> QED BY <1>4, JointNone DEF q

LEMMA WithinItself == ASSUME NEW q, IsSeq(q) PROVE Within(q, q)
<1> DEFINE g == [k \in DOMAIN q |-> k]
<1>1. /\ g \in [DOMAIN q -> DOMAIN q]
      /\ \A k \in DOMAIN q : q[k] = q[g[k]]
      /\ \A j, k \in DOMAIN q : j < k => g[j] < g[k]
    OBVIOUS
<1> HIDE DEF g
<1> QED BY <1>1 DEF Within

-----------------------------------------------------------------------------
\* Of fewer events in flight, and fewer ends to come, the same holds.
LEMMA FlowWithin ==
    ASSUME NEW q, IsSeq(q), NEW s, Within(s, q), NEW cv, NEW F, NEW G, G \subseteq F,
           Flow(q, cv, F)
    PROVE  Flow(s, cv, G)
<1>1. PICK g \in [DOMAIN s -> DOMAIN q] :
          /\ \A k \in DOMAIN s : s[k] = q[g[k]]
          /\ \A j, k \in DOMAIN s : j < k => g[j] < g[k]
    BY DEF Within
<1>2. IsSeq(s) /\ DOMAIN s = 1..Len(s) /\ Len(s) \in Nat
    BY DomainOf DEF Within
<1>3. EndedOnce(s, cv, G)
    BY <1>1 DEF Flow, EndedOnce
<1>4. TextsFirst(s, cv, G)
    <2> SUFFICES ASSUME NEW k \in DOMAIN s, s[k].type = "args_done"
                 PROVE  /\ \A i \in TextIn(cv) :
                              i \notin G /\ \A j \in DOMAIN s : j >= k /\ Ends(s[j]) => s[j].index # i
                        /\ \A l \in DOMAIN s : l < k /\ Texts(s[l]) =>
                              /\ s[l].index \notin G
                              /\ \A j \in DOMAIN s : j >= k /\ Ends(s[j]) => s[j].index # s[l].index
        BY DEF TextsFirst
    <2>1. g[k] \in DOMAIN q /\ q[g[k]].type = "args_done"
        BY <1>1
    <2>2. \A j \in DOMAIN s : g[j] \in DOMAIN q /\ g[j] \in Int /\ s[j] = q[g[j]]
        BY <1>1, DomainOf
    <2>3. \A j \in DOMAIN s : j >= k => j = k \/ g[k] < g[j]
        BY <1>1, <1>2
    <2>4. \A j \in DOMAIN s : j >= k => g[j] >= g[k]
        BY <2>2, <2>3
    <2>5. /\ \A i \in TextIn(cv) :
                i \notin F /\ \A j \in DOMAIN q : j >= g[k] /\ Ends(q[j]) => q[j].index # i
          /\ \A l \in DOMAIN q : l < g[k] /\ Texts(q[l]) =>
                /\ q[l].index \notin F
                /\ \A j \in DOMAIN q : j >= g[k] /\ Ends(q[j]) => q[j].index # q[l].index
        BY <2>1 DEF Flow, TextsFirst
    <2>6. \A l \in DOMAIN s : l < k => g[l] < g[k]
        BY <1>1
    <2> QED BY <2>2, <2>4, <2>5, <2>6
<1>5. WholeAtEnds(s, cv, G)
    BY <1>1 DEF Flow, WholeAtEnds
<1> QED BY <1>3, <1>4, <1>5 DEF Flow

LEMMA SaidWithin ==
    ASSUME NEW q, NEW s, Within(s, q), NEW cv, NEW F, NEW G, G \subseteq F,
           NEW pend, NEW event, SaidOK(pend, event, q, cv, F)
    PROVE  SaidOK(pend, event, s, cv, G)
<1>1. \A k \in DOMAIN s : \E m \in DOMAIN q : s[k] = q[m]
    BY DEF Within
<1>2. NoMoreEnds(q, F) => NoMoreEnds(s, G)
    BY <1>1 DEF NoMoreEnds
<1>3. \A n : Kept(n, q, cv, F) => Kept(n, s, cv, G)
    BY <1>1 DEF Kept
<1>4. \A e : SseOK(e, q, cv, F) => SseOK(e, s, cv, G)
    BY <1>2, <1>3 DEF SseOK
<1> QED BY <1>4 DEF SaidOK

\* The next event, converted.
LEMMA FlowTaken ==
    ASSUME NEW q, IsSeq(q), NEW s, Taken(q, s), NEW cv, NEW F, Flow(q, cv, F),
           NEW new, Follows(cv, q[1], new), Inert(q[1]) => new = cv
    PROVE  Flow(s, new, F)
<1> DEFINE e == q[1]
<1>1. /\ Len(q) \in Nat \ {0} /\ DOMAIN q = 1..Len(q) /\ DOMAIN s = 1..(Len(q) - 1)
      /\ \A n \in DOMAIN s : s[n] = q[n + 1] /\ n + 1 \in DOMAIN q /\ n + 1 > 1
      /\ 1 \in DOMAIN q
    BY DomainOf DEF Taken
<1>2. Touched(new) \subseteq Touched(cv) \cup {e.index}
    BY DEF Follows, Touched
<1>3. \A i \in TextIn(new) : i \in TextIn(cv) \/ (i = e.index /\ Texts(e))
    BY DEF Follows
<1>4. \A j, k \in DOMAIN s : /\ j < k => j + 1 < k + 1
                             /\ j > k => j + 1 > k + 1
                             /\ j >= k => j + 1 >= k + 1
    BY <1>1
<1>5. EndedOnce(s, new, F)
    <2> SUFFICES ASSUME NEW k \in DOMAIN s, s[k].type = "block_done"
                 PROVE  \/ s[k].index \notin F /\ \A j \in DOMAIN s : j > k /\ Ends(s[j]) => s[j].index # s[k].index
                        \/ s[k].index \notin Touched(new) /\ \A j \in DOMAIN s : j < k => s[j].index # s[k].index
        BY DEF EndedOnce
    <2>1. k + 1 \in DOMAIN q /\ q[k + 1] = s[k] /\ 1 < k + 1
        BY <1>1
    <2>2. \/ s[k].index \notin F /\ \A j \in DOMAIN q : j > k + 1 /\ Ends(q[j]) => q[j].index # s[k].index
          \/ s[k].index \notin Touched(cv) /\ \A j \in DOMAIN q : j < k + 1 => q[j].index # s[k].index
        BY <2>1 DEF Flow, EndedOnce
    <2> QED BY <1>1, <1>2, <1>4, <2>1, <2>2
<1>6. TextsFirst(s, new, F)
    <2> SUFFICES ASSUME NEW k \in DOMAIN s, s[k].type = "args_done"
                 PROVE  /\ \A i \in TextIn(new) :
                              i \notin F /\ \A j \in DOMAIN s : j >= k /\ Ends(s[j]) => s[j].index # i
                        /\ \A l \in DOMAIN s : l < k /\ Texts(s[l]) =>
                              /\ s[l].index \notin F
                              /\ \A j \in DOMAIN s : j >= k /\ Ends(s[j]) => s[j].index # s[l].index
        BY DEF TextsFirst
    <2>1. k + 1 \in DOMAIN q /\ q[k + 1] = s[k] /\ 1 < k + 1
        BY <1>1
    <2>2. /\ \A i \in TextIn(cv) :
                i \notin F /\ \A j \in DOMAIN q : j >= k + 1 /\ Ends(q[j]) => q[j].index # i
          /\ \A l \in DOMAIN q : l < k + 1 /\ Texts(q[l]) =>
                /\ q[l].index \notin F
                /\ \A j \in DOMAIN q : j >= k + 1 /\ Ends(q[j]) => q[j].index # q[l].index
        BY <2>1 DEF Flow, TextsFirst
    <2>3. \A i \in TextIn(new) :
              i \notin F /\ \A j \in DOMAIN q : j >= k + 1 /\ Ends(q[j]) => q[j].index # i
        BY <1>1, <1>3, <2>1, <2>2
    <2> QED BY <1>1, <1>4, <2>2, <2>3
<1>7. WholeAtEnds(s, new, F)
    <2> SUFFICES ASSUME NEW k \in DOMAIN s, s[k].type \in Lifecycles
                 PROVE  \/ F = {} /\ \A j \in DOMAIN s : j > k => ~Ends(s[j])
                        \/ new.output = <<>> /\ \A j \in DOMAIN s : j < k => Inert(s[j])
        BY DEF WholeAtEnds
    <2>1. k + 1 \in DOMAIN q /\ q[k + 1] = s[k] /\ 1 < k + 1
        BY <1>1
    <2>2. \/ F = {} /\ \A j \in DOMAIN q : j > k + 1 => ~Ends(q[j])
          \/ cv.output = <<>> /\ \A j \in DOMAIN q : j < k + 1 => Inert(q[j])
        BY <2>1 DEF Flow, WholeAtEnds
    <2> QED BY <1>1, <1>4, <2>1, <2>2
<1> QED BY <1>5, <1>6, <1>7 DEF Flow

\* No more of what was kept is written to.
LEMMA SaidKept ==
    ASSUME NEW q, IsSeq(q), NEW s, Taken(q, s), NEW cv, NEW F,
           NEW new, Follows(cv, q[1], new), NEW e, SseOK(e, q, cv, F)
    PROVE  /\ SseOK(e, s, new, F)
           /\ e.item # 0 /\ e.kind \in {"added", "done"} => (Message(e, new) <=> Message(e, cv))
<1>1. \A k \in DOMAIN s : \E m \in DOMAIN q : s[k] = q[m]
    BY DomainOf DEF Taken
<1>2. NoMoreEnds(q, F) => NoMoreEnds(s, F)
    BY <1>1 DEF NoMoreEnds
<1>3. DOMAIN cv.output \subseteq DOMAIN new.output
      /\ \A n \in DOMAIN cv.output : new.output[n].type = cv.output[n].type
    BY DEF Follows
<1>4. \A n \in DOMAIN cv.output : Kept(n, q, cv, F) => Kept(n, s, new, F)
    <2> SUFFICES ASSUME NEW n \in DOMAIN cv.output, Kept(n, q, cv, F),
                        NEW i \in DOMAIN new.at, new.at[i] = n
                 PROVE  i \notin F /\ \A k \in DOMAIN s : Ends(s[k]) => s[k].index # i
        BY DEF Kept
    <2>1. i \in DOMAIN cv.at /\ cv.at[i] = n
        BY DEF Follows
    <2> QED BY <1>1, <2>1 DEF Kept
<1>5. e.item # 0 /\ e.kind \in {"added", "done"} => (Message(e, new) <=> Message(e, cv))
    BY <1>3 DEF SseOK, Message
<1>6. SseOK(e, s, new, F)
    <2>1. CASE e.item = 0
        BY <1>2, <1>3, <2>1 DEF SseOK, Message
    <2>2. CASE e.item # 0 /\ e.kind \in {"added", "done"}
        <3>1. e.item \in DOMAIN cv.output
            BY <2>2 DEF SseOK
        <3> QED BY <1>3, <1>4, <1>5, <2>2, <3>1 DEF SseOK
    <2>3. CASE e.item # 0 /\ e.kind \notin {"added", "done"}
        BY <2>3 DEF SseOK
    <2> QED BY <2>1, <2>2, <2>3
<1> QED BY <1>5, <1>6

LEMMA SaidTaken ==
    ASSUME NEW q, IsSeq(q), NEW s, Taken(q, s), NEW cv, NEW F, Flow(q, cv, F),
           NEW r, HandlerOK(cv, q[1], r),
           NEW pend, pend = <<>>, NEW event, SaidOK(pend, event, q, cv, F)
    PROVE  SaidOK(r.sse, event, s, r.cv, F)
<1> DEFINE e == q[1]
           new == r.cv
<1>1. /\ Len(q) \in Nat \ {0} /\ DOMAIN q = 1..Len(q) /\ DOMAIN s = 1..(Len(q) - 1)
      /\ \A n \in DOMAIN s : s[n] = q[n + 1] /\ n + 1 \in DOMAIN q /\ n + 1 > 1
      /\ 1 \in DOMAIN q
    BY DomainOf DEF Taken
<1>2. Follows(cv, e, new)
    BY DEF HandlerOK
<1>3. event # NoEvent => /\ SseOK(event, s, new, F)
                         /\ event.kind = "added" => ~Message(event, new)
    <2> SUFFICES ASSUME event # NoEvent
                 PROVE  SseOK(event, s, new, F) /\ (event.kind = "added" => ~Message(event, new))
        OBVIOUS
    <2>1. SseOK(event, q, cv, F) /\ (event.kind = "added" => ~Message(event, cv))
        BY DEF SaidOK
    <2>2. /\ SseOK(event, s, new, F)
          /\ event.item # 0 /\ event.kind = "added" => (Message(event, new) <=> Message(event, cv))
        BY <1>2, <2>1, SaidKept
    <2> QED BY <2>1, <2>2 DEF Message
<1>4. ASSUME NEW k \in DOMAIN r.sse
      PROVE  /\ SseOK(r.sse[k], s, new, F)
             /\ r.sse[k].kind = "added" /\ Message(r.sse[k], new) => k < Len(r.sse)
    <2> DEFINE m == r.sse[k]
    <2>1. SaysOK(cv, e, new, k, Len(r.sse), m)
        BY <1>4 DEF HandlerOK
    <2> HIDE DEF m
    <2>2. m.item = 0 => m.output = <<>> \/ (NoMoreEnds(s, F) /\ DOMAIN m.output \subseteq DOMAIN new.output)
        <3> SUFFICES ASSUME m.item = 0, m.output # <<>>
                     PROVE  NoMoreEnds(s, F) /\ DOMAIN m.output \subseteq DOMAIN new.output
            OBVIOUS
        <3>1. e.type \in Lifecycles /\ m.output = cv.output
            BY <2>1 DEF SaysOK
        <3>2. F = {} /\ \A j \in DOMAIN q : j > 1 => ~Ends(q[j])
            BY <1>1, <3>1 DEF Flow, WholeAtEnds
        <3> QED BY <1>1, <1>2, <3>1, <3>2 DEF NoMoreEnds, Follows
    <2>3. m.item # 0 /\ m.kind = "done" /\ Message(m, new) => Kept(m.item, s, new, F)
        <3> SUFFICES ASSUME m.item # 0, m.kind = "done", Message(m, new),
                            NEW i \in DOMAIN new.at, new.at[i] = m.item
                     PROVE  i \notin F /\ \A j \in DOMAIN s : Ends(s[j]) => s[j].index # i
            BY DEF Kept
        <3>1. i \in TextIn(new)
            BY DEF Message, TextIn
        <3>2. CASE e.type = "args_done"
            <4>1. i \in TextIn(cv)
                BY <1>2, <3>1, <3>2 DEF Follows, Texts
            <4>2. i \notin F /\ \A j \in DOMAIN q : j >= 1 /\ Ends(q[j]) => q[j].index # i
                BY <1>1, <3>2, <4>1 DEF Flow, TextsFirst
            <4> QED BY <1>1, <4>2
        <3>3. CASE e.type = "block_done" /\ e.index \in Touched(cv)
                   /\ e.index \in DOMAIN new.at /\ new.at[e.index] = m.item
            <4>1. i = e.index
                BY <1>2, <3>3 DEF Follows, ConvOK
            <4>2. i \notin F /\ \A j \in DOMAIN q : j > 1 /\ Ends(q[j]) => q[j].index # i
                BY <1>1, <3>3, <4>1 DEF Flow, EndedOnce
            <4> QED BY <1>1, <4>2
        <3> QED BY <2>1, <3>2, <3>3 DEF SaysOK
    <2>4. /\ m.item # 0 /\ m.kind \in {"added", "done"} => m.item \in DOMAIN new.output
          /\ m.kind = "added" /\ Message(m, new) => k < Len(r.sse)
        BY <2>1 DEF SaysOK
    <2>5. SseOK(m, s, new, F)
        BY <2>2, <2>3, <2>4 DEF SseOK, Message
    <2> QED BY <2>4, <2>5 DEF m
<1>5. IsSeq(r.sse)
    BY DEF HandlerOK
<1> QED BY <1>3, <1>4, <1>5 DEF SaidOK

\* What may be sent: the ends that were to come, and an index that is ended
\* is ended for good or new, calls after all texts, and a whole response
\* before all items or after all ends.
Clear(i, k, sent, G) ==
    i \notin G /\ \A j \in DOMAIN sent : j >= k /\ Ends(sent[j]) => sent[j].index # i
EndsFresh(sent, q, cv, G) ==
    \A k \in DOMAIN sent : sent[k].type = "block_done" =>
        \/ /\ sent[k].index \notin G
           /\ \A j \in DOMAIN sent : j > k /\ Ends(sent[j]) => sent[j].index # sent[k].index
        \/ /\ sent[k].index \notin Touched(cv)
           /\ \A j \in DOMAIN q : q[j].index # sent[k].index
           /\ \A j \in DOMAIN sent : j < k => sent[j].index # sent[k].index
CallsLast(sent, q, cv, G) ==
    \A k \in DOMAIN sent : sent[k].type = "args_done" =>
        /\ \A i \in TextIn(cv) : Clear(i, k, sent, G)
        /\ \A l \in DOMAIN q : Texts(q[l]) => Clear(q[l].index, k, sent, G)
        /\ \A l \in DOMAIN sent : l < k /\ Texts(sent[l]) => Clear(sent[l].index, k, sent, G)
WholeFresh(sent, q, cv, G) ==
    \A k \in DOMAIN sent : sent[k].type \in Lifecycles =>
        \/ G = {} /\ \A j \in DOMAIN sent : j > k => ~Ends(sent[j])
        \/ /\ cv.output = <<>>
           /\ \A j \in DOMAIN q : Inert(q[j])
           /\ \A j \in DOMAIN sent : j < k => Inert(sent[j])
Fresh(sent, q, cv, F, G) ==
    /\ IsSeq(sent)
    /\ G \subseteq F
    /\ \A k \in DOMAIN sent : Ends(sent[k]) => sent[k].index \in F
    /\ EndsFresh(sent, q, cv, G) /\ CallsLast(sent, q, cv, G) /\ WholeFresh(sent, q, cv, G)

LEMMA GrownIs ==
    ASSUME NEW q, IsSeq(q), NEW sent, IsSeq(sent), NEW s, Grown(q, sent, s)
    PROVE  /\ \A k \in DOMAIN q : k \in DOMAIN s /\ k \in Int /\ k <= Len(q) /\ s[k] = q[k]
           /\ \A m \in DOMAIN sent : /\ m \in Int /\ Len(q) + m \in DOMAIN s
                                     /\ s[Len(q) + m] = sent[m]
           /\ \A k \in DOMAIN s : \/ k \in DOMAIN q
                                  \/ \E m \in DOMAIN sent : m \in Int /\ k = Len(q) + m
           /\ Len(q) \in Nat
           /\ \A m \in DOMAIN sent : m > 0
<1>1. /\ DOMAIN q = 1..Len(q) /\ DOMAIN sent = 1..Len(sent)
      /\ Len(q) \in Nat /\ Len(sent) \in Nat /\ DOMAIN s = 1..(Len(q) + Len(sent))
    BY DomainOf DEF Grown
<1>2. \A k \in DOMAIN s : k \notin DOMAIN q => k - Len(q) \in DOMAIN sent /\ k = Len(q) + (k - Len(q))
    BY <1>1
<1> QED BY <1>1, <1>2 DEF Grown

LEMMA FlowGrown ==
    ASSUME NEW q, IsSeq(q), NEW sent, NEW s, Grown(q, sent, s), NEW cv, NEW F, NEW G,
           Flow(q, cv, F), Fresh(sent, q, cv, F, G)
    PROVE  Flow(s, cv, G)
<1> DEFINE n == Len(q)
<1>1. /\ \A k \in DOMAIN q : k \in DOMAIN s /\ k \in Int /\ k <= n /\ s[k] = q[k]
      /\ \A m \in DOMAIN sent : m \in Int /\ m > 0 /\ n + m \in DOMAIN s /\ s[n + m] = sent[m]
      /\ \A k \in DOMAIN s : k \in DOMAIN q \/ \E m \in DOMAIN sent : m \in Int /\ k = n + m
      /\ n \in Nat
    BY GrownIs DEF Fresh
<1> HIDE DEF n
<1>2. G \subseteq F /\ \A m \in DOMAIN sent : Ends(sent[m]) => sent[m].index \in F
    BY DEF Fresh
<1>3. EndedOnce(s, cv, G)
    <2> SUFFICES ASSUME NEW k \in DOMAIN s, s[k].type = "block_done"
                 PROVE  \/ s[k].index \notin G /\ \A j \in DOMAIN s : j > k /\ Ends(s[j]) => s[j].index # s[k].index
                        \/ s[k].index \notin Touched(cv) /\ \A j \in DOMAIN s : j < k => s[j].index # s[k].index
        BY DEF EndedOnce
    <2>1. CASE k \in DOMAIN q
        <3>1. \/ q[k].index \notin F /\ \A j \in DOMAIN q : j > k /\ Ends(q[j]) => q[j].index # q[k].index
              \/ q[k].index \notin Touched(cv) /\ \A j \in DOMAIN q : j < k => q[j].index # q[k].index
            BY <1>1, <2>1 DEF Flow, EndedOnce
        <3>2. CASE q[k].index \notin F /\ \A j \in DOMAIN q : j > k /\ Ends(q[j]) => q[j].index # q[k].index
            <4>1. \A j \in DOMAIN s : j > k /\ Ends(s[j]) => s[j].index # q[k].index
                <5> SUFFICES ASSUME NEW j \in DOMAIN s, j > k, Ends(s[j]) PROVE s[j].index # q[k].index
                    OBVIOUS
                <5>1. CASE j \in DOMAIN q
                    BY <1>1, <3>2, <5>1
                <5>2. CASE \E m \in DOMAIN sent : m \in Int /\ j = n + m
                    BY <1>1, <1>2, <3>2, <5>2
                <5> QED BY <1>1, <5>1, <5>2
            <4> QED BY <1>1, <1>2, <2>1, <3>2, <4>1
        <3>3. CASE q[k].index \notin Touched(cv) /\ \A j \in DOMAIN q : j < k => q[j].index # q[k].index
            <4>1. \A j \in DOMAIN s : j < k => j \in DOMAIN q
                BY <1>1, <2>1
            <4> QED BY <1>1, <2>1, <3>3, <4>1
        <3> QED BY <3>1, <3>2, <3>3
    <2>2. CASE \E m \in DOMAIN sent : m \in Int /\ k = n + m
        <3>1. PICK m \in DOMAIN sent : m \in Int /\ k = n + m
            BY <2>2
        <3>2. s[k] = sent[m]
            BY <1>1, <3>1
        <3>3. \A j \in DOMAIN s : j > k => \E l \in DOMAIN sent : l > m /\ s[j] = sent[l]
            BY <1>1, <3>1
        <3>4. \A j \in DOMAIN s : j < k => \/ j \in DOMAIN q /\ s[j] = q[j]
                                           \/ \E l \in DOMAIN sent : l < m /\ s[j] = sent[l]
            BY <1>1, <3>1
        <3>5. \/ /\ sent[m].index \notin G
                 /\ \A j \in DOMAIN sent : j > m /\ Ends(sent[j]) => sent[j].index # sent[m].index
              \/ /\ sent[m].index \notin Touched(cv)
                 /\ \A j \in DOMAIN q : q[j].index # sent[m].index
                 /\ \A j \in DOMAIN sent : j < m => sent[j].index # sent[m].index
            BY <3>2 DEF Fresh, EndsFresh
        <3> QED BY <3>2, <3>3, <3>4, <3>5
    <2> QED BY <1>1, <2>1, <2>2
<1>4. TextsFirst(s, cv, G)
    <2> SUFFICES ASSUME NEW k \in DOMAIN s, s[k].type = "args_done",
                        NEW i, i \in TextIn(cv) \/ \E l \in DOMAIN s : l < k /\ Texts(s[l]) /\ i = s[l].index
                 PROVE  i \notin G /\ \A j \in DOMAIN s : j >= k /\ Ends(s[j]) => s[j].index # i
        BY DEF TextsFirst
    <2>1. CASE k \in DOMAIN q
        <3>1. \A l \in DOMAIN s : l < k => l \in DOMAIN q /\ s[l] = q[l]
            BY <1>1, <2>1
        <3>2. i \notin F /\ \A j \in DOMAIN q : j >= k /\ Ends(q[j]) => q[j].index # i
            BY <1>1, <2>1, <3>1 DEF Flow, TextsFirst
        <3>3. \A j \in DOMAIN s : j >= k /\ Ends(s[j]) => s[j].index # i
            <4> SUFFICES ASSUME NEW j \in DOMAIN s, j >= k, Ends(s[j]) PROVE s[j].index # i
                OBVIOUS
            <4>1. CASE j \in DOMAIN q
                BY <1>1, <3>2, <4>1
            <4>2. CASE \E m \in DOMAIN sent : m \in Int /\ j = n + m
                BY <1>1, <1>2, <3>2, <4>2
            <4> QED BY <1>1, <4>1, <4>2
        <3> QED BY <1>2, <3>2, <3>3
    <2>2. CASE \E m \in DOMAIN sent : m \in Int /\ k = n + m
        <3>1. PICK m \in DOMAIN sent : m \in Int /\ k = n + m
            BY <2>2
        <3>2. s[k] = sent[m]
            BY <1>1, <3>1
        <3>3. \A j \in DOMAIN s : j >= k => \E l \in DOMAIN sent : l >= m /\ s[j] = sent[l]
            BY <1>1, <3>1
        <3>4. \A j \in DOMAIN s : j < k => \/ j \in DOMAIN q /\ s[j] = q[j]
                                           \/ \E l \in DOMAIN sent : l < m /\ s[j] = sent[l]
            BY <1>1, <3>1
        <3>5. Clear(i, m, sent, G)
            BY <3>2, <3>4 DEF Fresh, CallsLast
        <3> QED BY <3>3, <3>5 DEF Clear
    <2> QED BY <1>1, <2>1, <2>2
<1>5. WholeAtEnds(s, cv, G)
    <2> SUFFICES ASSUME NEW k \in DOMAIN s, s[k].type \in Lifecycles
                 PROVE  \/ G = {} /\ \A j \in DOMAIN s : j > k => ~Ends(s[j])
                        \/ cv.output = <<>> /\ \A j \in DOMAIN s : j < k => Inert(s[j])
        BY DEF WholeAtEnds
    <2>1. CASE k \in DOMAIN q
        <3>1. \/ F = {} /\ \A j \in DOMAIN q : j > k => ~Ends(q[j])
              \/ cv.output = <<>> /\ \A j \in DOMAIN q : j < k => Inert(q[j])
            BY <1>1, <2>1 DEF Flow, WholeAtEnds
        <3>2. CASE F = {} /\ \A j \in DOMAIN q : j > k => ~Ends(q[j])
            <4>1. \A j \in DOMAIN s : j > k => ~Ends(s[j])
                <5> SUFFICES ASSUME NEW j \in DOMAIN s, j > k PROVE ~Ends(s[j])
                    OBVIOUS
                <5>1. CASE j \in DOMAIN q
                    BY <1>1, <3>2, <5>1
                <5>2. CASE \E m \in DOMAIN sent : m \in Int /\ j = n + m
                    BY <1>1, <1>2, <3>2, <5>2
                <5> QED BY <1>1, <5>1, <5>2
            <4> QED BY <1>2, <3>2, <4>1
        <3>3. CASE cv.output = <<>> /\ \A j \in DOMAIN q : j < k => Inert(q[j])
            <4>1. \A j \in DOMAIN s : j < k => j \in DOMAIN q /\ s[j] = q[j]
                BY <1>1, <2>1
            <4> QED BY <3>3, <4>1
        <3> QED BY <3>1, <3>2, <3>3
    <2>2. CASE \E m \in DOMAIN sent : m \in Int /\ k = n + m
        <3>1. PICK m \in DOMAIN sent : m \in Int /\ k = n + m
            BY <2>2
        <3>2. s[k] = sent[m]
            BY <1>1, <3>1
        <3>3. \A j \in DOMAIN s : j > k => \E l \in DOMAIN sent : l > m /\ s[j] = sent[l]
            BY <1>1, <3>1
        <3>4. \A j \in DOMAIN s : j < k => \/ j \in DOMAIN q /\ s[j] = q[j]
                                           \/ \E l \in DOMAIN sent : l < m /\ s[j] = sent[l]
            BY <1>1, <3>1
        <3>5. \/ G = {} /\ \A j \in DOMAIN sent : j > m => ~Ends(sent[j])
              \/ /\ cv.output = <<>>
                 /\ \A j \in DOMAIN q : Inert(q[j])
                 /\ \A j \in DOMAIN sent : j < m => Inert(sent[j])
            BY <3>2 DEF Fresh, WholeFresh
        <3> QED BY <3>3, <3>4, <3>5
    <2> QED BY <1>1, <2>1, <2>2
<1> QED BY <1>3, <1>4, <1>5 DEF Flow

LEMMA SaidGrown ==
    ASSUME NEW q, IsSeq(q), NEW sent, NEW s, Grown(q, sent, s), NEW cv, NEW F, NEW G,
           Fresh(sent, q, cv, F, G),
           NEW pend, NEW event, SaidOK(pend, event, q, cv, F)
    PROVE  SaidOK(pend, event, s, cv, G)
<1>1. \A k \in DOMAIN s : \/ \E m \in DOMAIN q : s[k] = q[m]
                          \/ \E m \in DOMAIN sent : s[k] = sent[m]
    BY GrownIs DEF Fresh
<1>2. G \subseteq F /\ \A m \in DOMAIN sent : Ends(sent[m]) => sent[m].index \in F
    BY DEF Fresh
<1>3. NoMoreEnds(q, F) => NoMoreEnds(s, G)
    BY <1>1, <1>2 DEF NoMoreEnds
<1>4. \A n : Kept(n, q, cv, F) => Kept(n, s, cv, G)
    BY <1>1, <1>2 DEF Kept
<1>5. \A e : SseOK(e, q, cv, F) => SseOK(e, s, cv, G)
    BY <1>3, <1>4 DEF SseOK
<1> QED BY <1>5 DEF SaidOK

\* The event that is written, and the next that is converted.
LEMMA NotTorn ==
    ASSUME NEW q, q # <<>>, IsSeq(q), NEW cv, NEW F, NEW new, Follows(cv, q[1], new),
           NEW pend, pend = <<>>, NEW event, event # NoEvent, SaidOK(pend, event, q, cv, F)
    PROVE  ~Tears(event, cv, new)
<1>1. 1 \in DOMAIN q
    BY DomainOf
<1>2. SseOK(event, q, cv, F) /\ (event.kind = "added" => ~Message(event, cv))
    BY DEF SaidOK
<1>3. \A n \in DOMAIN cv.output :
          new.output[n] # cv.output[n] =>
              Ends(q[1]) /\ q[1].index \in DOMAIN cv.at /\ cv.at[q[1].index] = n
    BY DEF Follows
<1>4. CASE event.item = 0
    <2>1. event.output = <<>> \/ (~Ends(q[1]) /\ DOMAIN event.output \subseteq DOMAIN cv.output)
        BY <1>1, <1>2, <1>4 DEF SseOK, NoMoreEnds
    <2>2. event.output = <<>> => DOMAIN event.output = {}
        BY DomainOf, NoneOf
    <2> QED BY <1>3, <1>4, <2>1, <2>2 DEF Tears
<1>5. CASE event.item # 0
    <2> SUFFICES ASSUME event.kind \in {"added", "done"}, cv.output[event.item].type = "message"
                 PROVE  new.output[event.item].data = cv.output[event.item].data
        BY <1>5 DEF Tears
    <2>1. event.item \in DOMAIN cv.output /\ Kept(event.item, q, cv, F)
        BY <1>2, <1>5 DEF SseOK, Message
    <2> QED BY <1>1, <1>3, <2>1 DEF Kept
<1> QED BY <1>4, <1>5

-----------------------------------------------------------------------------
\* What the adapters send.
LEMMA EventIs ==
    /\ \A i, b, id : /\ BlockStarted(i, b, id).type = "block_started"
                     /\ BlockStarted(i, b, id).index = i /\ BlockStarted(i, b, id).block = b
    /\ \A i, d : TextDelta(i, d).type = "text_delta" /\ TextDelta(i, d).index = i
    /\ \A i, d : ArgsDelta(i, d).type = "args_delta" /\ ArgsDelta(i, d).index = i
    /\ \A i, d : ArgsDone(i, d).type = "args_done" /\ ArgsDone(i, d).index = i
    /\ \A i : BlockDone(i).type = "block_done" /\ BlockDone(i).index = i
    /\ \A t : Lifecycle(t).type = t /\ Lifecycle(t).index = 0
BY DEF BlockStarted, TextDelta, ArgsDelta, ArgsDone, BlockDone, Lifecycle, CoreEvent

LEMMA ConcatIs ==
    ASSUME NEW s, IsSeq(s), NEW t, IsSeq(t)
    PROVE  /\ IsSeq(s \o t) /\ s \o t = Joint(s, t)
           /\ ToSet(s \o t) = ToSet(s) \cup ToSet(t)
<1>1. PICK A : s \in Seq(A)
    BY SeqOver
<1>2. PICK B : t \in Seq(B)
    BY SeqOver
<1>3. s \in Seq(A \cup B) /\ t \in Seq(A \cup B)
    <2>1. s \in [1..Len(s) -> A] /\ Len(s) \in Nat /\ t \in [1..Len(t) -> B] /\ Len(t) \in Nat
        BY <1>1, <1>2, LenProperties
    <2>2. s \in [1..Len(s) -> A \cup B] /\ t \in [1..Len(t) -> A \cup B]
        BY <2>1
    <2> QED BY <2>1, <2>2, SeqDef
<1>4. /\ s \o t \in Seq(A \cup B)
      /\ Len(s \o t) = Len(s) + Len(t)
      /\ \A i \in 1..(Len(s) + Len(t)) : (s \o t)[i] = IF i <= Len(s) THEN s[i] ELSE t[i - Len(s)]
    BY <1>3, ConcatProperties
<1>5. IsSeq(s \o t)
    BY <1>4, IsSeqOf
<1>6. s \o t = Joint(s, t)
    BY <1>4, <1>5 DEF IsSeq, Joint
<1>7. /\ Len(s) \in Nat /\ Len(t) \in Nat /\ DOMAIN s = 1..Len(s) /\ DOMAIN t = 1..Len(t)
      /\ DOMAIN Joint(s, t) = 1..(Len(s) + Len(t))
      /\ \A k \in DOMAIN s : Joint(s, t)[k] = s[k]
      /\ \A k \in DOMAIN t : Joint(s, t)[Len(s) + k] = t[k]
    <2>1. /\ DOMAIN Joint(s, t) = 1..(Len(s) + Len(t))
          /\ \A k \in DOMAIN s : Joint(s, t)[k] = s[k]
          /\ \A k \in DOMAIN t : Joint(s, t)[Len(s) + k] = t[k]
        BY JointIs
    <2> QED BY <2>1, DomainOf
<1>8. ToSet(Joint(s, t)) = ToSet(s) \cup ToSet(t)
    <2>1. ASSUME NEW k \in DOMAIN Joint(s, t) PROVE Joint(s, t)[k] \in ToSet(s) \cup ToSet(t)
        <3>1. CASE k \in DOMAIN s
            BY <1>7, <3>1 DEF ToSet
        <3>2. CASE k \notin DOMAIN s
            <4> DEFINE m == k - Len(s)
            <4>1. m \in DOMAIN t /\ k = Len(s) + m
                BY <1>7, <3>2
            <4> HIDE DEF m
            <4> QED BY <1>7, <4>1 DEF ToSet
        <3> QED BY <3>1, <3>2
    <2>2. ASSUME NEW k \in DOMAIN s PROVE s[k] \in ToSet(Joint(s, t))
        BY <1>7 DEF ToSet
    <2>3. ASSUME NEW k \in DOMAIN t PROVE t[k] \in ToSet(Joint(s, t))
        <3>1. Len(s) + k \in DOMAIN Joint(s, t)
            BY <1>7
        <3> QED BY <1>7, <3>1 DEF ToSet
    <2> QED BY <2>1, <2>2, <2>3 DEF ToSet
<1> QED BY <1>5, <1>6, <1>8

LEMMA ShortSets ==
    /\ \A s : s = <<>> => IsSeq(s) /\ ToSet(s) = {}
    /\ \A s, a : s = <<a>> => IsSeq(s) /\ ToSet(s) = {a}
    /\ \A s, a, b : s = <<a, b>> => IsSeq(s) /\ ToSet(s) = {a, b}
    /\ \A s, a, b, c : s = <<a, b, c>> => IsSeq(s) /\ ToSet(s) = {a, b, c}
<1>1. ASSUME NEW s, s = <<>> PROVE IsSeq(s) /\ ToSet(s) = {}
    BY <1>1 DEF IsSeq, ToSet
<1>2. ASSUME NEW s, NEW a, s = <<a>> PROVE IsSeq(s) /\ ToSet(s) = {a}
    <2>1. IsSeq(s) /\ Len(s) = 1 /\ s[1] = a
        BY <1>2, OneOf
    <2>2. DOMAIN s = 1..1
        BY <2>1, DomainOf
    <2> QED BY <2>1, <2>2 DEF ToSet
<1>3. ASSUME NEW s, NEW a, NEW b, s = <<a, b>> PROVE IsSeq(s) /\ ToSet(s) = {a, b}
    <2>1. IsSeq(s) /\ Len(s) = 2 /\ s[1] = a /\ s[2] = b
        BY <1>3, TwoOf
    <2>2. DOMAIN s = 1..2
        BY <2>1, DomainOf
    <2> QED BY <2>1, <2>2 DEF ToSet
<1>4. ASSUME NEW s, NEW a, NEW b, NEW c, s = <<a, b, c>> PROVE IsSeq(s) /\ ToSet(s) = {a, b, c}
    <2>1. IsSeq(s) /\ Len(s) = 3 /\ s[1] = a /\ s[2] = b /\ s[3] = c
        BY <1>4, ThreeOf
    <2>2. DOMAIN s = 1..3
        BY <2>1, DomainOf
    <2> QED BY <2>1, <2>2 DEF ToSet
<1> QED BY <1>1, <1>2, <1>3, <1>4

\* Events that end nothing and do not report the whole response, alone or
\* before the end of one block.
Quiet(sent) == IsSeq(sent) /\ \A e \in ToSet(sent) : ~Ends(e) /\ e.type \notin Lifecycles
LEMMA QuietIsFresh ==
    ASSUME NEW sent, Quiet(sent), NEW q, NEW cv, NEW F, NEW G, G \subseteq F
    PROVE  Fresh(sent, q, cv, F, G)
<1>1. \A k \in DOMAIN sent : ~Ends(sent[k]) /\ sent[k].type \notin Lifecycles
    BY DEF Quiet, ToSet
<1> QED BY <1>1 DEF Quiet, Fresh, EndsFresh, CallsLast, WholeFresh, Ends

LEMMA OneEndIsFresh ==
    ASSUME NEW sent, Quiet(sent), NEW i, NEW q, NEW cv, NEW F, NEW G, G \subseteq F,
           i \in F, i \notin G, NEW end, IsSeq(end), Len(end) = 1, end[1] = BlockDone(i)
    PROVE  Fresh(sent \o end, q, cv, F, G)
<1> DEFINE s == sent \o end
<1>1. DOMAIN end = 1..1
    BY DomainOf
<1>2. BlockDone(i).type = "block_done" /\ BlockDone(i).index = i
    BY EventIs
<1>3. IsSeq(sent) /\ DOMAIN sent = 1..Len(sent) /\ Len(sent) \in Nat
    BY DomainOf DEF Quiet
<1>4. IsSeq(s) /\ s = Joint(sent, end)
    BY <1>1, <1>3, ConcatIs
<1> HIDE DEF s
<1>5. /\ DOMAIN s = 1..(Len(sent) + 1)
      /\ \A k \in DOMAIN sent : s[k] = sent[k]
      /\ s[Len(sent) + 1] = BlockDone(i)
    <2>1. IsSeq(sent)
        BY <1>3
    <2>2. DOMAIN Joint(sent, end) = 1..(Len(sent) + Len(end))
        BY <2>1, JointIs
    <2>3. \A k \in DOMAIN sent : Joint(sent, end)[k] = sent[k]
        BY <2>1, JointIs
    <2>4. \A k \in DOMAIN end : Joint(sent, end)[Len(sent) + k] = end[k]
        <3> SUFFICES ASSUME NEW u, NEW v, IsSeq(u), IsSeq(v)
                     PROVE  \A k \in DOMAIN v : Joint(u, v)[Len(u) + k] = v[k]
            BY <2>1
        <3> QED BY JointIs
    <2> QED BY <1>1, <1>4, <2>2, <2>3, <2>4
<1>6. \A k \in DOMAIN s : k # Len(sent) + 1 => ~Ends(s[k]) /\ s[k].type \notin Lifecycles
    BY <1>3, <1>5 DEF Quiet, ToSet
<1>7. s[Len(sent) + 1].type \notin Lifecycles \cup {"args_done"}
    BY <1>2, <1>5 DEF Lifecycles
<1>8. EndsFresh(s, q, cv, G)
    BY <1>2, <1>3, <1>5, <1>6 DEF EndsFresh, Ends
<1>9. CallsLast(s, q, cv, G) /\ WholeFresh(s, q, cv, G)
    BY <1>6, <1>7 DEF CallsLast, WholeFresh, Ends
<1>10. \A k \in DOMAIN s : Ends(s[k]) => s[k].index \in F
    BY <1>2, <1>5, <1>6
<1>11. Fresh(s, q, cv, F, G)
    BY <1>4, <1>8, <1>9, <1>10 DEF Fresh
<1> QED BY <1>11 DEF s
LEMMA EndIsFresh ==
    ASSUME NEW sent, Quiet(sent), NEW i, NEW q, NEW cv, NEW F, NEW G, G \subseteq F,
           i \in F, i \notin G, NEW end, end = <<BlockDone(i)>>
    PROVE  Fresh(sent \o end, q, cv, F, G)
<1>1. IsSeq(end) /\ Len(end) = 1 /\ end[1] = BlockDone(i)
    BY OneOf
<1> QED BY <1>1, OneEndIsFresh

-----------------------------------------------------------------------------
\* A chunk of a chat stream.
From(n) == {i \in Nat : i >= n}
ChatSent(st, p, q, cv, G) ==
    /\ ChatState(p.st) /\ p.st.block >= st.block
    /\ Fresh(p.events, q, cv, From(st.block), G)
    /\ \A e \in ToSet(p.events) : /\ e.index \in Nat
                                  /\ Texts(e) \/ ~p.st.calls => e.index <= p.st.block

Nothing == <<>>
LEMMA NothingAdded ==
    /\ IsSeq(Nothing) /\ ToSet(Nothing) = {}
    /\ \A s : IsSeq(s) => s \o Nothing = s /\ Nothing \o s = s
<1>1. IsSeq(Nothing) /\ ToSet(Nothing) = {}
    BY ShortSets DEF Nothing
<1>2. ASSUME NEW s, IsSeq(s) PROVE s \o Nothing = s /\ Nothing \o s = s
    <2>1. PICK S : s \in Seq(S)
        BY <1>2, SeqOver
    <2> QED BY <2>1, ConcatEmptySeq DEF Nothing
<1> QED BY <1>1, <1>2

LEMMA FromChatIs ==
    ASSUME NEW st, NEW c
    PROVE  LET role == ChatRole(st, c)
               reasoning == ChatReasoning(role.st, c)
               content == ChatContent(reasoning.st, c)
               call == ChatCall(content.st, c)
               finish == ChatFinish(call.st, c)
           IN  /\ FromChat(st, c).st = finish.st
               /\ FromChat(st, c).events =
                    (((role.events \o reasoning.events) \o content.events) \o call.events) \o finish.events
BY DEF FromChat, Then, Step

LEMMA ChatAbsent ==
    ASSUME NEW st, NEW c
    PROVE  /\ ~c.role => ChatRole(st, c).st = st /\ ChatRole(st, c).events = <<>>
           /\ c.reasoning = <<>> => ChatReasoning(st, c).st = st /\ ChatReasoning(st, c).events = <<>>
           /\ c.content = <<>> => ChatContent(st, c).st = st /\ ChatContent(st, c).events = <<>>
           /\ c.call = 0 => ChatCall(st, c).st = st /\ ChatCall(st, c).events = <<>>
           /\ ~c.finish => ChatFinish(st, c).events = <<>>
           /\ ChatFinish(st, c).st = st
<1>1. ~c.role => ChatRole(st, c).st = st /\ ChatRole(st, c).events = <<>>
    BY DEF ChatRole, Step
<1>2. c.reasoning = <<>> => ChatReasoning(st, c) = Step(st, <<>>)
    BY DEF ChatReasoning
<1>3. c.content = <<>> => ChatContent(st, c) = Step(st, <<>>)
    BY DEF ChatContent
<1>4. c.call = 0 => ChatCall(st, c) = Step(st, <<>>)
    BY DEF ChatCall
<1>5. (~c.finish => ChatFinish(st, c).events = <<>>) /\ ChatFinish(st, c).st = st
    BY DEF ChatFinish, Step
<1> QED BY <1>1, <1>2, <1>3, <1>4, <1>5 DEF Step

\* A chunk has one part, but the role may come with reasoning.
LEMMA FromChatBy ==
    ASSUME NEW st, NEW c, ChatForm(c)
    PROVE  /\ ChatRank(c) = 1 /\ IsSeq(ChatRole(st, c).events)
              /\ IsSeq(ChatReasoning(ChatRole(st, c).st, c).events) =>
                 /\ FromChat(st, c).st = ChatReasoning(ChatRole(st, c).st, c).st
                 /\ FromChat(st, c).events =
                      Joint(ChatRole(st, c).events, ChatReasoning(ChatRole(st, c).st, c).events)
           /\ ChatRank(c) = 2 /\ IsSeq(ChatContent(st, c).events) =>
                 /\ FromChat(st, c).st = ChatContent(st, c).st
                 /\ FromChat(st, c).events = ChatContent(st, c).events
           /\ ChatRank(c) = 3 /\ IsSeq(ChatCall(st, c).events) =>
                 /\ FromChat(st, c).st = ChatCall(st, c).st
                 /\ FromChat(st, c).events = ChatCall(st, c).events
           /\ ChatRank(c) = 4 /\ IsSeq(ChatFinish(st, c).events) =>
                 /\ FromChat(st, c).st = st
                 /\ FromChat(st, c).events = ChatFinish(st, c).events
<1> DEFINE p == FromChat(st, c)
           role == ChatRole(st, c)
           reasoning == ChatReasoning(role.st, c)
           content == ChatContent(reasoning.st, c)
           call == ChatCall(content.st, c)
           finish == ChatFinish(call.st, c)
<1>1. /\ p.st = finish.st
      /\ p.events = (((role.events \o reasoning.events) \o content.events) \o call.events) \o finish.events
    BY FromChatIs
<1>3. /\ ~c.role => role.st = st /\ role.events = Nothing
      /\ c.reasoning = <<>> => reasoning.st = role.st /\ reasoning.events = Nothing
      /\ c.content = <<>> => content.st = reasoning.st /\ content.events = Nothing
      /\ c.call = 0 => call.st = content.st /\ call.events = Nothing
      /\ ~c.finish => finish.events = Nothing
      /\ finish.st = call.st
    BY ChatAbsent DEF Nothing
<1>4. ASSUME ChatRank(c) = 1, IsSeq(role.events), IsSeq(reasoning.events)
      PROVE  p.st = reasoning.st /\ p.events = Joint(role.events, reasoning.events)
    <2>1. c.content = <<>> /\ c.call = 0 /\ ~c.finish
        BY <1>4 DEF ChatRank
    <2> HIDE DEF p, role, reasoning, content, call, finish
    <2>2. /\ IsSeq(role.events \o reasoning.events)
          /\ role.events \o reasoning.events = Joint(role.events, reasoning.events)
        BY <1>4, ConcatIs
    <2>3. /\ content.events = Nothing /\ call.events = Nothing /\ finish.events = Nothing
          /\ p.st = reasoning.st
        BY <1>1, <1>3, <2>1
    <2>4. p.events = role.events \o reasoning.events
        BY <1>1, <2>2, <2>3, NothingAdded
    <2> QED BY <2>2, <2>3, <2>4
<1>5. ASSUME ChatRank(c) = 2, IsSeq(ChatContent(st, c).events)
      PROVE  p.st = ChatContent(st, c).st /\ p.events = ChatContent(st, c).events
    <2>1. ~c.role /\ c.reasoning = <<>> /\ c.call = 0 /\ ~c.finish
        BY <1>5 DEF ChatRank, ChatForm
    <2>2. reasoning.st = st
        BY <1>3, <2>1
    <2>3. content = ChatContent(st, c)
        BY <2>2
    <2> HIDE DEF p, role, reasoning, content, call, finish
    <2>4. /\ role.events = Nothing /\ reasoning.events = Nothing
          /\ call.events = Nothing /\ finish.events = Nothing /\ p.st = content.st
        BY <1>1, <1>3, <2>1
    <2>5. IsSeq(content.events)
        BY <1>5, <2>3
    <2>6. p.events = content.events
        BY <1>1, <2>4, <2>5, NothingAdded
    <2> QED BY <2>3, <2>4, <2>6
<1>6. ASSUME ChatRank(c) = 3, IsSeq(ChatCall(st, c).events)
      PROVE  p.st = ChatCall(st, c).st /\ p.events = ChatCall(st, c).events
    <2>1. ~c.role /\ c.reasoning = <<>> /\ c.content = <<>> /\ ~c.finish
        BY <1>6 DEF ChatRank, ChatForm
    <2>2. content.st = st
        BY <1>3, <2>1
    <2>3. call = ChatCall(st, c)
        BY <2>2
    <2> HIDE DEF p, role, reasoning, content, call, finish
    <2>4. /\ role.events = Nothing /\ reasoning.events = Nothing
          /\ content.events = Nothing /\ finish.events = Nothing /\ p.st = call.st
        BY <1>1, <1>3, <2>1
    <2>5. IsSeq(call.events)
        BY <1>6, <2>3
    <2>6. p.events = call.events
        BY <1>1, <2>4, <2>5, NothingAdded
    <2> QED BY <2>3, <2>4, <2>6
<1>7. ASSUME ChatRank(c) = 4, IsSeq(ChatFinish(st, c).events)
      PROVE  p.st = st /\ p.events = ChatFinish(st, c).events
    <2>1. ~c.role /\ c.reasoning = <<>> /\ c.content = <<>> /\ c.call = 0
        BY <1>7 DEF ChatRank, ChatForm
    <2>2. call.st = st
        BY <1>3, <2>1
    <2>3. finish = ChatFinish(st, c)
        BY <2>2
    <2> HIDE DEF p, role, reasoning, content, call, finish
    <2>4. /\ role.events = Nothing /\ reasoning.events = Nothing
          /\ content.events = Nothing /\ call.events = Nothing /\ p.st = st
        BY <1>1, <1>3, <2>1, <2>2
    <2>5. IsSeq(finish.events)
        BY <1>7, <2>3
    <2>6. p.events = finish.events
        BY <1>1, <2>4, <2>5, NothingAdded
    <2> QED BY <2>3, <2>4, <2>6
<1> HIDE DEF p
<1> QED BY <1>4, <1>5, <1>6, <1>7 DEF p

\* Events of a chunk that end nothing.
LEMMA ChatQuiet ==
    ASSUME NEW st, NEW p, ChatState(st), ChatState(p.st), p.st.block = st.block,
           Quiet(p.events), NEW q, NEW cv, NEW G, G \subseteq From(p.st.block),
           \A e \in ToSet(p.events) : /\ e.index \in Nat
                                      /\ Texts(e) \/ ~p.st.calls => e.index <= p.st.block
    PROVE  ChatSent(st, p, q, cv, G)
<1>1. st.block \in Nat /\ p.st.block >= st.block
    BY DEF ChatState
<1> QED BY <1>1, QuietIsFresh DEF ChatSent

\* The role, and the first reasoning.
LEMMA ChatOpening ==
    ASSUME NEW st, ChatState(st), NEW c, c.role, ~st.started
    PROVE  LET role == ChatRole(st, c)
               reasoning == ChatReasoning(role.st, c)
           IN  /\ ChatState(reasoning.st) /\ reasoning.st.block = st.block
               /\ reasoning.st.calls = st.calls
               /\ Quiet(role.events) /\ Quiet(reasoning.events)
               /\ \A e \in ToSet(role.events) \cup ToSet(reasoning.events) : e.index = st.block
<1> DEFINE role == ChatRole(st, c)
           reasoning == ChatReasoning(role.st, c)
<1>1. CASE c.reasoning = <<>>
    <2> DEFINE a == BlockStarted(st.block, "text", 0)
    <2>1. role.st = [st EXCEPT !.started = TRUE] /\ role.events = <<a>>
        BY <1>1 DEF ChatRole, Step
    <2>2. reasoning.st = role.st /\ reasoning.events = <<>>
        BY <1>1, ChatAbsent
    <2>3. a.type = "block_started" /\ a.index = st.block
        BY EventIs
    <2> HIDE DEF a, role, reasoning
    <2>4. /\ IsSeq(role.events) /\ ToSet(role.events) = {a}
          /\ IsSeq(reasoning.events) /\ ToSet(reasoning.events) = {}
        BY <2>1, <2>2, ShortSets
    <2>5. ChatState(role.st) /\ role.st.block = st.block /\ role.st.calls = st.calls
        BY <2>1 DEF ChatState, ChatFields
    <2>6. ~Ends(a) /\ a.type \notin Lifecycles
        BY <2>3 DEF Ends, Lifecycles
    <2>7. Quiet(role.events) /\ Quiet(reasoning.events)
        BY <2>4, <2>6 DEF Quiet
    <2> QED BY <2>2, <2>3, <2>4, <2>5, <2>7 DEF role, reasoning
<1>2. CASE c.reasoning # <<>>
    <2> DEFINE a == BlockStarted(st.block, "reasoning", 0)
               b == TextDelta(st.block, c.reasoning)
    <2>1. /\ role.st = [st EXCEPT !.started = TRUE, !.hasReasoning = TRUE, !.reasonIndex = st.block]
          /\ role.events = <<a>>
        BY <1>2 DEF ChatRole, Step
    <2>2. role.st.hasReasoning /\ role.st.reasonIndex = st.block
        BY <2>1 DEF ChatState, ChatFields
    <2>3. reasoning.st = role.st /\ reasoning.events = <<b>>
        <3> HIDE DEF role
        <3>1. reasoning = Step(role.st, <<TextDelta(role.st.reasonIndex, c.reasoning)>>)
            BY <1>2, <2>2 DEF ChatReasoning
        <3> QED BY <2>2, <3>1 DEF Step
    <2>4. /\ a.type = "block_started" /\ a.index = st.block
          /\ b.type = "text_delta" /\ b.index = st.block
        BY EventIs
    <2> HIDE DEF a, b, role, reasoning
    <2>5. /\ IsSeq(role.events) /\ ToSet(role.events) = {a}
          /\ IsSeq(reasoning.events) /\ ToSet(reasoning.events) = {b}
        BY <2>1, <2>3, ShortSets
    <2>6. ChatState(role.st) /\ role.st.block = st.block /\ role.st.calls = st.calls
        BY <2>1 DEF ChatState, ChatFields
    <2>7. ~Ends(a) /\ a.type \notin Lifecycles /\ ~Ends(b) /\ b.type \notin Lifecycles
        BY <2>4 DEF Ends, Lifecycles
    <2>8. Quiet(role.events) /\ Quiet(reasoning.events)
        BY <2>5, <2>7 DEF Quiet
    <2> QED BY <2>3, <2>4, <2>5, <2>6, <2>8 DEF role, reasoning
<1> QED BY <1>1, <1>2

\* Reasoning that comes late: the block it ends is new.
LEMMA ChatLateReasoning ==
    ASSUME NEW st, ChatState(st), NEW c, c.reasoning # <<>>, ~st.hasReasoning,
           NEW q, NEW cv, ~st.calls,
           \A i \in Touched(cv) : i <= st.block, \A k \in DOMAIN q : q[k].index <= st.block,
           NEW G, G \subseteq From(st.block + 1)
    PROVE  LET p == ChatReasoning(st, c)
           IN  ChatSent(st, p, q, cv, G) /\ p.st.calls = st.calls
<1> DEFINE new == st.block + 1
           p == ChatReasoning(st, c)
           x == BlockDone(new)
           y == BlockStarted(new, "reasoning", 0)
           z == TextDelta(new, c.reasoning)
           F == From(st.block)
<1>1. /\ p.st = [st EXCEPT !.hasReasoning = TRUE, !.reasonIndex = new, !.block = new]
      /\ p.events = <<x, y, z>>
    BY DEF ChatReasoning, Step
<1>2. /\ x.type = "block_done" /\ x.index = new
      /\ y.type = "block_started" /\ y.index = new
      /\ z.type = "text_delta" /\ z.index = new
    BY EventIs
<1>3. st.block \in Nat /\ new \in Nat /\ new > st.block
    BY DEF ChatState
<1>4. ChatState(p.st) /\ p.st.block = new /\ p.st.calls = st.calls
    BY <1>1, <1>3 DEF ChatState, ChatFields
<1>5. IsSeq(p.events) /\ Len(p.events) = 3 /\ p.events[1] = x /\ p.events[2] = y /\ p.events[3] = z
    BY <1>1, ThreeOf
<1>6. ToSet(p.events) = {x, y, z}
    BY <1>1, ShortSets
<1> HIDE DEF p, x, y, z, F
<1>7. DOMAIN p.events = 1..3
    BY <1>5, DomainOf
<1>8. \A k \in DOMAIN p.events : /\ p.events[k].type \notin Lifecycles \cup {"args_done"}
                                 /\ p.events[k].index = new
                                 /\ p.events[k].type = "block_done" => k = 1
    BY <1>2, <1>5, <1>7 DEF Lifecycles
<1>9. new \in F /\ G \subseteq F /\ new \notin Touched(cv) /\ \A k \in DOMAIN q : q[k].index # new
    BY <1>3 DEF F, From
<1> HIDE DEF new
<1>10. EndsFresh(p.events, q, cv, G)
    BY <1>7, <1>8, <1>9 DEF EndsFresh, Ends
<1>11. CallsLast(p.events, q, cv, G) /\ WholeFresh(p.events, q, cv, G)
    BY <1>8 DEF CallsLast, WholeFresh
<1>12. Fresh(p.events, q, cv, F, G)
    BY <1>5, <1>8, <1>9, <1>10, <1>11 DEF Fresh
<1>13. ChatSent(st, p, q, cv, G)
    BY <1>2, <1>3, <1>4, <1>6, <1>12 DEF ChatSent, F
<1> QED BY <1>4, <1>13 DEF p

LEMMA QuietConcat ==
    ASSUME NEW s, Quiet(s), NEW t, Quiet(t)
    PROVE  Quiet(Joint(s, t)) /\ ToSet(Joint(s, t)) = ToSet(s) \cup ToSet(t)
<1>1. IsSeq(s) /\ IsSeq(t)
    BY DEF Quiet
<1>2. IsSeq(Joint(s, t)) /\ ToSet(Joint(s, t)) = ToSet(s) \cup ToSet(t)
    BY <1>1, ConcatIs
<1> QED BY <1>2 DEF Quiet

LEMMA ChatReasonStep ==
    ASSUME NEW st, ChatState(st), NEW c, ChatForm(c), ChatRank(c) = 1, ~st.calls,
           NEW q, NEW cv,
           \A i \in Touched(cv) : i <= st.block, \A k \in DOMAIN q : q[k].index <= st.block,
           NEW G, G \subseteq From(FromChat(st, c).st.block)
    PROVE  LET p == FromChat(st, c) IN ChatSent(st, p, q, cv, G) /\ p.st.calls = st.calls
<1> DEFINE p == FromChat(st, c)
           role == ChatRole(st, c)
           reasoning == ChatReasoning(role.st, c)
<1>1. IsSeq(role.events) /\ IsSeq(reasoning.events) =>
          p.st = reasoning.st /\ p.events = Joint(role.events, reasoning.events)
    BY FromChatBy
<1>2. CASE c.role /\ ~st.started
    <2>1. /\ ChatState(reasoning.st) /\ reasoning.st.block = st.block
          /\ reasoning.st.calls = st.calls
          /\ Quiet(role.events) /\ Quiet(reasoning.events)
          /\ \A e \in ToSet(role.events) \cup ToSet(reasoning.events) : e.index = st.block
        BY <1>2, ChatOpening
    <2>2. G \subseteq From(p.st.block) /\ st.block \in Nat
        BY DEF ChatState
    <2> HIDE DEF p, role, reasoning
    <2>3. p.st = reasoning.st /\ p.events = Joint(role.events, reasoning.events)
        BY <1>1, <2>1 DEF Quiet
    <2>4. Quiet(p.events) /\ ToSet(p.events) = ToSet(role.events) \cup ToSet(reasoning.events)
        BY <2>1, <2>3, QuietConcat
    <2>5. \A e \in ToSet(p.events) : e.index \in Nat /\ e.index <= p.st.block
        BY <2>1, <2>2, <2>3, <2>4
    <2>6. ChatSent(st, p, q, cv, G)
        BY <2>1, <2>2, <2>3, <2>4, <2>5, ChatQuiet
    <2> QED BY <2>1, <2>3, <2>6 DEF p
<1>3. CASE ~(c.role /\ ~st.started)
    <2> DEFINE only == ChatReasoning(st, c)
    <2>1. role.st = st /\ role.events = Nothing
        BY <1>3 DEF ChatRole, Step, ChatForm, ChatState, Nothing
    <2>2. reasoning = only
        BY <2>1
    <2>3. G \subseteq From(p.st.block) /\ st.block \in Nat
        BY DEF ChatState
    <2>4. IsSeq(only.events) => p.st = only.st /\ p.events = only.events
        <3> HIDE DEF p, role, reasoning, only
        <3>1. IsSeq(only.events) => Joint(Nothing, only.events) = only.events
            BY NothingAdded, ConcatIs
        <3> QED BY <1>1, <2>1, <2>2, <3>1, NothingAdded
    <2>5. CASE c.reasoning = <<>>
        <3>1. only.st = st /\ only.events = Nothing
            BY <2>5, ChatAbsent DEF Nothing
        <3> HIDE DEF p, only
        <3>2. p.st = st /\ p.events = Nothing
            BY <2>4, <3>1, NothingAdded
        <3>3. Quiet(p.events) /\ ToSet(p.events) = {}
            BY <3>2, NothingAdded DEF Quiet
        <3>4. ChatSent(st, p, q, cv, G)
            BY <2>3, <3>2, <3>3, ChatQuiet
        <3> QED BY <3>2, <3>4 DEF p
    <2>6. CASE c.reasoning # <<>> /\ st.hasReasoning
        <3> DEFINE a == TextDelta(st.reasonIndex, c.reasoning)
        <3>1. only.st = st /\ only.events = <<a>>
            BY <2>6 DEF ChatReasoning, Step
        <3>2. a.type = "text_delta" /\ a.index = st.block
            BY <2>6, EventIs DEF ChatState
        <3> HIDE DEF p, only, a
        <3>3. IsSeq(only.events) /\ ToSet(only.events) = {a}
            BY <3>1, ShortSets
        <3>4. p.st = st /\ p.events = only.events
            BY <2>4, <3>1, <3>3
        <3>5. Quiet(p.events) /\ ToSet(p.events) = {a}
            BY <3>2, <3>3, <3>4 DEF Quiet, Ends, Lifecycles
        <3>6. ChatSent(st, p, q, cv, G)
            BY <2>3, <3>2, <3>4, <3>5, ChatQuiet
        <3> QED BY <3>4, <3>6 DEF p
    <2>7. CASE c.reasoning # <<>> /\ ~st.hasReasoning
        <3>1. only.st.block = st.block + 1
            BY <2>7 DEF ChatReasoning, Step, ChatState, ChatFields
        <3>2. IsSeq(only.events)
            BY <2>7, ShortSets DEF ChatReasoning, Step
        <3>3. p.st = only.st /\ p.events = only.events
            BY <2>4, <3>2
        <3>4. G \subseteq From(st.block + 1)
            BY <2>3, <3>1, <3>3
        <3>5. ChatSent(st, only, q, cv, G) /\ only.st.calls = st.calls
            BY <2>7, <3>4, ChatLateReasoning
        <3> HIDE DEF p, only
        <3> QED BY <3>3, <3>5 DEF ChatSent, p
    <2> QED BY <2>5, <2>6, <2>7
<1> QED BY <1>2, <1>3

LEMMA ChatContentStep ==
    ASSUME NEW st, ChatState(st), NEW c, ChatForm(c), ChatRank(c) = 2, ~st.calls,
           NEW q, NEW cv, NEW G, G \subseteq From(FromChat(st, c).st.block)
    PROVE  LET p == FromChat(st, c) IN ChatSent(st, p, q, cv, G) /\ p.st.calls = st.calls
<1> DEFINE p == FromChat(st, c)
           only == ChatContent(st, c)
<1>1. IsSeq(only.events) => p.st = only.st /\ p.events = only.events
    BY FromChatBy
<1>2. c.content # <<>>
    BY DEF ChatRank
<1>3. G \subseteq From(p.st.block) /\ st.block \in Nat
    BY DEF ChatState
<1>4. CASE ~st.hasReasoning
    <2> DEFINE a == TextDelta(st.block, c.content)
    <2>1. only.st = st /\ only.events = <<a>>
        BY <1>2, <1>4 DEF ChatContent, Step
    <2>2. a.type = "text_delta" /\ a.index = st.block
        BY EventIs
    <2> HIDE DEF p, only, a
    <2>3. IsSeq(only.events) /\ ToSet(only.events) = {a}
        BY <2>1, ShortSets
    <2>4. p.st = st /\ p.events = only.events
        BY <1>1, <2>1, <2>3
    <2>5. Quiet(p.events) /\ ToSet(p.events) = {a}
        BY <2>2, <2>3, <2>4 DEF Quiet, Ends, Lifecycles
    <2>6. ChatSent(st, p, q, cv, G)
        BY <1>3, <2>2, <2>4, <2>5, ChatQuiet
    <2> QED BY <2>4, <2>6 DEF p
<1>5. CASE st.hasReasoning
    <2> DEFINE new == st.block + 1
               x == BlockDone(st.block)
               y == BlockStarted(new, "text", 0)
               z == TextDelta(new, c.content)
    <2>1. /\ only.st = [st EXCEPT !.hasReasoning = FALSE, !.block = new]
          /\ only.events = <<x, y, z>>
        BY <1>2, <1>5 DEF ChatContent, Step, ChatState
    <2>2. /\ x.type = "block_done" /\ x.index = st.block
          /\ y.type = "block_started" /\ y.index = new
          /\ z.type = "text_delta" /\ z.index = new
        BY EventIs
    <2>3. new \in Nat /\ new > st.block
        BY <1>3
    <2>4. ChatState(only.st) /\ only.st.block = new /\ only.st.calls = st.calls
        BY <2>1, <2>3 DEF ChatState, ChatFields
    <2> HIDE DEF only, x, y, z
    <2>5. /\ IsSeq(only.events) /\ Len(only.events) = 3
          /\ only.events[1] = x /\ only.events[2] = y /\ only.events[3] = z
        BY <2>1, ThreeOf
    <2>6. ToSet(only.events) = {x, y, z}
        BY <2>1, ShortSets
    <2>7. DOMAIN only.events = 1..3
        BY <2>5, DomainOf
    <2>8. p.st = only.st /\ p.events = only.events
        BY <1>1, <2>5
    <2> DEFINE F == From(st.block)
    <2>9. st.block \in F /\ G \subseteq F /\ st.block \notin G
        BY <1>3, <2>3, <2>4, <2>8 DEF From
    <2> HIDE DEF F
    <2>10. \A k \in DOMAIN only.events :
              /\ only.events[k].type \notin Lifecycles \cup {"args_done"}
              /\ only.events[k].type = "block_done" => k = 1 /\ only.events[k].index = st.block
        BY <2>2, <2>5, <2>7 DEF Lifecycles
    <2>11. EndsFresh(only.events, q, cv, G)
        BY <2>7, <2>9, <2>10 DEF EndsFresh, Ends
    <2>12. CallsLast(only.events, q, cv, G) /\ WholeFresh(only.events, q, cv, G)
        BY <2>10 DEF CallsLast, WholeFresh
    <2>13. \A k \in DOMAIN only.events : Ends(only.events[k]) => only.events[k].index \in F
        BY <2>9, <2>10 DEF Ends
    <2>14. Fresh(only.events, q, cv, F, G)
        BY <2>5, <2>9, <2>11, <2>12, <2>13 DEF Fresh
    <2> HIDE DEF p
    <2>15. ChatSent(st, p, q, cv, G)
        BY <1>3, <2>2, <2>3, <2>4, <2>6, <2>8, <2>14 DEF ChatSent, F
    <2> QED BY <2>4, <2>8, <2>15 DEF p
<1> QED BY <1>4, <1>5 DEF ChatState

LEMMA ChatCallStep ==
    ASSUME NEW st, ChatState(st), NEW c, ChatForm(c), ChatRank(c) = 3,
           NEW q, NEW cv, NEW G, G \subseteq From(FromChat(st, c).st.block)
    PROVE  LET p == FromChat(st, c) IN ChatSent(st, p, q, cv, G) /\ p.st.calls
<1> DEFINE p == FromChat(st, c)
           only == ChatCall(st, c)
           first == IF st.calls THEN st ELSE [st EXCEPT !.calls = TRUE, !.toolIdx = st.block + 1]
           new == c.call \notin DOMAIN first.slot
           placed == IF new
                     THEN [first EXCEPT !.slot = With(first.slot, c.call, first.toolIdx),
                                        !.toolIdx = first.toolIdx + 1]
                     ELSE first
           slot == placed.slot[c.call]
           a == BlockStarted(slot, c.block, c.id)
           b == ArgsDelta(slot, c.args)
           start == IF new THEN <<a>> ELSE Nothing
           delta == IF c.args = <<>> THEN Nothing ELSE <<b>>
<1>1. c.call # 0 /\ c.block \in {"tool_use", "nested"}
    BY DEF ChatRank, ChatForm
<1>2. only.st = placed /\ only.events = start \o delta
    BY <1>1 DEF ChatCall, Step, Nothing
<1>3. ChatState(first) /\ first.calls /\ first.block = st.block
    <2>1. CASE st.calls
        BY <2>1
    <2>2. CASE ~st.calls
        <3>1. first = [st EXCEPT !.calls = TRUE, !.toolIdx = st.block + 1]
            BY <2>2
        <3>2. DOMAIN st = ChatFields /\ st.block \in Nat /\ DOMAIN st.slot = {}
            BY <2>2 DEF ChatState
        <3> HIDE DEF first
        <3>3. /\ first.calls /\ first.toolIdx = st.block + 1 /\ first.block = st.block
              /\ DOMAIN first = ChatFields /\ first.slot = st.slot /\ first.started = st.started
              /\ first.hasReasoning = st.hasReasoning /\ first.reasonIndex = st.reasonIndex
            BY <3>1, <3>2 DEF ChatFields
        <3> QED BY <3>2, <3>3 DEF ChatState
    <2> QED BY <2>1, <2>2 DEF ChatState
<1> HIDE DEF first
<1>4. ChatState(placed) /\ placed.calls /\ placed.block = st.block /\ slot \in Nat
    <2>1. CASE new
        <3>1. /\ placed.slot = With(first.slot, c.call, first.toolIdx)
              /\ placed.toolIdx = first.toolIdx + 1 /\ placed.block = first.block
              /\ placed.calls = first.calls /\ DOMAIN placed = ChatFields
              /\ placed.started = first.started /\ placed.hasReasoning = first.hasReasoning
              /\ placed.reasonIndex = first.reasonIndex
            BY <1>3, <2>1 DEF ChatState, ChatFields
        <3> HIDE DEF placed, new
        <3>2. /\ DOMAIN placed.slot = DOMAIN first.slot \cup {c.call} /\ slot = first.toolIdx
              /\ \A x \in DOMAIN first.slot : x # c.call => placed.slot[x] = first.slot[x]
            BY <3>1 DEF With
        <3>3. /\ first.toolIdx \in Nat /\ first.toolIdx > first.block /\ first.block \in Nat
              /\ \A x \in DOMAIN first.slot : /\ first.slot[x] \in Nat /\ first.block < first.slot[x]
                                              /\ first.slot[x] < first.toolIdx
            BY <1>3 DEF ChatState
        <3>4. \A x \in DOMAIN placed.slot : /\ placed.slot[x] \in Nat /\ placed.block < placed.slot[x]
                                            /\ placed.slot[x] < placed.toolIdx
            BY <3>1, <3>2, <3>3
        <3>5. placed.toolIdx \in Nat /\ placed.toolIdx > placed.block
            BY <3>1, <3>3
        <3> HIDE DEF slot
        <3>6. ChatState(placed)
            BY <1>3, <3>1, <3>4, <3>5 DEF ChatState
        <3> QED BY <1>3, <3>1, <3>2, <3>3, <3>6
    <2>2. CASE ~new
        <3>1. placed = first /\ c.call \in DOMAIN first.slot
            BY <2>2
        <3> QED BY <1>3, <3>1 DEF ChatState
    <2> QED BY <2>1, <2>2
<1> HIDE DEF placed, slot, new
<1>5. /\ a.type = "block_started" /\ a.index = slot /\ a.block = c.block
      /\ b.type = "args_delta" /\ b.index = slot
    BY EventIs
<1>6. /\ \A e \in {a, b} : ~Ends(e) /\ e.type \notin Lifecycles /\ e.index \in Nat /\ ~Texts(e)
    BY <1>1, <1>4, <1>5 DEF Ends, Lifecycles, Texts
<1> HIDE DEF a, b
<1>7. Quiet(start) /\ ToSet(start) \subseteq {a}
    <2>1. CASE new
        <3>1. IsSeq(start) /\ ToSet(start) = {a}
            BY <2>1, ShortSets
        <3> QED BY <1>6, <3>1 DEF Quiet
    <2>2. CASE ~new
        <3>1. IsSeq(start) /\ ToSet(start) = {}
            BY <2>2, NothingAdded
        <3> QED BY <3>1 DEF Quiet
    <2> QED BY <2>1, <2>2
<1>8. Quiet(delta) /\ ToSet(delta) \subseteq {b}
    <2>1. CASE c.args # <<>>
        <3>1. IsSeq(delta) /\ ToSet(delta) = {b}
            BY <2>1, ShortSets
        <3> QED BY <1>6, <3>1 DEF Quiet
    <2>2. CASE c.args = <<>>
        <3>1. IsSeq(delta) /\ ToSet(delta) = {}
            BY <2>2, NothingAdded
        <3> QED BY <3>1 DEF Quiet
    <2> QED BY <2>1, <2>2
<1> HIDE DEF start, delta
<1>9. Quiet(only.events) /\ ToSet(only.events) \subseteq {a, b}
    <2>1. start \o delta = Joint(start, delta)
        BY <1>7, <1>8, ConcatIs DEF Quiet
    <2> HIDE DEF only
    <2> QED BY <1>2, <1>7, <1>8, <2>1, QuietConcat
<1>10. p.st = placed /\ p.events = only.events
    <2>1. IsSeq(only.events)
        BY <1>9 DEF Quiet
    <2> HIDE DEF a, b
    <2>2. p.st = only.st /\ p.events = only.events
        BY <2>1, FromChatBy
    <2> QED BY <1>2, <2>2
<1>11. G \subseteq From(p.st.block)
    OBVIOUS
<1> HIDE DEF p, only
<1>12. ChatSent(st, p, q, cv, G)
    BY <1>4, <1>6, <1>9, <1>10, <1>11, ChatQuiet
<1> QED BY <1>4, <1>10, <1>12 DEF p

\* The last chunk: the ends of the block and of the calls, which are behind.
LEMMA ChatFinishStep ==
    ASSUME NEW st, ChatState(st), NEW c, ChatForm(c), ChatRank(c) = 4,
           NEW q, NEW cv, NEW G, G = {}, Touched(cv) \subseteq Nat,
           \A i \in TextIn(cv) : i <= st.block,
           \A k \in DOMAIN q : q[k].index \in Nat /\ (Texts(q[k]) => q[k].index <= st.block)
    PROVE  LET p == FromChat(st, c) IN ChatSent(st, p, q, cv, G) /\ p.st = st
<1> DEFINE p == FromChat(st, c)
           only == ChatFinish(st, c)
           last == IF st.calls THEN st.toolIdx - 1 ELSE st.block
           m == 1 + 2 * (last - st.block)
           half(k) == k \div 2
           ends == [k \in 1..m |-> IF k % 2 = 0 THEN ArgsDone(st.block + k \div 2, <<>>)
                                   ELSE BlockDone(st.block + k \div 2)]
<1>1. c.finish
    BY DEF ChatRank
<1>2. only.events = ends
    BY <1>1 DEF ChatFinish, Step
<1>3. /\ st.block \in Nat /\ last \in Nat /\ last >= st.block /\ m \in Nat
      /\ ~st.calls => m = 1
    BY DEF ChatState
<1> HIDE DEF last, m
<1>4. IsSeq(ends) /\ Len(ends) = m
    <2> DEFINE S == {ends[k] : k \in 1..m}
    <2>1. ends \in [1..m -> S]
        OBVIOUS
    <2> HIDE DEF S, ends
    <2>2. ends \in Seq(S) /\ Len(ends) = m
        BY <1>3, <2>1, SeqDef, LenProperties
    <2> QED BY <2>2, IsSeqOf
<1>5. \A k \in 1..m : /\ half(k) \in Nat
                      /\ k % 2 = 0 => k = 2 * half(k)
                      /\ k % 2 # 0 => k = 2 * half(k) + 1
    BY <1>3
<1>6. \A k \in 1..m : /\ ends[k].index = st.block + half(k)
                      /\ ends[k].type = IF k % 2 = 0 THEN "args_done" ELSE "block_done"
    BY EventIs
<1>7. DOMAIN ends = 1..m
    OBVIOUS
<1> HIDE DEF ends, half
<1>8. p.st = st /\ p.events = ends
    <2>1. IsSeq(ChatFinish(st, c).events)
        BY <1>2, <1>4
    <2>2. p.st = st /\ p.events = ChatFinish(st, c).events
        BY <2>1, FromChatBy
    <2> QED BY <1>2, <2>2
<1> HIDE DEF only
<1>9. EndsFresh(ends, q, cv, G)
    <2> SUFFICES ASSUME NEW k \in 1..m, ends[k].type = "block_done", NEW j \in 1..m, j > k
                 PROVE  ends[j].index # ends[k].index
        BY <1>7 DEF EndsFresh
    <2>1. k % 2 # 0 /\ k = 2 * half(k) + 1 /\ half(k) \in Nat
        BY <1>5, <1>6
    <2>2. half(j) \in Nat /\ (j = 2 * half(j) \/ j = 2 * half(j) + 1)
        BY <1>5
    <2>3. half(j) > half(k)
        BY <2>1, <2>2
    <2> QED BY <1>3, <1>6, <2>1, <2>2, <2>3
<1>10. CallsLast(ends, q, cv, G)
    <2>1. ASSUME NEW k \in 1..m, ends[k].type = "args_done", NEW i \in Nat, i <= st.block
          PROVE  Clear(i, k, ends, G)
        <3> SUFFICES ASSUME NEW j \in 1..m, j >= k PROVE ends[j].index # i
            BY <1>7 DEF Clear
        <3>1. k % 2 = 0 /\ k = 2 * half(k) /\ half(k) \in Nat /\ k > 0
            BY <1>5, <1>6, <2>1
        <3>2. half(j) \in Nat /\ (j = 2 * half(j) \/ j = 2 * half(j) + 1)
            BY <1>5
        <3>3. half(j) > 0
            BY <3>1, <3>2
        <3> QED BY <1>3, <1>6, <2>1, <3>2, <3>3
    <2>2. TextIn(cv) \subseteq Nat
        BY DEF TextIn, Touched
    <2>3. \A k \in 1..m : ~Texts(ends[k])
        BY <1>6 DEF Texts
    <2> QED BY <1>7, <2>1, <2>2, <2>3 DEF CallsLast
<1>11. WholeFresh(ends, q, cv, G)
    BY <1>6, <1>7 DEF WholeFresh, Lifecycles
<1>12. \A k \in 1..m : ends[k].index \in From(st.block) /\ ends[k].index \in Nat
    BY <1>3, <1>5, <1>6 DEF From
<1>13. Fresh(ends, q, cv, From(st.block), G)
    BY <1>4, <1>7, <1>9, <1>10, <1>11, <1>12 DEF Fresh
<1>14. \A e \in ToSet(ends) : /\ e.index \in Nat
                              /\ Texts(e) \/ ~st.calls => e.index <= st.block
    <2> SUFFICES ASSUME NEW k \in 1..m
                 PROVE  /\ ends[k].index \in Nat
                        /\ Texts(ends[k]) \/ ~st.calls => ends[k].index <= st.block
        BY <1>7 DEF ToSet
    <2>1. ~Texts(ends[k])
        BY <1>6 DEF Texts
    <2>2. ~st.calls => half(k) = 0
        BY <1>3, <1>5
    <2> QED BY <1>3, <1>6, <1>12, <2>1, <2>2
<1> HIDE DEF p
<1>15. ChatSent(st, p, q, cv, G)
    BY <1>3, <1>8, <1>13, <1>14 DEF ChatSent
<1> QED BY <1>8, <1>15 DEF p

\* A chunk of any kind.
LEMMA ChatStep ==
    ASSUME NEW st, ChatState(st), NEW c, ChatForm(c), NEW u, NEW cs, NEW q, NEW cv,
           ChatPlaces(st, u, cs, q, cv), Touched(cv) \subseteq Nat,
           \A k \in DOMAIN q : q[k].index \in Nat,
           st.calls => ChatRank(c) >= 3,
           NEW G, G \subseteq From(FromChat(st, c).st.block), c.finish => G = {}
    PROVE  LET p == FromChat(st, c)
           IN  /\ ChatSent(st, p, q, cv, G)
               /\ st.calls => p.st.calls
               /\ p.st.calls => st.calls \/ ChatRank(c) = 3
<1>1. ChatRank(c) \in {1, 2, 3, 4} /\ (ChatRank(c) = 4 => c.finish)
    BY DEF ChatRank
<1>2. CASE ChatRank(c) = 1
    BY <1>2, ChatReasonStep DEF ChatPlaces
<1>3. CASE ChatRank(c) = 2
    BY <1>3, ChatContentStep DEF ChatPlaces
<1>4. CASE ChatRank(c) = 3
    BY <1>4, ChatCallStep
<1>5. CASE ChatRank(c) = 4
    BY <1>1, <1>5, ChatFinishStep DEF ChatPlaces
<1> QED BY <1>1, <1>2, <1>3, <1>4, <1>5

-----------------------------------------------------------------------------
\* A snapshot of a Google stream.
LEMMA GoogleStep ==
    ASSUME NEW st, NEW c, NEW q, NEW cv, NEW G, G \subseteq {0}, c.finish => G = {}
    PROVE  LET sent == FromGoogle(st, c).events
           IN  Fresh(sent, q, cv, {0}, G) /\ \A e \in ToSet(sent) : e.index \in Nat
<1> DEFINE sent == FromGoogle(st, c).events
           a == BlockStarted(0, "text", 0)
           b == TextDelta(0, SnapshotDelta(st.prev, c.text))
           start == IF st.started THEN Nothing ELSE <<a>>
           text == IF SnapshotDelta(st.prev, c.text) = <<>> THEN Nothing ELSE <<b>>
           end == <<BlockDone(0)>>
           done == IF c.finish THEN end ELSE Nothing
<1>1. sent = (start \o text) \o done
    BY DEF FromGoogle, Step, Nothing
<1>2. /\ a.type = "block_started" /\ a.index = 0
      /\ b.type = "text_delta" /\ b.index = 0 /\ BlockDone(0).index = 0
    BY EventIs
<1> HIDE DEF a, b
<1>3. Quiet(start) /\ ToSet(start) \subseteq {a}
    <2>1. CASE ~st.started
        <3>1. IsSeq(start) /\ ToSet(start) = {a}
            BY <2>1, ShortSets
        <3> QED BY <1>2, <3>1 DEF Quiet, Ends, Lifecycles
    <2>2. CASE st.started
        <3>1. IsSeq(start) /\ ToSet(start) = {}
            BY <2>2, NothingAdded
        <3> QED BY <3>1 DEF Quiet
    <2> QED BY <2>1, <2>2
<1>4. Quiet(text) /\ ToSet(text) \subseteq {b}
    <2>1. CASE SnapshotDelta(st.prev, c.text) # <<>>
        <3>1. IsSeq(text) /\ ToSet(text) = {b}
            BY <2>1, ShortSets
        <3> QED BY <1>2, <3>1 DEF Quiet, Ends, Lifecycles
    <2>2. CASE SnapshotDelta(st.prev, c.text) = <<>>
        <3>1. IsSeq(text) /\ ToSet(text) = {}
            BY <2>2, NothingAdded
        <3> QED BY <3>1 DEF Quiet
    <2> QED BY <2>1, <2>2
<1> HIDE DEF start, text, sent
<1> DEFINE said == start \o text
<1>5. Quiet(said) /\ ToSet(said) \subseteq {a, b}
    <2>1. said = Joint(start, text)
        BY <1>3, <1>4, ConcatIs DEF Quiet
    <2> QED BY <1>3, <1>4, <2>1, QuietConcat
<1>6. sent = said \o done
    BY <1>1
<1> HIDE DEF said
<1>7. CASE c.finish
    <2>1. sent = said \o end /\ G = {}
        BY <1>6, <1>7
    <2>2. IsSeq(end) /\ ToSet(end) = {BlockDone(0)}
        BY ShortSets
    <2>3. end = <<BlockDone(0)>>
        OBVIOUS
    <2> HIDE DEF end, done
    <2>4. Fresh(said \o end, q, cv, {0}, G)
        BY <1>5, <2>1, <2>3, EndIsFresh
    <2>5. ToSet(said \o end) = ToSet(said) \cup ToSet(end)
        BY <1>5, <2>2, ConcatIs DEF Quiet
    <2> QED BY <1>2, <1>5, <2>1, <2>2, <2>4, <2>5 DEF sent
<1>8. CASE ~c.finish
    <2>1. sent = said
        BY <1>5, <1>6, <1>8, NothingAdded DEF Quiet
    <2>2. Fresh(sent, q, cv, {0}, G)
        BY <1>5, <2>1, QuietIsFresh
    <2> QED BY <1>2, <1>5, <2>1, <2>2 DEF sent
<1> QED BY <1>7, <1>8

\* One event of the whole response, when nothing more is ended.
LEMMA WholeIsFresh ==
    ASSUME NEW sent, NEW e, sent = <<e>>, e.type \in Lifecycles, NEW q, NEW cv, NEW F, NEW G, G = {}
    PROVE  Fresh(sent, q, cv, F, G)
<1>1. IsSeq(sent) /\ Len(sent) = 1 /\ sent[1] = e
    BY OneOf
<1>2. DOMAIN sent = 1..1
    BY <1>1, DomainOf
<1>3. \A k \in DOMAIN sent : ~Ends(sent[k])
    BY <1>1, <1>2 DEF Ends, Lifecycles
<1> QED BY <1>1, <1>3 DEF Fresh, EndsFresh, CallsLast, WholeFresh, Ends

\* An event of an Anthropic stream.
LEMMA AnthropicStep ==
    ASSUME NEW st, NEW c, AnthropicForm(c), NEW q, NEW cv, NEW F, NEW G, G \subseteq F,
           c.type = "block_stop" => c.index \in F /\ c.index \notin G,
           c.type \in Enders => G = {},
           c.type = "message_start" => DOMAIN q = {} /\ cv.output = <<>>
    PROVE  LET sent == FromAnthropic(st, c).events
           IN  Fresh(sent, q, cv, F, G) /\ \A e \in ToSet(sent) : e.index \in Nat
<1> DEFINE sent == FromAnthropic(st, c).events
<1>1. c.index \in Nat
    BY DEF AnthropicForm
<1>2. CASE c.type = "block_start"
    <2> DEFINE name == BlockName[c.block]
    <2>1. \/ sent = <<>>
          \/ sent = <<BlockStarted(c.index, name, c.id), Lifecycle("item_added")>>
          \/ sent = <<BlockStarted(c.index, name, 0)>>
        BY <1>2 DEF FromAnthropic, AnthropicStart, Step, AnthropicForm, AnthropicKind
    <2> HIDE DEF sent, name
    <2>2. Quiet(sent) /\ \A e \in ToSet(sent) : e.index \in Nat
        <3>1. CASE sent = <<>>
            BY <3>1, ShortSets DEF Quiet
        <3>2. CASE sent = <<BlockStarted(c.index, name, c.id), Lifecycle("item_added")>>
            <4>1. IsSeq(sent)
                  /\ ToSet(sent) = {BlockStarted(c.index, name, c.id), Lifecycle("item_added")}
                BY <3>2, ShortSets
            <4> QED BY <1>1, <4>1, EventIs DEF Quiet, Ends, Lifecycles
        <3>3. CASE sent = <<BlockStarted(c.index, name, 0)>>
            <4>1. IsSeq(sent) /\ ToSet(sent) = {BlockStarted(c.index, name, 0)}
                BY <3>3, ShortSets
            <4> QED BY <1>1, <4>1, EventIs DEF Quiet, Ends, Lifecycles
        <3> QED BY <2>1, <3>1, <3>2, <3>3
    <2> QED BY <2>2, QuietIsFresh DEF sent
<1>3. CASE c.type = "block_delta"
    <2>1. \/ sent = <<>>
          \/ sent = <<TextDelta(c.index, c.data)>>
          \/ sent = <<ArgsDelta(c.index, c.data)>>
        BY <1>3 DEF FromAnthropic, AnthropicDelta, Step, AnthropicForm
    <2> HIDE DEF sent
    <2>2. Quiet(sent) /\ \A e \in ToSet(sent) : e.index \in Nat
        <3>1. CASE sent = <<>>
            BY <3>1, ShortSets DEF Quiet
        <3>2. CASE sent = <<TextDelta(c.index, c.data)>>
            <4>1. IsSeq(sent) /\ ToSet(sent) = {TextDelta(c.index, c.data)}
                BY <3>2, ShortSets
            <4> QED BY <1>1, <4>1, EventIs DEF Quiet, Ends, Lifecycles
        <3>3. CASE sent = <<ArgsDelta(c.index, c.data)>>
            <4>1. IsSeq(sent) /\ ToSet(sent) = {ArgsDelta(c.index, c.data)}
                BY <3>3, ShortSets
            <4> QED BY <1>1, <4>1, EventIs DEF Quiet, Ends, Lifecycles
        <3> QED BY <2>1, <3>1, <3>2, <3>3
    <2> QED BY <2>2, QuietIsFresh DEF sent
<1>4. CASE c.type = "block_stop"
    <2> DEFINE a == BlockDone(c.index)
               b == Lifecycle("item_done")
    <2>1. sent = <<>> \/ sent = <<a, b>>
        BY <1>4 DEF FromAnthropic, AnthropicStop, Step
    <2>2. a.type = "block_done" /\ a.index = c.index /\ b.type = "item_done" /\ b.index = 0
        BY EventIs
    <2> HIDE DEF sent, a, b
    <2>3. CASE sent = <<>>
        <3>1. IsSeq(sent) /\ ToSet(sent) = {}
            BY <2>3, ShortSets
        <3>2. Quiet(sent)
            BY <3>1 DEF Quiet
        <3> QED BY <3>1, <3>2, QuietIsFresh DEF sent
    <2>4. CASE sent = <<a, b>>
        <3>1. IsSeq(sent) /\ Len(sent) = 2 /\ sent[1] = a /\ sent[2] = b
            BY <2>4, TwoOf
        <3>2. ToSet(sent) = {a, b}
            BY <2>4, ShortSets
        <3>3. DOMAIN sent = 1..2
            BY <3>1, DomainOf
        <3>4. \A k \in DOMAIN sent : /\ sent[k].type \notin Lifecycles \cup {"args_done"}
                                     /\ Ends(sent[k]) => k = 1 /\ sent[k].index = c.index
            BY <2>2, <3>1, <3>3 DEF Lifecycles, Ends
        <3>5. EndsFresh(sent, q, cv, G)
            BY <1>4, <3>3, <3>4 DEF EndsFresh, Ends
        <3>6. CallsLast(sent, q, cv, G) /\ WholeFresh(sent, q, cv, G)
            BY <3>4 DEF CallsLast, WholeFresh
        <3>7. Fresh(sent, q, cv, F, G)
            BY <1>4, <3>1, <3>4, <3>5, <3>6 DEF Fresh
        <3> QED BY <1>1, <2>2, <3>2, <3>7 DEF sent
    <2> QED BY <2>1, <2>3, <2>4
<1>5. CASE c.type = "message_start"
    <2> DEFINE a == Lifecycle("created")
               b == Lifecycle("item_added")
    <2>1. sent = <<a, b>>
        BY <1>5 DEF FromAnthropic, AnthropicEvents, Step
    <2>2. a.type = "created" /\ a.index = 0 /\ b.type = "item_added" /\ b.index = 0
        BY EventIs
    <2> HIDE DEF sent, a, b
    <2>3. IsSeq(sent) /\ Len(sent) = 2 /\ sent[1] = a /\ sent[2] = b
        BY <2>1, TwoOf
    <2>4. ToSet(sent) = {a, b}
        BY <2>1, ShortSets
    <2>5. DOMAIN sent = 1..2
        BY <2>3, DomainOf
    <2>6. \A k \in DOMAIN sent : /\ ~Ends(sent[k]) /\ Inert(sent[k])
        BY <2>2, <2>3, <2>5 DEF Ends, Inert, Changes
    <2>7. Fresh(sent, q, cv, F, G)
        BY <1>5, <2>3, <2>6 DEF Fresh, EndsFresh, CallsLast, WholeFresh, Ends
    <2> QED BY <2>2, <2>4, <2>7 DEF sent
<1>6. CASE c.type \in Enders
    <2>1. PICK t \in Lifecycles : sent = <<Lifecycle(t)>>
        BY <1>6 DEF FromAnthropic, AnthropicEvents, Step, Enders, Lifecycles
    <2>2. Lifecycle(t).type = t /\ Lifecycle(t).index = 0
        BY EventIs
    <2> HIDE DEF sent
    <2>3. ToSet(sent) = {Lifecycle(t)}
        BY <2>1, ShortSets
    <2>4. Fresh(sent, q, cv, F, G)
        BY <1>6, <2>1, <2>2, WholeIsFresh
    <2> QED BY <2>2, <2>3, <2>4 DEF sent
<1>7. CASE c.type = "ping"
    <2>1. sent = <<Lifecycle("ping")>>
        BY <1>7 DEF FromAnthropic, AnthropicEvents, Step
    <2> HIDE DEF sent
    <2>2. IsSeq(sent) /\ ToSet(sent) = {Lifecycle("ping")}
        BY <2>1, ShortSets
    <2>3. Quiet(sent) /\ \A e \in ToSet(sent) : e.index \in Nat
        BY <2>2, EventIs DEF Quiet, Ends, Lifecycles
    <2> QED BY <2>3, QuietIsFresh DEF sent
<1> QED BY <1>2, <1>3, <1>4, <1>5, <1>6, <1>7 DEF AnthropicForm, AnthropicEvents, Enders

-----------------------------------------------------------------------------
\* s and new are what is left of q and cv: all in them was there before, or
\* was the next to come.
Less(s, new, q, cv) ==
    /\ \A i \in Touched(new) : i \in Touched(cv) \/ \E k \in DOMAIN q : q[k].index = i
    /\ \A i \in TextIn(new) : i \in TextIn(cv) \/ \E k \in DOMAIN q : Texts(q[k]) /\ q[k].index = i
    /\ \A k \in DOMAIN s : \E j \in DOMAIN q : s[k] = q[j]
    /\ q = <<>> => s = <<>> /\ new = cv

LEMMA WithinIsLess ==
    ASSUME NEW q, IsSeq(q), NEW s, Within(s, q), NEW cv
    PROVE  Less(s, cv, q, cv)
<1>1. PICK g \in [DOMAIN s -> DOMAIN q] : \A k \in DOMAIN s : s[k] = q[g[k]]
    BY DEF Within
<1>2. IsSeq(s)
    BY DEF Within
<1>3. q = <<>> => s = <<>>
    <2>1. q = <<>> => DOMAIN q = {}
        BY DomainOf
    <2>2. DOMAIN s = 1..Len(s) /\ Len(s) \in Nat
        BY <1>2, DomainOf
    <2>3. q = <<>> => Len(s) = 0
        BY <1>1, <2>1, <2>2
    <2> QED BY <1>2, <2>3, DomainOf
<1> QED BY <1>1, <1>3 DEF Less

LEMMA TakenIsLess ==
    ASSUME NEW q, IsSeq(q), NEW s, Taken(q, s), NEW cv, NEW new, Follows(cv, q[1], new)
    PROVE  Less(s, new, q, cv)
<1>1. /\ DOMAIN q = 1..Len(q) /\ Len(q) \in Nat /\ Len(q) > 0
      /\ DOMAIN s = 1..Len(s) /\ Len(s) = Len(q) - 1
    BY DomainOf DEF Taken
<1>2. \A n \in DOMAIN s : s[n] = q[n + 1] /\ n + 1 \in DOMAIN q
    BY <1>1 DEF Taken
<1>3. 1 \in DOMAIN q
    BY <1>1
<1>4. \A i \in Touched(new) : i \in Touched(cv) \/ i = q[1].index
    BY DEF Follows, Touched
<1>5. \A i \in TextIn(new) : i \in TextIn(cv) \/ (i = q[1].index /\ Texts(q[1]))
    BY DEF Follows
<1>6. q # <<>>
    BY DEF Taken
<1> QED BY <1>2, <1>3, <1>4, <1>5, <1>6 DEF Less

LEMMA ChatLess ==
    ASSUME NEW q, NEW s, NEW cv, NEW new, Less(s, new, q, cv),
           NEW st, NEW u, NEW cs, ChatPlaces(st, u, cs, q, cv)
    PROVE  ChatPlaces(st, u, cs, s, new)
<1>1. \A k \in DOMAIN s : \E j \in DOMAIN q : s[k] = q[j]
    BY DEF Less
<1>2. ~st.calls => /\ \A i \in Touched(new) : i <= st.block
                   /\ \A k \in DOMAIN s : s[k].index <= st.block
    BY <1>1 DEF Less, ChatPlaces
<1>3. \A i \in TextIn(new) : i <= st.block
    BY DEF Less, ChatPlaces
<1>4. \A k \in DOMAIN s : Texts(s[k]) => s[k].index <= st.block
    BY <1>1 DEF ChatPlaces
<1> QED BY <1>2, <1>3, <1>4 DEF ChatPlaces

LEMMA ResponseLess ==
    ASSUME NEW q, NEW s, NEW cv, NEW new, Less(s, new, q, cv),
           NEW st, ResponsePlaces(st, q, cv)
    PROVE  ResponsePlaces(st, s, new)
<1>1. \A k \in DOMAIN s : \E j \in DOMAIN q : s[k] = q[j]
    BY DEF Less
<1>2. \A i \in TextIn(new) : i < st.next - 1
    BY DEF Less, ResponsePlaces
<1>3. \A k \in DOMAIN s : Texts(s[k]) => s[k].index < st.next - 1
    BY <1>1 DEF ResponsePlaces
<1> QED BY <1>2, <1>3 DEF ResponsePlaces

LEMMA AnthropicLess ==
    ASSUME NEW q, NEW s, NEW cv, NEW new, Less(s, new, q, cv),
           NEW u, NEW cs, NEW open, NEW still, still => open, AnthropicChunks(u, cs, open, q, cv)
    PROVE  AnthropicChunks(u, cs, still, s, new)
<1>1. q = <<>> => s = <<>> /\ new = cv
    BY DEF Less
<1> QED BY <1>1 DEF AnthropicChunks

LEMMA PipeLess ==
    ASSUME NEW q, NEW s, NEW cv, NEW new, Less(s, new, q, cv),
           \A k \in DOMAIN q : q[k].index \in Nat, Touched(cv) \subseteq Nat
    PROVE  (\A k \in DOMAIN s : s[k].index \in Nat) /\ Touched(new) \subseteq Nat
BY DEF Less

\* A step that takes events out of the pipe, or none.
LEMMA LessStep ==
    ASSUME StreamInv, UNCHANGED <<kind, up, chunks>>, body' = "open" => body = "open",
           Less(InFlight', converter'.cv, InFlight, converter.cv), ConvOK(converter'.cv),
           DOMAIN provider' = {"pc", "st", "pend"}, provider'.st = provider.st,
           provider'.pc = provider.pc \/ provider'.pc \in {"closing", "done"},
           IsSeq(provider'.pend), IsSeq(events'), kind = "whole" => events' = <<>>,
           DOMAIN converter' = {"pc", "cv", "pend"},
           DOMAIN handler' = {"pc", "event", "final", "ending"}
    PROVE  PipeOK' /\ UpstreamOK' /\ ProviderOK' /\ Endable' \subseteq Endable
<1> DEFINE q == InFlight
           s == InFlight'
           cv == converter.cv
           new == converter'.cv
<1>1. /\ PipeOK /\ UpstreamOK /\ ProviderOK /\ Less(s, new, q, cv)
    BY DEF StreamInv
<1>2. PipeOK'
    <2>1. (\A k \in DOMAIN q : q[k].index \in Nat) /\ Touched(cv) \subseteq Nat
        BY <1>1 DEF PipeOK
    <2> HIDE DEF q, s, cv, new
    <2>2. (\A k \in DOMAIN s : s[k].index \in Nat) /\ Touched(new) \subseteq Nat
        BY <1>1, <2>1, PipeLess
    <2> QED BY <2>2 DEF PipeOK, s, new
<1>3. UpstreamOK'
    <2>1. kind = "anthropic" => AnthropicChunks(up, chunks, body' = "open", s, new)
        <3> HIDE DEF q, s, cv, new
        <3>1. kind = "anthropic" => AnthropicChunks(up, chunks, body = "open", q, cv)
            BY <1>1 DEF UpstreamOK, q, cv
        <3> QED BY <1>1, <3>1, AnthropicLess
    <2> QED BY <1>1, <2>1 DEF UpstreamOK
<1>4. ProviderOK'
    <2>1. provider.pc = "blocks" => ResponsePlaces(provider.st, s, new)
        <3> HIDE DEF q, s, cv, new
        <3>1. provider.pc = "blocks" => ResponsePlaces(provider.st, q, cv)
            BY <1>1 DEF ProviderOK, q, cv
        <3> QED BY <1>1, <3>1, ResponseLess
    <2>2. provider.pc = "run" /\ kind = "chat" => ChatPlaces(provider.st, up, chunks, s, new)
        <3> HIDE DEF q, s, cv, new
        <3>1. provider.pc = "run" /\ kind = "chat" => ChatPlaces(provider.st, up, chunks, q, cv)
            BY <1>1 DEF ProviderOK, q, cv
        <3> QED BY <1>1, <3>1, ChatLess
    <2> QED BY <1>1, <2>1, <2>2 DEF ProviderOK
<1>5. Endable' \subseteq Endable
    <2>1. CASE provider'.pc = provider.pc
        BY <2>1 DEF Endable, AllTaken
    <2>2. CASE provider'.pc \in {"closing", "done"}
        BY <2>2 DEF Endable
    <2> QED BY <2>1, <2>2
<1> QED BY <1>2, <1>3, <1>4, <1>5

\* A step of which the conversion knows nothing, with what it says next.
LEMMA WithinStep ==
    ASSUME StreamInv, UNCHANGED <<kind, up, chunks>>, body' = "open" => body = "open",
           Within(InFlight', InFlight), converter'.cv = converter.cv,
           DOMAIN provider' = {"pc", "st", "pend"}, provider'.st = provider.st,
           provider'.pc = provider.pc \/ provider'.pc \in {"closing", "done"},
           IsSeq(provider'.pend), IsSeq(events'), kind = "whole" => events' = <<>>,
           DOMAIN converter' = {"pc", "cv", "pend"},
           DOMAIN handler' = {"pc", "event", "final", "ending"},
           BeginOK',
           SaidOK(converter'.pend, handler'.event, InFlight, converter.cv, Endable)
    PROVE  StreamInv'
<1> DEFINE q == InFlight
           s == InFlight'
           cv == converter.cv
           F == Endable
           G == Endable'
           pend == converter'.pend
           event == handler'.event
<1>1. Less(s, cv, q, cv) /\ IsSeq(q)
    <2>1. IsSeq(q)
        BY JointIs DEF StreamInv, PipeOK, InFlight
    <2>2. Within(s, q)
        OBVIOUS
    <2> HIDE DEF q, s, cv
    <2> QED BY <2>1, <2>2, WithinIsLess
<1>2. PipeOK' /\ UpstreamOK' /\ ProviderOK' /\ G \subseteq F
    BY <1>1, LessStep DEF StreamInv, PipeOK
<1>3. Flow(q, cv, F) /\ Within(s, q) /\ SaidOK(pend, event, q, cv, F)
    BY DEF StreamInv
<1>4. Flow(s, cv, G) /\ SaidOK(pend, event, s, cv, G)
    <2> HIDE DEF q, s, cv, F, G, pend, event
    <2>1. Flow(s, cv, G)
        BY <1>1, <1>2, <1>3, FlowWithin
    <2>2. SaidOK(pend, event, s, cv, G)
        BY <1>2, <1>3, SaidWithin
    <2> QED BY <2>1, <2>2
<1> QED BY <1>2, <1>4 DEF StreamInv

\* A step of the converter, which takes the next event in flight.
LEMMA TakenStep ==
    ASSUME StreamInv, UNCHANGED <<kind, up, chunks, body, handler>>,
           handler.pc # "begin",
           Taken(InFlight, InFlight'), converter.pend = <<>>, converter' = Converted(InFlight[1]),
           DOMAIN provider' = {"pc", "st", "pend"}, provider'.st = provider.st,
           provider'.pc = provider.pc, IsSeq(provider'.pend),
           IsSeq(events'), kind = "whole" => events' = <<>>
    PROVE  StreamInv' /\ (handler.event # NoEvent => ~Tears(handler.event, converter.cv, converter'.cv))
<1> DEFINE q == InFlight
           s == InFlight'
           cv == converter.cv
           r == Convert(cv, q[1])
           new == r.cv
           F == Endable
           G == Endable'
           pend == converter.pend
           event == handler.event
<1>1. converter' = [converter EXCEPT !.cv = r.cv, !.pend = r.sse]
    BY DEF Converted
<1>2. /\ PipeOK /\ Flow(q, cv, F) /\ SaidOK(pend, event, q, cv, F) /\ Taken(q, s)
      /\ pend = <<>> /\ ConvOK(cv)
    BY DEF StreamInv, PipeOK
<1>3. /\ converter'.cv = r.cv /\ converter'.pend = r.sse
      /\ DOMAIN converter' = {"pc", "cv", "pend"}
    BY <1>1, <1>2 DEF PipeOK
<1>4. IsSeq(q)
    BY <1>2, JointIs DEF PipeOK, InFlight
<1>5. HandlerOK(cv, q[1], r) /\ (Inert(q[1]) => r.cv = cv)
    <2> HIDE DEF cv, q
    <2> QED BY <1>2, ConvertOK
<1>6. Follows(cv, q[1], r.cv) /\ ConvOK(r.cv)
    <2> HIDE DEF cv, q, r
    <2> QED BY <1>5 DEF HandlerOK, Follows
<1>7. Less(s, new, q, cv)
    <2> HIDE DEF q, s, cv, r
    <2> QED BY <1>2, <1>4, <1>6, TakenIsLess
<1>8. PipeOK' /\ UpstreamOK' /\ ProviderOK' /\ G \subseteq F
    BY <1>2, <1>3, <1>6, <1>7, LessStep DEF PipeOK
<1>9. G = F
    BY DEF Endable, AllTaken
<1>10. Flow(s, new, F)
    <2> HIDE DEF q, s, cv, r, F
    <2> QED BY <1>2, <1>4, <1>5, <1>6, FlowTaken
<1>11. SaidOK(r.sse, event, s, new, F)
    <2> HIDE DEF q, s, cv, r, F, pend, event
    <2> QED BY <1>2, <1>4, <1>5, SaidTaken
<1>12. BeginOK'
    BY DEF BeginOK
<1>13. StreamInv'
    BY <1>3, <1>8, <1>9, <1>10, <1>11, <1>12 DEF StreamInv
<1>14. event # NoEvent => ~Tears(event, cv, new)
    <2>1. q # <<>>
        BY <1>2 DEF Taken
    <2> HIDE DEF q, s, cv, r, F, pend, event
    <2> QED BY <1>2, <1>4, <1>6, <2>1, NotTorn
<1> QED BY <1>3, <1>13, <1>14

\* A step of the provider that sends events after all in flight.
LEMMA GrownStep ==
    ASSUME StreamInv, UNCHANGED <<kind, events, converter, handler>>, handler.pc # "begin",
           provider.pend = <<>>, DOMAIN provider' = {"pc", "st", "pend"},
           \A e \in ToSet(provider'.pend) : e.index \in Nat,
           Fresh(provider'.pend, InFlight, converter.cv, Endable, Endable')
    PROVE  /\ PipeOK' /\ BeginOK'
           /\ Flow(InFlight, converter.cv, Endable)'
           /\ SaidOK(converter.pend, handler.event, InFlight, converter.cv, Endable)'
           /\ IsSeq(InFlight) /\ Grown(InFlight, provider'.pend, InFlight')
<1> DEFINE q == InFlight
           s == InFlight'
           cv == converter.cv
           F == Endable
           G == Endable'
           pend == converter.pend
           event == handler.event
           sent == provider'.pend
<1>1. /\ PipeOK /\ Flow(q, cv, F) /\ SaidOK(pend, event, q, cv, F) /\ Fresh(sent, q, cv, F, G)
    BY DEF StreamInv
<1>2. IsSeq(sent)
    <2> HIDE DEF sent
    <2> QED BY <1>1 DEF Fresh
<1>3. IsSeq(events) /\ q = Joint(events, provider.pend) /\ s = Joint(events, sent)
    BY <1>1 DEF PipeOK, InFlight
<1>4. q = events /\ Grown(q, sent, s)
    <2> HIDE DEF q, s, sent
    <2> QED BY <1>2, <1>3, JointGrown
<1>5. Flow(s, cv, G) /\ SaidOK(pend, event, s, cv, G)
    <2> HIDE DEF q, s, cv, F, G, pend, event, sent
    <2>1. Flow(s, cv, G)
        BY <1>1, <1>3, <1>4, FlowGrown
    <2>2. SaidOK(pend, event, s, cv, G)
        BY <1>1, <1>3, <1>4, SaidGrown
    <2> QED BY <2>1, <2>2
<1>6. \A k \in DOMAIN s : s[k].index \in Nat
    <2>1. \A k \in DOMAIN q : q[k].index \in Nat
        BY <1>1 DEF PipeOK
    <2>2. \A k \in DOMAIN sent : sent[k].index \in Nat
        BY DEF ToSet
    <2> HIDE DEF q, s, cv, F, G, pend, event, sent
    <2>3. \A k \in DOMAIN s : (k \in DOMAIN q /\ s[k] = q[k])
                              \/ \E m \in DOMAIN sent : s[k] = sent[m]
        BY <1>2, <1>3, <1>4, GrownIs
    <2> QED BY <2>1, <2>2, <2>3
<1>7. PipeOK' /\ BeginOK'
    BY <1>1, <1>2, <1>6 DEF PipeOK, BeginOK
<1> QED BY <1>3, <1>4, <1>5, <1>7

-----------------------------------------------------------------------------
\* The actions.  The handler takes the next event, or has written one.
LEMMA SaidNext ==
    ASSUME NEW pend, pend # <<>>, NEW event, event = NoEvent, NEW q, NEW cv, NEW F,
           SaidOK(pend, event, q, cv, F), NEW next, next = Head(pend)
    PROVE  SaidOK(Tail(pend), next, q, cv, F)
<1> DEFINE s == Tail(pend)
<1>1. IsSeq(pend)
    BY DEF SaidOK
<1>2. /\ Head(pend) = pend[1] /\ Len(pend) > 0 /\ IsSeq(s) /\ Len(s) = Len(pend) - 1
      /\ \A n \in 1..(Len(pend) - 1) : s[n] = pend[n + 1]
    BY <1>1, TailOf
<1>3. DOMAIN pend = 1..Len(pend) /\ Len(pend) \in Nat /\ DOMAIN s = 1..Len(s)
    BY <1>1, <1>2, DomainOf
<1>4. s # <<>> <=> Len(s) # 0
    BY <1>2, DomainOf
<1> HIDE DEF s
<1>5. \A k \in DOMAIN s : k + 1 \in DOMAIN pend /\ s[k] = pend[k + 1]
    BY <1>2, <1>3
<1>6. 1 \in DOMAIN pend /\ next = pend[1]
    BY <1>2, <1>3
<1>7. \A k \in DOMAIN s : /\ SseOK(s[k], q, cv, F)
                          /\ s[k].kind = "added" /\ Message(s[k], cv) => k < Len(s)
    <2> TAKE k \in DOMAIN s
    <2>1. SseOK(pend[k + 1], q, cv, F)
          /\ (pend[k + 1].kind = "added" /\ Message(pend[k + 1], cv) => k + 1 < Len(pend))
        BY <1>5 DEF SaidOK
    <2>2. s[k] = pend[k + 1] /\ (k + 1 < Len(pend) => k < Len(s))
        BY <1>2, <1>3, <1>5
    <2> QED BY <2>1, <2>2
<1>8. SseOK(next, q, cv, F) /\ (next.kind = "added" /\ Message(next, cv) => s # <<>>)
    <2>1. SseOK(pend[1], q, cv, F) /\ (pend[1].kind = "added" /\ Message(pend[1], cv) => 1 < Len(pend))
        BY <1>6 DEF SaidOK
    <2> QED BY <1>2, <1>3, <1>4, <1>6, <2>1
<1> QED BY <1>2, <1>7, <1>8 DEF SaidOK, s

LEMMA SaidWritten ==
    ASSUME NEW pend, NEW event, NEW q, NEW cv, NEW F, SaidOK(pend, event, q, cv, F),
           NEW none, none = NoEvent
    PROVE  SaidOK(pend, none, q, cv, F)
BY DEF SaidOK

\* A step with the same events in flight.
LEMMA StillStep ==
    ASSUME StreamInv, UNCHANGED <<kind, up, chunks, events, provider>>,
           body' = "open" => body = "open", converter'.cv = converter.cv,
           DOMAIN converter' = {"pc", "cv", "pend"},
           DOMAIN handler' = {"pc", "event", "final", "ending"},
           BeginOK',
           SaidOK(converter'.pend, handler'.event, InFlight, converter.cv, Endable)
    PROVE  StreamInv'
<1>1. InFlight' = InFlight
    BY DEF InFlight
<1>2. IsSeq(InFlight)
    BY JointIs DEF StreamInv, PipeOK, InFlight
<1>3. Within(InFlight', InFlight)
    BY <1>1, <1>2, WithinItself
<1> QED BY <1>3, WithinStep DEF StreamInv, PipeOK, ProviderOK

LEMMA ReceiveKeeps == ASSUME StreamInv, Receive PROVE StreamInv'
<1> DEFINE pend == converter.pend
           event == handler.event
           next == Head(pend)
           q == InFlight
           cv == converter.cv
           F == Endable
<1>1. DOMAIN converter = {"pc", "cv", "pend"} /\ DOMAIN handler = {"pc", "event", "final", "ending"}
    BY DEF StreamInv, PipeOK
<1>2. /\ handler'.event = next /\ handler'.pc = "loop"
      /\ DOMAIN handler' = {"pc", "event", "final", "ending"}
    BY <1>1 DEF Receive
<1>3. /\ converter'.cv = cv /\ converter'.pend = Tail(pend)
      /\ DOMAIN converter' = {"pc", "cv", "pend"}
    BY <1>1 DEF Receive
<1>4. SaidOK(pend, event, q, cv, F) /\ pend # <<>> /\ event = NoEvent
    BY DEF StreamInv, Receive
<1>5. SaidOK(Tail(pend), next, q, cv, F)
    <2>1. next = Head(pend)
        OBVIOUS
    <2> HIDE DEF pend, event, next, q, cv, F
    <2> QED BY <1>4, <2>1, SaidNext
<1>6. BeginOK'
    BY <1>2 DEF BeginOK
<1> QED BY <1>2, <1>3, <1>5, <1>6, StillStep DEF Receive

LEMMA WriteKeeps == ASSUME StreamInv, Write \/ WriteFails PROVE StreamInv'
<1> DEFINE pend == converter.pend
           event == handler.event
           none == handler'.event
           q == InFlight
           cv == converter.cv
           F == Endable
<1>1. DOMAIN converter = {"pc", "cv", "pend"} /\ DOMAIN handler = {"pc", "event", "final", "ending"}
    BY DEF StreamInv, PipeOK
<1>2. /\ handler'.event = NoEvent /\ handler'.pc # "begin"
      /\ DOMAIN handler' = {"pc", "event", "final", "ending"}
    BY <1>1 DEF Write, WriteFails, AfterLoop
<1>3. SaidOK(pend, event, q, cv, F)
    BY DEF StreamInv
<1>4. SaidOK(pend, none, q, cv, F)
    <2> HIDE DEF pend, event, none, q, cv, F
    <2> QED BY <1>2, <1>3, SaidWritten DEF none
<1>5. BeginOK'
    BY <1>2 DEF BeginOK
<1>6. UNCHANGED <<kind, up, chunks, events, provider, body, converter>>
    BY DEF Write, WriteFails
<1> QED BY <1>1, <1>2, <1>4, <1>5, <1>6, StillStep

\* What the handler does after its loop, and what others do without the pipe.
LEMMA RestKeeps ==
    ASSUME StreamInv,
           \/ Refuse \/ LoopEnds \/ RememberCompleted \/ RememberBuffer \/ Return
           \/ ConverterDone \/ UpstreamEnds \/ ReaderStops \/ ClientLeaves
    PROVE  StreamInv'
<1>1. DOMAIN converter = {"pc", "cv", "pend"} /\ DOMAIN handler = {"pc", "event", "final", "ending"}
    BY DEF StreamInv, PipeOK
<1>2. UNCHANGED <<kind, up, chunks, events, provider>>
    BY DEF Refuse, LoopEnds, RememberCompleted, RememberBuffer, Return, ConverterDone,
           UpstreamEnds, ReaderStops, ClientLeaves
<1>3. body' = "open" => body = "open"
    BY DEF Refuse, LoopEnds, RememberCompleted, RememberBuffer, Return, ConverterDone,
           UpstreamEnds, ReaderStops, ClientLeaves
<1>4. /\ converter'.cv = converter.cv /\ converter'.pend = converter.pend
      /\ DOMAIN converter' = {"pc", "cv", "pend"}
    BY <1>1 DEF Refuse, LoopEnds, RememberCompleted, RememberBuffer, Return, ConverterDone,
           UpstreamEnds, ReaderStops, ClientLeaves
<1>5. /\ handler'.event = handler.event /\ DOMAIN handler' = {"pc", "event", "final", "ending"}
      /\ handler'.pc = "begin" => handler.pc = "begin"
    BY <1>1 DEF Refuse, LoopEnds, RememberCompleted, RememberBuffer, Return, ConverterDone,
           UpstreamEnds, ReaderStops, ClientLeaves, AfterLoop
<1>6. BeginOK'
    <2>1. CASE handler.pc = "begin"
        <3>1. UNCHANGED body
            BY <2>1 DEF Refuse, LoopEnds, RememberCompleted, RememberBuffer, Return, ConverterDone,
               UpstreamEnds, ReaderStops, ClientLeaves, StreamInv, BeginOK
        <3> QED BY <1>2, <1>4, <1>5, <2>1, <3>1 DEF StreamInv, BeginOK
    <2>2. CASE handler.pc # "begin"
        BY <1>5, <2>2 DEF BeginOK
    <2> QED BY <2>1, <2>2
<1>7. SaidOK(converter'.pend, handler'.event, InFlight, converter.cv, Endable)
    BY <1>4, <1>5 DEF StreamInv
<1> QED BY <1>2, <1>3, <1>4, <1>5, <1>6, <1>7, StillStep

\* Events on their way, or dropped.
LEMMA EmitKeeps == ASSUME StreamInv, Emit \/ Drop \/ ProviderDone \/ ProviderStops PROVE StreamInv'
<1> DEFINE s == events
           t == provider.pend
           F == Endable
<1>1. /\ DOMAIN provider = {"pc", "st", "pend"} /\ IsSeq(s) /\ IsSeq(t)
      /\ kind = "whole" => events = <<>>
    BY DEF StreamInv, PipeOK, ProviderOK
<1>2. UNCHANGED <<kind, up, chunks, body, converter, handler>>
    BY DEF Emit, Drop, ProviderDone, ProviderStops
<1>3. /\ DOMAIN provider' = {"pc", "st", "pend"} /\ provider'.st = provider.st
      /\ provider'.pc = provider.pc \/ provider'.pc \in {"closing", "done"}
    BY <1>1 DEF Emit, Drop, ProviderDone, ProviderStops
<1>4. handler.pc # "begin"
    BY DEF Emit, Drop, ProviderDone, ProviderStops, StreamInv, BeginOK
<1>5. BeginOK'
    BY <1>2, <1>4 DEF BeginOK
<1>6. /\ DOMAIN converter = {"pc", "cv", "pend"} /\ DOMAIN handler = {"pc", "event", "final", "ending"}
      /\ SaidOK(converter.pend, handler.event, InFlight, converter.cv, F)
    BY DEF StreamInv, PipeOK
<1>7. /\ IsSeq(provider'.pend) /\ IsSeq(events') /\ (kind = "whole" => events' = <<>>)
      /\ Within(InFlight', InFlight)
    <2>1. CASE Emit
        <3>1. /\ t # <<>> /\ events' = Append(s, Head(t)) /\ provider'.pend = Tail(t)
              /\ kind # "whole"
            BY <1>1, <2>1 DEF Emit, Unbuffered
        <3>2. IsSeq(Tail(t)) /\ IsSeq(Append(s, Head(t)))
            <4> HIDE DEF s, t
            <4> QED BY <1>1, <3>1, TailOf, AppendOf
        <3>3. Joint(Append(s, Head(t)), Tail(t)) = Joint(s, t)
            <4> HIDE DEF s, t
            <4> QED BY <1>1, <3>1, JointMoved
        <3>4. InFlight' = InFlight
            BY <3>1, <3>3 DEF InFlight
        <3>5. IsSeq(InFlight)
            BY <1>1, JointIs DEF InFlight
        <3>6. Within(InFlight', InFlight)
            BY <3>4, <3>5, WithinItself
        <3> QED BY <3>1, <3>2, <3>6
    <2>2. CASE Drop /\ kind \in Streams
        <3>1. t # <<>> /\ events' = s /\ provider'.pend = Tail(t)
            BY <1>1, <2>2 DEF Drop
        <3>2. IsSeq(Tail(t)) /\ Within(Joint(s, Tail(t)), Joint(s, t))
            <4> HIDE DEF s, t
            <4> QED BY <1>1, <3>1, TailOf, JointDropped
        <3> QED BY <1>1, <3>1, <3>2 DEF InFlight
    <2>3. CASE Drop /\ kind \notin Streams
        <3> DEFINE none == provider'.pend
        <3>1. events' = s /\ none = <<>>
            BY <1>1, <2>3 DEF Drop
        <3>2. Within(Joint(s, none), Joint(s, t)) /\ IsSeq(none)
            <4> HIDE DEF s, t, none
            <4> QED BY <1>1, <3>1, JointCleared, NoneOf
        <3> QED BY <1>1, <3>1, <3>2 DEF InFlight
    <2>4. CASE ProviderDone \/ ProviderStops
        <3>1. events' = s /\ provider'.pend = t
            BY <1>1, <2>4 DEF ProviderDone, ProviderStops
        <3>2. InFlight' = InFlight
            BY <3>1 DEF InFlight
        <3>3. IsSeq(InFlight)
            BY <1>1, JointIs DEF InFlight
        <3>4. Within(InFlight', InFlight)
            BY <3>2, <3>3, WithinItself
        <3> QED BY <1>1, <3>1, <3>4
    <2> QED BY <2>1, <2>2, <2>3, <2>4
<1>8. /\ converter' = converter /\ handler' = handler /\ UNCHANGED <<kind, up, chunks>>
      /\ body' = body
    BY <1>2
<1>9. /\ SaidOK(converter'.pend, handler'.event, InFlight, converter.cv, Endable)
      /\ DOMAIN converter' = {"pc", "cv", "pend"} /\ converter'.cv = converter.cv
      /\ DOMAIN handler' = {"pc", "event", "final", "ending"}
    BY <1>6, <1>8
<1> HIDE DEF s, t, F
<1> QED BY <1>3, <1>5, <1>7, <1>8, <1>9, WithinStep

LEMMA JointAlone ==
    ASSUME NEW s, IsSeq(s), Len(s) = 0, NEW t, IsSeq(t)
    PROVE  Joint(s, t) = t
<1>1. Len(t) \in Nat /\ t = [k \in 1..Len(t) |-> t[k]]
    BY DEF IsSeq
<1>2. Joint(s, t) = [k \in 1..Len(t) |-> IF k <= 0 THEN s[k] ELSE t[k - 0]]
    BY <1>1 DEF Joint
<1>3. \A k \in 1..Len(t) : ~(k <= 0) /\ k - 0 = k
    BY <1>1
<1> QED BY <1>1, <1>2, <1>3

\* The converter takes the next event, from the channel or from the provider.
LEMMA ConvertTakes ==
    ASSUME StreamInv, ConvertNext \/ HandOver
    PROVE  StreamInv' /\ (handler.event # NoEvent => ~Tears(handler.event, converter.cv, converter'.cv))
<1> DEFINE s == events
           t == provider.pend
<1>1. /\ DOMAIN provider = {"pc", "st", "pend"} /\ IsSeq(s) /\ IsSeq(t)
      /\ kind = "whole" => s = <<>>
    BY DEF StreamInv, PipeOK, ProviderOK
<1>2. UNCHANGED <<kind, up, chunks, body, handler>> /\ converter.pend = <<>>
    BY DEF ConvertNext, HandOver
<1>3. handler.pc # "begin"
    BY DEF ConvertNext, HandOver, StreamInv, BeginOK
<1>4. /\ Taken(InFlight, InFlight') /\ converter' = Converted(InFlight[1])
      /\ DOMAIN provider' = {"pc", "st", "pend"} /\ provider'.st = provider.st
      /\ provider'.pc = provider.pc /\ IsSeq(provider'.pend)
      /\ IsSeq(events') /\ (kind = "whole" => events' = <<>>)
    <2>1. CASE ConvertNext
        <3>1. /\ s # <<>> /\ events' = Tail(s) /\ provider' = provider
              /\ converter' = Converted(Head(s))
            BY <2>1 DEF ConvertNext
        <3>2. /\ Taken(Joint(s, t), Joint(Tail(s), t)) /\ Joint(s, t)[1] = Head(s)
              /\ IsSeq(Tail(s))
            <4> HIDE DEF s, t
            <4> QED BY <1>1, <3>1, JointTaken, TailOf
        <3>3. kind # "whole"
            BY <1>1, <3>1
        <3> QED BY <1>1, <3>1, <3>2, <3>3 DEF InFlight
    <2>2. CASE HandOver
        <3>1. /\ t # <<>> /\ events' = s /\ provider' = [provider EXCEPT !.pend = Tail(@)]
              /\ converter' = Converted(Head(t)) /\ kind = "whole"
            BY <2>2 DEF HandOver, Unbuffered
        <3>2. /\ DOMAIN provider' = {"pc", "st", "pend"} /\ provider'.st = provider.st
              /\ provider'.pc = provider.pc /\ provider'.pend = Tail(t)
            BY <1>1, <3>1
        <3>3. /\ s = <<>> /\ Head(t) = t[1] /\ IsSeq(Tail(t)) /\ Taken(t, Tail(t))
            <4>1. s = <<>>
                BY <1>1, <3>1
            <4> HIDE DEF s, t
            <4>2. Head(t) = t[1] /\ IsSeq(Tail(t)) /\ Len(Tail(t)) = Len(t) - 1
                  /\ \A n \in 1..(Len(t) - 1) : Tail(t)[n] = t[n + 1]
                BY <1>1, <3>1, TailOf
            <4>3. DOMAIN Tail(t) = 1..(Len(t) - 1)
                BY <4>2, DomainOf
            <4> QED BY <3>1, <4>1, <4>2, <4>3 DEF Taken
        <3>4. Joint(s, t) = t /\ Joint(s, Tail(t)) = Tail(t)
            <4> HIDE DEF s, t
            <4>1. IsSeq(s) /\ Len(s) = 0
                BY <1>1, <3>3, DomainOf
            <4> QED BY <1>1, <3>3, <4>1, JointAlone
        <3> QED BY <1>1, <3>1, <3>2, <3>3, <3>4 DEF InFlight
    <2> QED BY <2>1, <2>2
<1> HIDE DEF s, t
<1> QED BY <1>2, <1>3, <1>4, TakenStep

\* A block of a response: its start, what it says, and its end.
LEMMA BlockStep ==
    ASSUME NEW st, NEW q, NEW cv, ResponsePlaces(st, q, cv), Touched(cv) \subseteq Nat,
           \A k \in DOMAIN q : q[k].index \in Nat
    PROVE  LET sent == BlockEvents(st.blocks, st.next)
           IN  /\ Fresh(sent, q, cv, From(st.next - 1), From(st.next))
               /\ \A e \in ToSet(sent) : e.index = st.next - 1
<1> DEFINE sent == BlockEvents(st.blocks, st.next)
           block == st.blocks[st.next]
           i == st.next - 1
           F == From(i)
           G == From(st.next)
<1>1. i \in Nat /\ st.next = i + 1
    BY DEF ResponsePlaces
<1>2. G \subseteq F /\ i \in F /\ i \notin G
    BY <1>1 DEF From
<1>3. (\A n \in TextIn(cv) : n < i) /\ (\A k \in DOMAIN q : Texts(q[k]) => q[k].index < i)
    BY DEF ResponsePlaces
<1>4. TextIn(cv) \subseteq Nat
    BY DEF TextIn, Touched
<1>5. CASE block.kind = "call"
    <2> DEFINE x == BlockStarted(i, IF block.nested THEN "nested" ELSE "tool_use", block.id)
               y == ArgsDone(i, block.data)
               z == BlockDone(i)
    <2>1. sent = <<x, y, z>>
        BY <1>5 DEF BlockEvents
    <2>2. /\ x.type = "block_started" /\ x.index = i /\ x.block \in {"nested", "tool_use"}
          /\ y.type = "args_done" /\ y.index = i /\ z.type = "block_done" /\ z.index = i
        BY EventIs
    <2> HIDE DEF sent, x, y, z
    <2>3. IsSeq(sent) /\ Len(sent) = 3 /\ sent[1] = x /\ sent[2] = y /\ sent[3] = z
        BY <2>1, ThreeOf
    <2>4. ToSet(sent) = {x, y, z}
        BY <2>1, ShortSets
    <2>5. DOMAIN sent = 1..3
        BY <2>3, DomainOf
    <2>6. /\ ~Ends(x) /\ ~Texts(x) /\ Ends(y) /\ Ends(z) /\ ~Texts(y)
        BY <2>2 DEF Ends, Texts
    <2> HIDE DEF i, F, G
    <2>7. EndsFresh(sent, q, cv, G)
        <3> SUFFICES ASSUME NEW k \in DOMAIN sent, sent[k].type = "block_done"
                     PROVE  /\ sent[k].index \notin G
                            /\ \A j \in DOMAIN sent : j > k /\ Ends(sent[j]) => sent[j].index # sent[k].index
            BY DEF EndsFresh
        <3>1. k = 3
            BY <2>2, <2>3, <2>5
        <3> QED BY <1>2, <2>2, <2>3, <2>5, <3>1
    <2>8. CallsLast(sent, q, cv, G)
        <3> SUFFICES ASSUME NEW k \in DOMAIN sent, sent[k].type = "args_done"
                     PROVE  /\ \A n \in TextIn(cv) : Clear(n, k, sent, G)
                            /\ \A l \in DOMAIN q : Texts(q[l]) => Clear(q[l].index, k, sent, G)
                            /\ \A l \in DOMAIN sent : l < k /\ Texts(sent[l]) => Clear(sent[l].index, k, sent, G)
            BY DEF CallsLast
        <3>1. k = 2
            BY <2>2, <2>3, <2>5
        <3>2. \A n : n \in Nat /\ n < i => Clear(n, k, sent, G)
            <4> TAKE n
            <4> HAVE n \in Nat /\ n < i
            <4>1. n \notin G /\ n # i
                BY <1>1 DEF G, From
            <4>2. \A j \in DOMAIN sent : sent[j].index = i
                BY <2>2, <2>3, <2>5
            <4> QED BY <4>1, <4>2 DEF Clear
        <3>3. \A l \in DOMAIN sent : l < k => ~Texts(sent[l])
            BY <2>3, <2>5, <2>6, <3>1
        <3> QED BY <1>3, <1>4, <3>2, <3>3
    <2>9. WholeFresh(sent, q, cv, G)
        BY <2>2, <2>3, <2>5 DEF WholeFresh, Lifecycles
    <2>10. \A k \in DOMAIN sent : sent[k].index \in F
        BY <1>2, <2>2, <2>3, <2>5
    <2>11. Fresh(sent, q, cv, F, G)
        BY <1>2, <2>3, <2>7, <2>8, <2>9, <2>10 DEF Fresh
    <2> QED BY <2>2, <2>4, <2>11 DEF i, F, G, sent
<1>6. CASE block.kind # "call"
    <2> DEFINE x == BlockStarted(i, IF block.kind = "reasoning" THEN "reasoning" ELSE "text", 0)
               y == TextDelta(i, block.data)
               start == <<x>>
               text == IF block.data = <<>> THEN Nothing ELSE <<y>>
               end == <<BlockDone(i)>>
    <2>1. sent = (start \o text) \o end
        BY <1>6 DEF BlockEvents, Nothing
    <2>2. /\ x.type = "block_started" /\ x.index = i /\ y.type = "text_delta" /\ y.index = i
          /\ BlockDone(i).index = i
        BY EventIs
    <2>3. end = <<BlockDone(i)>>
        OBVIOUS
    <2> HIDE DEF x, y, sent
    <2>4. Quiet(start) /\ ToSet(start) = {x}
        <3>1. IsSeq(start) /\ ToSet(start) = {x}
            BY ShortSets
        <3> QED BY <2>2, <3>1 DEF Quiet, Ends, Lifecycles
    <2>5. Quiet(text) /\ ToSet(text) \subseteq {y}
        <3>1. CASE block.data # <<>>
            <4>1. IsSeq(text) /\ ToSet(text) = {y}
                BY <3>1, ShortSets
            <4> QED BY <2>2, <4>1 DEF Quiet, Ends, Lifecycles
        <3>2. CASE block.data = <<>>
            <4>1. IsSeq(text) /\ ToSet(text) = {}
                BY <3>2, NothingAdded
            <4> QED BY <4>1 DEF Quiet
        <3> QED BY <3>1, <3>2
    <2>6. IsSeq(end) /\ ToSet(end) = {BlockDone(i)}
        BY ShortSets
    <2> HIDE DEF start, text, end, i, F, G
    <2> DEFINE said == start \o text
    <2>7. Quiet(said) /\ ToSet(said) \subseteq {x, y}
        <3>1. said = Joint(start, text)
            BY <2>4, <2>5, ConcatIs DEF Quiet
        <3> QED BY <2>4, <2>5, <3>1, QuietConcat
    <2>8. sent = said \o end
        BY <2>1
    <2> HIDE DEF said
    <2>9. Fresh(said \o end, q, cv, F, G)
        BY <1>2, <2>3, <2>7, EndIsFresh
    <2>10. ToSet(said \o end) = ToSet(said) \cup ToSet(end)
        BY <2>6, <2>7, ConcatIs DEF Quiet
    <2>11. \A e \in ToSet(sent) : e.index = i
        BY <2>2, <2>6, <2>7, <2>8, <2>10
    <2> QED BY <2>8, <2>9, <2>11 DEF i, F, G, sent
<1> QED BY <1>5, <1>6

-----------------------------------------------------------------------------
\* The next chunk of each stream, for the provider.
LEMMA RestIs ==
    ASSUME NEW cs, IsSeq(cs), cs # <<>>
    PROVE  /\ Head(cs) = cs[1] /\ 1 \in DOMAIN cs /\ Len(cs) \in Nat /\ IsSeq(Tail(cs))
           /\ Len(Tail(cs)) = Len(cs) - 1
           /\ \A k \in DOMAIN Tail(cs) : /\ k \in Nat /\ k > 0 /\ k + 1 \in DOMAIN cs
                                         /\ Tail(cs)[k] = cs[k + 1]
           /\ Tail(cs) = <<>> <=> Len(cs) = 1
<1>1. /\ Head(cs) = cs[1] /\ Len(cs) > 0 /\ IsSeq(Tail(cs)) /\ Len(Tail(cs)) = Len(cs) - 1
      /\ \A n \in 1..(Len(cs) - 1) : Tail(cs)[n] = cs[n + 1]
    BY TailOf
<1>2. Len(cs) \in Nat /\ DOMAIN cs = 1..Len(cs) /\ DOMAIN Tail(cs) = 1..Len(Tail(cs))
    BY <1>1, DomainOf
<1>3. Tail(cs) = <<>> <=> Len(Tail(cs)) = 0
    BY <1>1, DomainOf
<1> HIDE DEF IsSeq
<1> QED BY <1>1, <1>2, <1>3

LEMMA ChatTaken ==
    ASSUME NEW st, ChatState(st), NEW u, NEW cs, IsSeq(cs), cs # <<>>, ChatChunks(u, cs),
           NEW q, IsSeq(q), NEW cv, ChatPlaces(st, u, cs, q, cv), Touched(cv) \subseteq Nat,
           \A k \in DOMAIN q : q[k].index \in Nat,
           NEW G, G = IF u.stage = "finished" /\ Tail(cs) = <<>> THEN {}
                      ELSE From(FromChat(st, Head(cs)).st.block)
    PROVE  LET p == FromChat(st, Head(cs))
           IN  /\ ChatSent(st, p, q, cv, G)
               /\ ChatChunks(u, Tail(cs))
               /\ \A s : Grown(q, p.events, s) => ChatPlaces(p.st, u, Tail(cs), s, cv)
<1> DEFINE c == Head(cs)
           t == Tail(cs)
           p == FromChat(st, c)
<1>1. /\ c = cs[1] /\ 1 \in DOMAIN cs /\ Len(cs) \in Nat /\ IsSeq(t) /\ Len(t) = Len(cs) - 1
      /\ \A k \in DOMAIN t : k \in Nat /\ k > 0 /\ k + 1 \in DOMAIN cs /\ t[k] = cs[k + 1]
      /\ t = <<>> <=> Len(cs) = 1
    BY RestIs
<1>2. /\ G = IF u.stage = "finished" /\ t = <<>> THEN {} ELSE From(p.st.block)
    OBVIOUS
<1> HIDE DEF c, t, p
<1>3. ChatForm(c) /\ ChatRank(c) <= StageRank[u.stage] /\ (c.finish => Len(cs) = 1)
    BY <1>1 DEF ChatChunks
<1>4. c.finish => u.stage = "finished"
    BY <1>3 DEF ChatRank, StageRank, ChatChunks
<1>5. \A k \in DOMAIN t : ChatRank(c) <= ChatRank(t[k])
    BY <1>1 DEF ChatChunks
<1>6. st.calls => ChatRank(c) >= 3 /\ StageRank[u.stage] >= 3
    BY <1>1 DEF ChatPlaces
<1>7. (c.finish => G = {}) /\ G \subseteq From(p.st.block)
    BY <1>1, <1>2, <1>3, <1>4
<1>8. ChatSent(st, p, q, cv, G) /\ (st.calls => p.st.calls) /\ (p.st.calls => st.calls \/ ChatRank(c) = 3)
    BY <1>3, <1>6, <1>7, ChatStep DEF p
<1>9. ChatChunks(u, t)
    <2>1. \A k \in DOMAIN t : /\ ChatForm(t[k])
                              /\ ChatRank(t[k]) <= StageRank[u.stage]
                              /\ t[k].finish => k = Len(t)
        <3> TAKE k \in DOMAIN t
        <3>1. /\ ChatForm(cs[k + 1]) /\ ChatRank(cs[k + 1]) <= StageRank[u.stage]
              /\ cs[k + 1].finish => k + 1 = Len(cs)
            BY <1>1 DEF ChatChunks
        <3> QED BY <1>1, <3>1
    <2>2. \A k, j \in DOMAIN t : k < j => ChatRank(t[k]) <= ChatRank(t[j])
        <3> TAKE k, j \in DOMAIN t
        <3>1. k < j => k + 1 < j + 1
            BY <1>1
        <3>2. k + 1 < j + 1 => ChatRank(cs[k + 1]) <= ChatRank(cs[j + 1])
            BY <1>1 DEF ChatChunks
        <3> QED BY <1>1, <3>1, <3>2
    <2> QED BY <2>1, <2>2 DEF ChatChunks
<1>10. ASSUME NEW s, Grown(q, p.events, s)
       PROVE  ChatPlaces(p.st, u, t, s, cv)
    <2> DEFINE sent == p.events
               old == st.block
               block == p.st.block
    <2>1. /\ old \in Nat /\ block \in Nat /\ old <= block
          /\ IsSeq(sent)
          /\ \A e \in ToSet(sent) : e.index \in Nat /\ (Texts(e) \/ ~p.st.calls => e.index <= block)
        BY <1>8 DEF ChatSent, ChatState, Fresh
    <2>2. \A k \in DOMAIN s : \/ k \in DOMAIN q /\ s[k] = q[k]
                              \/ \E m \in DOMAIN sent : s[k] = sent[m]
        <3> HIDE DEF sent
        <3> QED BY <1>10, <2>1, GrownIs DEF sent
    <2>3. p.st.calls => StageRank[u.stage] >= 3 /\ \A k \in DOMAIN t : ChatRank(t[k]) >= 3
        <3>1. CASE st.calls
            BY <1>1, <1>6, <3>1 DEF ChatPlaces
        <3>2. CASE ~st.calls /\ p.st.calls
            <4>1. ChatRank(c) = 3 /\ StageRank[u.stage] \in Nat
                BY <1>8, <3>2 DEF ChatChunks, StageRank
            <4>2. \A k \in DOMAIN t : ChatRank(t[k]) \in Nat
                BY DEF ChatRank
            <4> QED BY <1>3, <1>5, <4>1, <4>2
        <3> QED BY <3>1, <3>2
    <2>4. ~p.st.calls => /\ \A i \in Touched(cv) : i <= block
                         /\ \A k \in DOMAIN s : s[k].index <= block
        <3> SUFFICES ASSUME ~p.st.calls
                     PROVE  /\ \A i \in Touched(cv) : i <= block
                            /\ \A k \in DOMAIN s : s[k].index <= block
            OBVIOUS
        <3>1. /\ \A i \in Touched(cv) : i <= old
              /\ \A k \in DOMAIN q : q[k].index <= old
            BY <1>8 DEF ChatPlaces
        <3>2. \A i \in Nat : i <= old => i <= block
            BY <2>1
        <3>3. \A m \in DOMAIN sent : sent[m].index <= block
            BY <2>1 DEF ToSet
        <3> QED BY <2>2, <3>1, <3>2, <3>3
    <2>5. \A i \in TextIn(cv) : i <= block
        <3>1. TextIn(cv) \subseteq Nat /\ \A i \in TextIn(cv) : i <= old
            BY DEF ChatPlaces, TextIn, Touched
        <3> QED BY <2>1, <3>1
    <2>6. \A k \in DOMAIN s : Texts(s[k]) => s[k].index <= block
        <3>1. \A k \in DOMAIN q : Texts(q[k]) => q[k].index <= old
            BY DEF ChatPlaces
        <3>2. \A k \in DOMAIN q : Texts(q[k]) => q[k].index <= block
            BY <2>1, <3>1
        <3>3. \A m \in DOMAIN sent : Texts(sent[m]) => sent[m].index <= block
            BY <2>1 DEF ToSet
        <3> QED BY <2>2, <3>2, <3>3
    <2> QED BY <2>3, <2>4, <2>5, <2>6 DEF ChatPlaces
<1> QED BY <1>8, <1>9, <1>10 DEF c, t, p

LEMMA GoogleTaken ==
    ASSUME NEW u, NEW cs, IsSeq(cs), cs # <<>>, GoogleChunks(u, cs)
    PROVE  /\ Head(cs).finish => u.stage = "finished" /\ Tail(cs) = <<>>
           /\ GoogleChunks(u, Tail(cs))
<1> DEFINE t == Tail(cs)
<1>1. /\ Head(cs) = cs[1] /\ 1 \in DOMAIN cs /\ Len(cs) \in Nat /\ Len(t) = Len(cs) - 1
      /\ \A k \in DOMAIN t : k \in Nat /\ k > 0 /\ k + 1 \in DOMAIN cs /\ t[k] = cs[k + 1]
      /\ t = <<>> <=> Len(cs) = 1
    BY RestIs
<1> HIDE DEF t
<1>2. cs[1].finish => u.stage = "finished" /\ 1 = Len(cs)
    BY <1>1 DEF GoogleChunks, Finished
<1>3. \A k \in DOMAIN t : t[k].finish \in BOOLEAN /\ (t[k].finish => k = Len(t) /\ Finished(u))
    <2> TAKE k \in DOMAIN t
    <2>1. cs[k + 1].finish \in BOOLEAN /\ (cs[k + 1].finish => k + 1 = Len(cs) /\ Finished(u))
        BY <1>1 DEF GoogleChunks
    <2> QED BY <1>1, <2>1
<1> QED BY <1>1, <1>2, <1>3 DEF t, GoogleChunks

LEMMA AnthropicTaken ==
    ASSUME NEW u, NEW cs, IsSeq(cs), cs # <<>>, NEW open, NEW q, IsSeq(q), NEW cv,
           AnthropicChunks(u, cs, open, q, cv)
    PROVE  LET c == Head(cs)
               F == Stops(cs) \cup Unstopped(u)
               G == Stops(Tail(cs)) \cup Unstopped(u)
           IN  /\ AnthropicForm(c) /\ G \subseteq F
               /\ c.type = "block_stop" => c.index \in F /\ c.index \notin G
               /\ c.type \in Enders => G = {}
               /\ c.type = "message_start" => DOMAIN q = {} /\ cv.output = <<>>
               /\ \A s : AnthropicChunks(u, Tail(cs), open, s, cv)
<1> DEFINE c == Head(cs)
           t == Tail(cs)
           F == Stops(cs) \cup Unstopped(u)
           G == Stops(t) \cup Unstopped(u)
<1>1. /\ c = cs[1] /\ 1 \in DOMAIN cs /\ Len(cs) \in Nat /\ Len(t) = Len(cs) - 1
      /\ \A k \in DOMAIN t : k \in Nat /\ k > 0 /\ k + 1 \in DOMAIN cs /\ t[k] = cs[k + 1]
    BY RestIs
<1> HIDE DEF c, t
<1>2. AnthropicForm(c)
    BY <1>1 DEF AnthropicChunks
<1>3. \A k \in DOMAIN t : 1 < k + 1 /\ k + 1 \in DOMAIN cs /\ t[k] = cs[k + 1]
    BY <1>1
<1>4. Stops(t) \subseteq Stops(cs)
    BY <1>3 DEF Stops
<1>5. c.type = "block_stop" => c.index \in F /\ c.index \notin G
    <2> SUFFICES ASSUME c.type = "block_stop" PROVE c.index \in F /\ c.index \notin G
        OBVIOUS
    <2>1. c.index \in Stops(cs)
        BY <1>1 DEF Stops
    <2>2. /\ c.index \notin Unstopped(u)
          /\ \A j \in DOMAIN cs : 1 < j /\ cs[j].type = "block_stop" => cs[j].index # c.index
        BY <1>1 DEF AnthropicChunks
    <2>3. c.index \notin Stops(t)
        BY <1>3, <2>2 DEF Stops
    <2> QED BY <2>1, <2>2, <2>3
<1>6. c.type \in Enders => G = {}
    <2> SUFFICES ASSUME c.type \in Enders PROVE G = {}
        OBVIOUS
    <2>1. u.stage \in Over /\ \A j \in DOMAIN cs : 1 < j => cs[j].type # "block_stop"
        BY <1>1 DEF AnthropicChunks
    <2> QED BY <1>3, <2>1 DEF Stops, Unstopped
<1>7. c.type = "message_start" => DOMAIN q = {} /\ cv.output = <<>>
    <2>1. q = <<>> => DOMAIN q = {}
        BY DomainOf
    <2> QED BY <1>1, <2>1 DEF AnthropicChunks
<1>8. \A s : AnthropicChunks(u, t, open, s, cv)
    <2>1. u.stage # "start"
        BY DEF AnthropicChunks
    <2>2. /\ u.stage \in {"start", "between"} \cup BlockStages \cup Over
          /\ u.stage \in BlockStages => u.blocks > 0
        BY DEF AnthropicChunks
    <2>3. \A k \in DOMAIN t :
              /\ AnthropicForm(t[k])
              /\ t[k].type # "message_start"
              /\ t[k].type = "block_stop" =>
                    /\ t[k].index \notin Unstopped(u)
                    /\ \A j \in DOMAIN t : k < j /\ t[j].type = "block_stop" => t[j].index # t[k].index
              /\ t[k].type \in Enders =>
                    /\ u.stage \in Over
                    /\ \A j \in DOMAIN t : k < j => t[j].type # "block_stop"
        <3> TAKE k \in DOMAIN t
        <3>1. /\ AnthropicForm(cs[k + 1])
              /\ cs[k + 1].type = "message_start" => k + 1 = 1
              /\ cs[k + 1].type = "block_stop" =>
                    /\ cs[k + 1].index \notin Unstopped(u)
                    /\ \A j \in DOMAIN cs : k + 1 < j /\ cs[j].type = "block_stop"
                          => cs[j].index # cs[k + 1].index
              /\ cs[k + 1].type \in Enders =>
                    /\ u.stage \in Over
                    /\ \A j \in DOMAIN cs : k + 1 < j => cs[j].type # "block_stop"
            BY <1>3 DEF AnthropicChunks
        <3>2. \A j \in DOMAIN t : k < j => k + 1 < j + 1 /\ j + 1 \in DOMAIN cs /\ t[j] = cs[j + 1]
            BY <1>1
        <3>3. k + 1 # 1
            BY <1>1
        <3>4. t[k] = cs[k + 1]
            BY <1>1
        <3> QED BY <3>1, <3>2, <3>3, <3>4
    <2> QED BY <2>1, <2>2, <2>3 DEF AnthropicChunks
<1> QED BY <1>2, <1>4, <1>5, <1>6, <1>7, <1>8 DEF c, t

\* What else a step of the provider must show, when it took a chunk.
LEMMA TakeChunkKeeps == ASSUME StreamInv, TakeChunk PROVE StreamInv'
<1> DEFINE q == InFlight
           s == InFlight'
           cv == converter.cv
           st == provider.st
           c == Head(chunks)
           t == Tail(chunks)
           step == FromChunk(st, c)
           sent == provider'.pend
           F == Endable
           G == Endable'
<1>1. /\ DOMAIN provider = {"pc", "st", "pend"} /\ provider.pc = "run" /\ kind \in Streams
      /\ IsSeq(chunks) /\ chunks # <<>> /\ DOMAIN up = UpFields /\ up.blocks \in Nat
      /\ provider.pend = <<>> /\ Touched(cv) \subseteq Nat
      /\ \A k \in DOMAIN q : q[k].index \in Nat
    BY DEF StreamInv, PipeOK, ProviderOK, UpstreamOK, TakeChunk
<1>2. /\ DOMAIN provider' = {"pc", "st", "pend"} /\ provider'.pc = "run"
      /\ provider'.st = step.st /\ sent = step.events /\ chunks' = t
      /\ UNCHANGED <<kind, up, body, events, converter, handler>>
    BY <1>1 DEF TakeChunk
<1>3. IsSeq(q) /\ handler.pc # "begin"
    <2>1. IsSeq(q)
        BY JointIs DEF StreamInv, PipeOK, InFlight
    <2>2. handler.pc # "begin"
        BY <1>1 DEF StreamInv, BeginOK
    <2> QED BY <2>1, <2>2
<1>4. IsSeq(t)
    <2> HIDE DEF t
    <2> QED BY <1>1, RestIs DEF t
<1>5. CASE kind = "chat"
    <2> DEFINE p == FromChat(st, c)
               H == IF up.stage = "finished" /\ t = <<>> THEN {} ELSE From(p.st.block)
    <2>1. ChatState(st) /\ ChatPlaces(st, up, chunks, q, cv) /\ ChatChunks(up, chunks)
        BY <1>1, <1>5 DEF StreamInv, ProviderOK, UpstreamOK
    <2>2. step = p
        BY <1>5 DEF FromChunk
    <2>3. F = From(st.block) /\ G = H
        <3>1. F = From(st.block)
            BY <1>1, <1>5 DEF Endable, AllTaken, From
        <3>2. G = H
            BY <1>1, <1>2, <1>5, <2>2 DEF Endable, AllTaken, From, Finished
        <3> QED BY <3>1, <3>2
    <2>4. /\ ChatSent(st, p, q, cv, H) /\ ChatChunks(up, t)
          /\ \A z : Grown(q, p.events, z) => ChatPlaces(p.st, up, t, z, cv)
        <3> HIDE DEF q, cv, st
        <3> QED BY <1>1, <1>3, <2>1, ChatTaken
    <2>5. Fresh(sent, q, cv, F, G) /\ (\A e \in ToSet(sent) : e.index \in Nat) /\ ChatState(provider'.st)
        <3> HIDE DEF q, cv, st, c, H, F, G, step, sent
        <3> QED BY <1>2, <2>2, <2>3, <2>4 DEF ChatSent, sent
    <2>6. /\ PipeOK' /\ BeginOK' /\ Flow(InFlight, converter.cv, Endable)'
          /\ SaidOK(converter.pend, handler.event, InFlight, converter.cv, Endable)'
          /\ Grown(q, sent, s)
        BY <1>1, <1>2, <1>3, <2>5, GrownStep
    <2>7. ChatPlaces(provider'.st, up, t, s, cv)
        <3> HIDE DEF q, s, cv, st, t, c
        <3> QED BY <1>2, <2>2, <2>4, <2>6
    <2>8. UpstreamOK'
        BY <1>1, <1>2, <1>4, <1>5, <2>4 DEF UpstreamOK, PathKinds, Streams
    <2>9. ProviderOK'
        BY <1>2, <1>5, <2>5, <2>7 DEF ProviderOK, Streams
    <2> QED BY <2>6, <2>8, <2>9 DEF StreamInv
<1>6. CASE kind = "google"
    <2>1. GoogleChunks(up, chunks)
        BY <1>6 DEF StreamInv, UpstreamOK
    <2>2. (c.finish => up.stage = "finished" /\ t = <<>>) /\ GoogleChunks(up, t)
        <3> HIDE DEF c, t
        <3> QED BY <1>1, <2>1, GoogleTaken DEF c, t
    <2>3. F = {0} /\ G \subseteq {0} /\ (up.stage = "finished" /\ t = <<>> => G = {})
        <3>1. F = {0}
            BY <1>1, <1>6 DEF Endable, AllTaken
        <3>2. G = IF Finished(up) /\ t = <<>> THEN {} ELSE {0}
            BY <1>2, <1>6 DEF Endable, AllTaken
        <3> QED BY <3>1, <3>2 DEF Finished
    <2>4. sent = FromGoogle(st, c).events
        BY <1>2, <1>6 DEF FromChunk
    <2>5. Fresh(sent, q, cv, F, G) /\ \A e \in ToSet(sent) : e.index \in Nat
        <3> HIDE DEF q, cv, st, c, F, G, sent
        <3> QED BY <2>2, <2>3, <2>4, GoogleStep
    <2>6. /\ PipeOK' /\ BeginOK' /\ Flow(InFlight, converter.cv, Endable)'
          /\ SaidOK(converter.pend, handler.event, InFlight, converter.cv, Endable)'
        BY <1>1, <1>2, <1>3, <2>5, GrownStep
    <2>7. UpstreamOK'
        BY <1>1, <1>2, <1>4, <1>6, <2>2 DEF UpstreamOK, PathKinds, Streams
    <2>8. ProviderOK'
        BY <1>2, <1>6 DEF ProviderOK, Streams
    <2> QED BY <2>6, <2>7, <2>8 DEF StreamInv
<1>7. CASE kind = "anthropic"
    <2> DEFINE open == body = "open"
    <2>1. AnthropicChunks(up, chunks, open, q, cv)
        BY <1>7 DEF StreamInv, UpstreamOK
    <2>2. /\ F = Stops(chunks) \cup Unstopped(up)
          /\ G = Stops(t) \cup Unstopped(up)
        <3>1. F = Stops(chunks) \cup Unstopped(up)
            BY <1>1, <1>7 DEF Endable
        <3>2. G = Stops(t) \cup Unstopped(up)
            BY <1>2, <1>7 DEF Endable
        <3> QED BY <3>1, <3>2
    <2>3. /\ AnthropicForm(c) /\ G \subseteq F
          /\ c.type = "block_stop" => c.index \in F /\ c.index \notin G
          /\ c.type \in Enders => G = {}
          /\ c.type = "message_start" => DOMAIN q = {} /\ cv.output = <<>>
          /\ \A z : AnthropicChunks(up, t, open, z, cv)
        <3> HIDE DEF q, cv, c, t, F, G, open
        <3> QED BY <1>1, <1>3, <2>1, <2>2, AnthropicTaken DEF c, t
    <2>4. sent = FromAnthropic(st, c).events
        BY <1>2, <1>7 DEF FromChunk
    <2>5. Fresh(sent, q, cv, F, G) /\ \A e \in ToSet(sent) : e.index \in Nat
        <3> HIDE DEF q, cv, st, c, F, G, sent, open
        <3> QED BY <2>3, <2>4, AnthropicStep
    <2>6. /\ PipeOK' /\ BeginOK' /\ Flow(InFlight, converter.cv, Endable)'
          /\ SaidOK(converter.pend, handler.event, InFlight, converter.cv, Endable)'
        BY <1>1, <1>2, <1>3, <2>5, GrownStep
    <2>7. UpstreamOK'
        BY <1>1, <1>2, <1>4, <1>7, <2>3 DEF UpstreamOK, PathKinds, Streams
    <2>8. ProviderOK'
        BY <1>2, <1>7 DEF ProviderOK, Streams
    <2> QED BY <2>6, <2>7, <2>8 DEF StreamInv
<1> QED BY <1>1, <1>5, <1>6, <1>7 DEF Streams

\* The end of a stream, and of a response.
LEMMA StreamOverKeeps == ASSUME StreamInv, StreamOver PROVE StreamInv'
<1> DEFINE q == InFlight
           cv == converter.cv
           sent == provider'.pend
           F == Endable
           G == Endable'
<1>1. /\ DOMAIN provider = {"pc", "st", "pend"} /\ kind \in Streams
      /\ provider.pend = <<>> /\ chunks = <<>> /\ body # "open"
      /\ UpstreamOK /\ ProviderOK /\ provider.pc = "run"
    BY DEF StreamInv, ProviderOK, StreamOver
<1>2. /\ DOMAIN provider' = {"pc", "st", "pend"} /\ provider'.pc = "closing"
      /\ UNCHANGED <<kind, up, body, chunks, events, converter, handler>>
    BY <1>1 DEF StreamOver
<1>3. sent = <<>> \/ \E t \in {"completed", "failed"} : sent = <<Lifecycle(t)>>
    BY <1>1 DEF StreamOver
<1>4. G = {}
    BY <1>2 DEF Endable
<1>5. handler.pc # "begin"
    BY <1>1 DEF StreamInv, BeginOK
<1>6. Fresh(sent, q, cv, F, G) /\ \A e \in ToSet(sent) : e.index \in Nat
    <2> HIDE DEF q, cv, F, G, sent
    <2>1. CASE sent = <<>>
        <3>1. IsSeq(sent) /\ ToSet(sent) = {}
            BY <2>1, ShortSets
        <3> QED BY <1>4, <3>1, QuietIsFresh DEF Quiet
    <2>2. ASSUME NEW t \in {"completed", "failed"}, sent = <<Lifecycle(t)>>
          PROVE  Fresh(sent, q, cv, F, G) /\ \A e \in ToSet(sent) : e.index \in Nat
        <3>1. Lifecycle(t).type = t /\ Lifecycle(t).index = 0
            BY EventIs
        <3>2. ToSet(sent) = {Lifecycle(t)}
            BY <2>2, ShortSets
        <3>3. Fresh(sent, q, cv, F, G)
            BY <1>4, <2>2, <3>1, WholeIsFresh DEF Lifecycles
        <3> QED BY <3>1, <3>2, <3>3
    <2> QED BY <1>3, <2>1, <2>2
<1>7. /\ PipeOK' /\ BeginOK' /\ Flow(InFlight, converter.cv, Endable)'
      /\ SaidOK(converter.pend, handler.event, InFlight, converter.cv, Endable)'
    BY <1>1, <1>2, <1>5, <1>6, GrownStep
<1>8. UpstreamOK'
    <2>1. DOMAIN chunks = {}
        BY <1>1, DomainOf DEF UpstreamOK
    <2>2. kind = "anthropic" => AnthropicChunks(up, chunks, FALSE, InFlight', cv)
        BY <1>1, <2>1 DEF UpstreamOK, AnthropicChunks
    <2> QED BY <1>1, <1>2, <2>2 DEF UpstreamOK
<1>9. ProviderOK'
    BY <1>1, <1>2 DEF ProviderOK
<1> QED BY <1>7, <1>8, <1>9 DEF StreamInv

LEMMA NextBlockKeeps == ASSUME StreamInv, NextBlock PROVE StreamInv'
<1> DEFINE q == InFlight
           s == InFlight'
           cv == converter.cv
           st == provider.st
           sent == provider'.pend
           F == Endable
           G == Endable'
<1>1. /\ DOMAIN provider = {"pc", "st", "pend"} /\ kind \in {"whole", "visual"}
      /\ provider.pend = <<>> /\ provider.pc = "blocks"
      /\ UpstreamOK /\ ProviderOK /\ ResponsePlaces(st, q, cv)
      /\ Touched(cv) \subseteq Nat /\ \A k \in DOMAIN q : q[k].index \in Nat
    BY DEF StreamInv, ProviderOK, PipeOK, NextBlock
<1>2. UNCHANGED <<kind, up, body, chunks, events, converter, handler>>
    BY DEF NextBlock
<1>3. handler.pc # "begin"
    BY <1>1 DEF StreamInv, BeginOK
<1>4. UpstreamOK'
    BY <1>1, <1>2 DEF UpstreamOK
<1>5. F = From(st.next - 1) /\ st.next \in Nat
    BY <1>1 DEF Endable, From, ResponsePlaces
<1>6. CASE st.next \in DOMAIN st.blocks
    <2>1. /\ DOMAIN provider' = {"pc", "st", "pend"} /\ provider'.pc = "blocks"
          /\ provider'.st = [st EXCEPT !.next = st.next + 1]
          /\ sent = BlockEvents(st.blocks, st.next)
        BY <1>1, <1>6 DEF NextBlock
    <2>2. provider'.st.next = st.next + 1 /\ DOMAIN provider'.st = DOMAIN st
          /\ provider'.st.status = st.status
        BY <1>1, <2>1 DEF ResponsePlaces
    <2>3. G = From(st.next)
        BY <1>5, <2>1, <2>2 DEF Endable, From
    <2>4. Fresh(sent, q, cv, F, G) /\ \A e \in ToSet(sent) : e.index = st.next - 1
        <3> HIDE DEF q, cv, st, F, G, sent
        <3> QED BY <1>1, <1>5, <2>1, <2>3, BlockStep
    <2>5. /\ PipeOK' /\ BeginOK' /\ Flow(InFlight, converter.cv, Endable)'
          /\ SaidOK(converter.pend, handler.event, InFlight, converter.cv, Endable)'
          /\ IsSeq(q) /\ Grown(q, sent, s)
        <3>1. st.next - 1 \in Nat
            BY <1>1 DEF ResponsePlaces
        <3>2. \A e \in ToSet(sent) : e.index \in Nat
            BY <2>4, <3>1
        <3> QED BY <1>1, <1>2, <1>3, <2>1, <2>4, <3>2, GrownStep
    <2>6. ResponsePlaces(provider'.st, s, cv)
        <3>1. IsSeq(sent)
            <4> HIDE DEF sent
            <4> QED BY <2>4 DEF Fresh
        <3>2. \A k \in DOMAIN s : \/ k \in DOMAIN q /\ s[k] = q[k]
                                  \/ \E m \in DOMAIN sent : s[k] = sent[m]
            <4> HIDE DEF sent, q, s
            <4> QED BY <2>5, <3>1, GrownIs
        <3>3. \A m \in DOMAIN sent : sent[m].index = st.next - 1
            BY <2>4 DEF ToSet
        <3>4. /\ \A i \in TextIn(cv) : i < st.next - 1
              /\ \A k \in DOMAIN q : Texts(q[k]) => q[k].index < st.next - 1
              /\ TextIn(cv) \subseteq Nat
            BY <1>1 DEF ResponsePlaces, TextIn, Touched
        <3> HIDE DEF sent, q, s
        <3>5. \A k \in DOMAIN s : Texts(s[k]) => s[k].index < st.next
            BY <1>1, <1>5, <3>2, <3>3, <3>4
        <3>6. \A i \in TextIn(cv) : i < st.next
            BY <1>5, <3>4
        <3>7. provider'.st.next - 1 = st.next /\ provider'.st.next \in Nat \ {0}
            BY <1>5, <2>2
        <3> QED BY <1>1, <2>2, <3>5, <3>6, <3>7 DEF ResponsePlaces
    <2>7. ProviderOK'
        BY <1>1, <1>2, <2>1, <2>6 DEF ProviderOK
    <2> QED BY <1>4, <2>5, <2>7 DEF StreamInv
<1>7. CASE st.next \notin DOMAIN st.blocks
    <2>1. /\ DOMAIN provider' = {"pc", "st", "pend"} /\ provider'.pc = "closing"
          /\ sent = <<Lifecycle(st.status)>>
        BY <1>1, <1>7 DEF NextBlock
    <2>2. G = {}
        BY <2>1 DEF Endable
    <2>3. Fresh(sent, q, cv, F, G) /\ \A e \in ToSet(sent) : e.index \in Nat
        <3>1. Lifecycle(st.status).type = st.status /\ Lifecycle(st.status).index = 0
            BY EventIs
        <3>2. st.status \in Lifecycles
            BY <1>1 DEF ResponsePlaces, Lifecycles
        <3> HIDE DEF q, cv, st, F, G, sent
        <3>3. ToSet(sent) = {Lifecycle(st.status)}
            BY <2>1, ShortSets
        <3>4. Fresh(sent, q, cv, F, G)
            BY <2>1, <2>2, <3>1, <3>2, WholeIsFresh
        <3> QED BY <3>1, <3>3, <3>4
    <2>4. /\ PipeOK' /\ BeginOK' /\ Flow(InFlight, converter.cv, Endable)'
          /\ SaidOK(converter.pend, handler.event, InFlight, converter.cv, Endable)'
        BY <1>1, <1>2, <1>3, <2>1, <2>3, GrownStep
    <2>5. ProviderOK'
        BY <1>1, <1>2, <2>1 DEF ProviderOK
    <2> QED BY <1>4, <2>4, <2>5 DEF StreamInv
<1> QED BY <1>6, <1>7

-----------------------------------------------------------------------------
\* What an upstream sends is in its grammar.
LEMMA ToldIs ==
    ASSUME NEW u, DOMAIN u = UpFields, NEW block, NEW id, NEW nested, NEW data
    PROVE  /\ LET v == Telling(u, block, data)
              IN  DOMAIN v = UpFields /\ v.stage = u.stage /\ v.blocks = u.blocks
           /\ LET v == Starting(u, block, nested, data)
              IN  DOMAIN v = UpFields /\ v.stage = u.stage /\ v.blocks = u.blocks
           /\ LET v == Continuing(u, data)
              IN  DOMAIN v = UpFields /\ v.stage = u.stage /\ v.blocks = u.blocks
BY DEF Telling, Starting, Continuing, UpFields

LEMMA SentIs ==
    ASSUME NEW u, DOMAIN u = UpFields, NEW stage, NEW c
    PROVE  /\ Sent(u, c).chunk = c /\ DOMAIN Sent(u, c).up = UpFields
           /\ Sent(u, c).up.stage = u.stage /\ Sent(u, c).up.blocks = u.blocks
           /\ DOMAIN Moved(u, stage) = UpFields
           /\ Moved(u, stage).stage = stage /\ Moved(u, stage).blocks = u.blocks
BY DEF Sent, Moved, UpFields

LEMMA AppendedIs ==
    ASSUME NEW cs, IsSeq(cs), NEW c
    PROVE  /\ IsSeq(Append(cs, c)) /\ Len(Append(cs, c)) = Len(cs) + 1 /\ Len(cs) \in Nat
           /\ \A k \in DOMAIN Append(cs, c) :
                 \/ k \in DOMAIN cs /\ k \in Nat /\ k <= Len(cs) /\ Append(cs, c)[k] = cs[k]
                 \/ k = Len(cs) + 1 /\ Append(cs, c)[k] = c
<1>1. /\ IsSeq(Append(cs, c)) /\ Len(Append(cs, c)) = Len(cs) + 1
      /\ \A n \in 1..Len(cs) : Append(cs, c)[n] = cs[n]
      /\ Append(cs, c)[Len(cs) + 1] = c
    BY AppendOf
<1>2. /\ Len(cs) \in Nat /\ DOMAIN cs = 1..Len(cs)
      /\ DOMAIN Append(cs, c) = 1..(Len(cs) + 1)
    BY <1>1, DomainOf
<1> HIDE DEF IsSeq
<1> QED BY <1>1, <1>2

\* A chat stream goes through its stages in order, each chunk of the stage it
\* leads to.
ChatNext(u, s) ==
    /\ DOMAIN s.up = UpFields /\ s.up.blocks \in Nat
    /\ s.up.stage \in DOMAIN StageRank
    /\ s.up.stage = "calls" => s.up.blocks # 0
    /\ ChatForm(s.chunk)
    /\ ChatRank(s.chunk) = StageRank[s.up.stage]
    /\ StageRank[u.stage] <= StageRank[s.up.stage]

LEMMA ChatChunkIs ==
    /\ DOMAIN ChatChunk = {"role", "reasoning", "content", "call", "id", "block", "args", "finish"}
    /\ {ChatChunk.role, ChatChunk.finish} \subseteq BOOLEAN
    /\ ~ChatChunk.role /\ ChatChunk.reasoning = Nothing /\ ChatChunk.content = Nothing
    /\ ChatChunk.call = 0 /\ ChatChunk.block = "tool_use" /\ ~ChatChunk.finish
BY DEF ChatChunk, Nothing

LEMMA TokenIs == \A u : Token(u) # Nothing
BY DEF Token, Nothing

LEMMA RankOf ==
    ASSUME NEW c, c.block \in {"tool_use", "nested"}, {c.role, c.finish} \subseteq BOOLEAN,
           (~c.role /\ c.reasoning = Nothing) \/ (~c.finish /\ c.call = 0 /\ c.content = Nothing)
    PROVE  /\ ~c.finish /\ c.call = 0 /\ c.content = Nothing => ChatForm(c) /\ ChatRank(c) = 1
           /\ ~c.finish /\ c.call = 0 /\ c.content # Nothing => ChatForm(c) /\ ChatRank(c) = 2
           /\ ~c.finish /\ c.call # 0 /\ c.content = Nothing => ChatForm(c) /\ ChatRank(c) = 3
           /\ c.finish /\ c.call = 0 /\ c.content = Nothing => ChatForm(c) /\ ChatRank(c) = 4
<1> USE DEF ChatForm, Nothing
<1>1. ~c.finish /\ c.call = 0 /\ c.content = Nothing => ChatForm(c) /\ ChatRank(c) = 1
    <2>1. ~c.finish /\ c.call = 0 /\ c.content = Nothing => ChatRank(c) = 1
        BY DEF ChatRank
    <2> QED BY <2>1
<1>2. ~c.finish /\ c.call = 0 /\ c.content # Nothing => ChatForm(c) /\ ChatRank(c) = 2
    <2>1. ~c.finish /\ c.call = 0 /\ c.content # Nothing => ChatRank(c) = 2
        BY DEF ChatRank
    <2> QED BY <2>1
<1>3. ~c.finish /\ c.call # 0 /\ c.content = Nothing => ChatForm(c) /\ ChatRank(c) = 3
    <2>1. ~c.finish /\ c.call # 0 => ChatRank(c) = 3
        BY DEF ChatRank
    <2> QED BY <2>1
<1>4. c.finish /\ c.call = 0 /\ c.content = Nothing => ChatForm(c) /\ ChatRank(c) = 4
    <2>1. c.finish => ChatRank(c) = 4
        BY DEF ChatRank
    <2> QED BY <2>1
<1> QED BY <1>1, <1>2, <1>3, <1>4

\* The chunk of a new call.
CallSent(u, nested, args) ==
    Sent(Moved([Starting(u, "call", nested, args) EXCEPT !.blocks = @ + 1], "calls"),
         [ChatChunk EXCEPT !.call = u.blocks + 1, !.id = NextId(u),
                           !.block = IF nested THEN "nested" ELSE "tool_use", !.args = args])

LEMMA StagesAre ==
    /\ DOMAIN StageRank = {"start", "reasoning", "content", "calls", "finished"}
    /\ StageRank["start"] = 0 /\ StageRank["reasoning"] = 1 /\ StageRank["content"] = 2
    /\ StageRank["calls"] = 3 /\ StageRank["finished"] = 4
BY DEF StageRank

LEMMA ChatSendIs ==
    ASSUME NEW u, DOMAIN u = UpFields, u.blocks \in Nat, u.stage \in DOMAIN StageRank,
           u.stage = "calls" => u.blocks # 0, NEW s \in ChatSends(u)
    PROVE  ~Finished(u) /\ ChatNext(u, s)
<1>1. /\ u.stage # "finished"
      /\ \/ u.stage = "start" /\ s \in ChatOpens(u)
         \/ u.stage = "reasoning" /\ s \in ChatReasons(u)
         \/ u.stage \in {"reasoning", "content"} /\ s \in ChatSpeaks(u)
         \/ u.stage \in {"reasoning", "content", "calls"} /\ s \in ChatCalls(u)
         \/ u.stage = "calls" /\ s \in ChatArgues(u)
         \/ u.stage \in {"reasoning", "content", "calls"} /\ s \in ChatFinishes(u)
    BY StagesAre DEF ChatSends, Finished
<1> DEFINE told == Telling(u, "reasoning", Token(u))
<1>2. CASE u.stage = "start" /\ s \in ChatOpens(u)
    <2> DEFINE c == [ChatChunk EXCEPT !.role = TRUE]
               d == [ChatChunk EXCEPT !.role = TRUE, !.reasoning = Token(u)]
    <2>1. s = Sent(Moved(u, "reasoning"), c) \/ s = Sent(Moved(told, "reasoning"), d)
        BY <1>2 DEF ChatOpens
    <2>2. /\ {c.role, c.finish, d.role, d.finish} \subseteq BOOLEAN
          /\ c.role /\ c.content = Nothing /\ c.call = 0 /\ ~c.finish /\ c.block = "tool_use"
          /\ d.role /\ d.content = Nothing /\ d.call = 0 /\ ~d.finish /\ d.block = "tool_use"
        BY ChatChunkIs
    <2> HIDE DEF c, d
    <2>3. /\ s.chunk \in {c, d} /\ DOMAIN s.up = UpFields
          /\ s.up.stage = "reasoning" /\ s.up.blocks = u.blocks
        <3>1. DOMAIN told = UpFields /\ told.blocks = u.blocks
            BY ToldIs
        <3> HIDE DEF told
        <3> QED BY <2>1, <3>1, SentIs
    <2>4. ChatForm(s.chunk) /\ ChatRank(s.chunk) = 1
        <3>1. ChatRank(c) = 1 /\ ChatRank(d) = 1
            BY <2>2 DEF ChatRank, Nothing
        <3>2. ChatForm(c) /\ ChatForm(d)
            BY <2>2, <3>1 DEF ChatForm, Nothing
        <3> QED BY <2>3, <3>1, <3>2
    <2> QED BY <1>1, <1>2, <2>3, <2>4, StagesAre DEF ChatNext, Finished
<1>3. CASE u.stage = "reasoning" /\ s \in ChatReasons(u)
    <2> DEFINE d == [ChatChunk EXCEPT !.reasoning = Token(u)]
    <2>1. s = Sent(told, d)
        BY <1>3 DEF ChatReasons
    <2>2. /\ {d.role, d.finish} \subseteq BOOLEAN
          /\ ~d.role /\ d.content = Nothing /\ d.call = 0 /\ ~d.finish /\ d.block = "tool_use"
        BY ChatChunkIs
    <2> HIDE DEF d
    <2>3. /\ s.chunk = d /\ DOMAIN s.up = UpFields
          /\ s.up.stage = "reasoning" /\ s.up.blocks = u.blocks
        <3>1. DOMAIN told = UpFields /\ told.blocks = u.blocks /\ told.stage = u.stage
            BY ToldIs
        <3> HIDE DEF told
        <3> QED BY <1>3, <2>1, <3>1, SentIs
    <2>4. ChatForm(d) /\ ChatRank(d) = 1
        BY <2>2, RankOf
    <2> QED BY <1>1, <1>3, <2>3, <2>4, StagesAre DEF ChatNext, Finished
<1>4. CASE u.stage \in {"reasoning", "content"} /\ s \in ChatSpeaks(u)
    <2> DEFINE said == Telling(u, "message", Token(u))
               d == [ChatChunk EXCEPT !.content = Token(u)]
    <2>1. s = Sent(Moved(said, "content"), d)
        BY <1>4 DEF ChatSpeaks
    <2>2. /\ {d.role, d.finish} \subseteq BOOLEAN
          /\ ~d.role /\ d.reasoning = Nothing /\ d.content # Nothing /\ d.call = 0
          /\ ~d.finish /\ d.block = "tool_use"
        BY ChatChunkIs, TokenIs
    <2> HIDE DEF d
    <2>3. /\ s.chunk = d /\ DOMAIN s.up = UpFields
          /\ s.up.stage = "content" /\ s.up.blocks = u.blocks
        <3>1. DOMAIN said = UpFields /\ said.blocks = u.blocks
            BY ToldIs
        <3> HIDE DEF said
        <3> QED BY <2>1, <3>1, SentIs
    <2>4. ChatForm(d) /\ ChatRank(d) = 2
        BY <2>2, RankOf
    <2> QED BY <1>1, <1>4, <2>3, <2>4, StagesAre DEF ChatNext, Finished
<1>5. CASE u.stage \in {"reasoning", "content", "calls"} /\ s \in ChatCalls(u)
    <2>1. PICK nested, args : s = CallSent(u, nested, args)
        <3>1. ChatCalls(u) = {CallSent(u, nested, args) : nested \in BOOLEAN, args \in {<<>>, Token(u)}}
            BY DEF ChatCalls, CallSent
        <3> QED BY <1>5, <3>1
    <2> DEFINE start == Starting(u, "call", nested, args)
               more == [start EXCEPT !.blocks = @ + 1]
               d == [ChatChunk EXCEPT !.call = u.blocks + 1, !.id = NextId(u),
                                      !.block = IF nested THEN "nested" ELSE "tool_use", !.args = args]
    <2>2. /\ {d.role, d.finish} \subseteq BOOLEAN
          /\ ~d.role /\ d.reasoning = Nothing /\ d.content = Nothing /\ d.call = u.blocks + 1
          /\ ~d.finish /\ d.block \in {"tool_use", "nested"}
        BY ChatChunkIs
    <2>3. s = Sent(Moved(more, "calls"), d)
        BY <2>1 DEF CallSent
    <2> HIDE DEF d
    <2>4. /\ s.chunk = d /\ DOMAIN s.up = UpFields
          /\ s.up.stage = "calls" /\ s.up.blocks = u.blocks + 1
        <3>1. DOMAIN start = UpFields /\ start.blocks = u.blocks
            BY ToldIs
        <3> HIDE DEF start
        <3>2. DOMAIN more = UpFields /\ more.blocks = u.blocks + 1
            BY <3>1 DEF UpFields
        <3> HIDE DEF more
        <3> QED BY <2>3, <3>2, SentIs
    <2>5. ChatForm(d) /\ ChatRank(d) = 3
        BY <1>5, <2>2, RankOf
    <2> QED BY <1>1, <1>5, <2>4, <2>5, StagesAre DEF ChatNext, Finished
<1>6. CASE u.stage = "calls" /\ s \in ChatArgues(u)
    <2>1. PICK args : s = Sent(Continuing(u, args), [ChatChunk EXCEPT !.call = u.blocks, !.args = args])
        BY <1>6 DEF ChatArgues
    <2> DEFINE v == Continuing(u, args)
               d == [ChatChunk EXCEPT !.call = u.blocks, !.args = args]
    <2>2. /\ {d.role, d.finish} \subseteq BOOLEAN
          /\ ~d.role /\ d.reasoning = Nothing /\ d.content = Nothing /\ d.call = u.blocks
          /\ ~d.finish /\ d.block = "tool_use"
        BY ChatChunkIs
    <2>3. s = Sent(v, d)
        BY <2>1
    <2> HIDE DEF d
    <2>4. /\ s.chunk = d /\ DOMAIN s.up = UpFields
          /\ s.up.stage = "calls" /\ s.up.blocks = u.blocks
        <3>1. DOMAIN v = UpFields /\ v.blocks = u.blocks /\ v.stage = u.stage
            BY ToldIs
        <3> HIDE DEF v
        <3> QED BY <1>6, <2>3, <3>1, SentIs
    <2>5. ChatForm(d) /\ ChatRank(d) = 3
        BY <1>6, <2>2, RankOf
    <2> QED BY <1>1, <1>6, <2>4, <2>5, StagesAre DEF ChatNext, Finished
<1>7. CASE u.stage \in {"reasoning", "content", "calls"} /\ s \in ChatFinishes(u)
    <2> DEFINE d == [ChatChunk EXCEPT !.finish = TRUE]
    <2>1. s = Sent(Moved(u, "finished"), d)
        BY <1>7 DEF ChatFinishes
    <2>2. /\ {d.role, d.finish} \subseteq BOOLEAN
          /\ ~d.role /\ d.reasoning = Nothing /\ d.content = Nothing /\ d.call = 0
          /\ d.finish /\ d.block = "tool_use"
        BY ChatChunkIs
    <2> HIDE DEF d
    <2>3. /\ s.chunk = d /\ DOMAIN s.up = UpFields
          /\ s.up.stage = "finished" /\ s.up.blocks = u.blocks
        BY <2>1, SentIs
    <2>4. ChatRank(d) = 4
        BY <2>2 DEF ChatRank
    <2>5. ChatForm(d)
        BY <2>2, <2>4 DEF ChatForm, Nothing
    <2> QED BY <1>1, <1>7, <2>3, <2>4, <2>5, StagesAre DEF ChatNext, Finished
<1> QED BY <1>1, <1>2, <1>3, <1>4, <1>5, <1>6, <1>7

LEMMA ChatGrows ==
    ASSUME NEW u, NEW cs, IsSeq(cs), ChatChunks(u, cs), ~Finished(u), NEW s, ChatNext(u, s)
    PROVE  /\ ChatChunks(s.up, Append(cs, s.chunk))
           /\ \A st, q, cv : ChatPlaces(st, u, cs, q, cv)
                                => ChatPlaces(st, s.up, Append(cs, s.chunk), q, cv)
<1> DEFINE c == s.chunk
           v == s.up
           t == Append(cs, c)
<1>1. /\ Len(t) = Len(cs) + 1 /\ Len(cs) \in Nat
      /\ \A k \in DOMAIN t : \/ k \in DOMAIN cs /\ k \in Nat /\ k <= Len(cs) /\ t[k] = cs[k]
                             \/ k = Len(cs) + 1 /\ t[k] = c
    BY AppendedIs
<1>2. /\ v.stage \in DOMAIN StageRank /\ (v.stage = "calls" => v.blocks # 0)
      /\ ChatForm(c) /\ ChatRank(c) = StageRank[v.stage]
      /\ StageRank[u.stage] <= StageRank[v.stage]
    BY DEF ChatNext
<1> HIDE DEF c, v, t
<1>3. StageRank[u.stage] \in Nat /\ StageRank[v.stage] \in Nat
    BY <1>2 DEF ChatChunks, StageRank
<1>4. \A k \in DOMAIN cs : /\ ChatForm(cs[k]) /\ ChatRank(cs[k]) <= StageRank[u.stage]
                           /\ ~cs[k].finish /\ ChatRank(cs[k]) \in Nat
    <2> TAKE k \in DOMAIN cs
    <2>1. ChatForm(cs[k]) /\ ChatRank(cs[k]) <= StageRank[u.stage]
        BY DEF ChatChunks
    <2>2. StageRank[u.stage] < 4
        BY DEF ChatChunks, Finished, StageRank
    <2>3. cs[k].finish \in BOOLEAN /\ ChatRank(cs[k]) \in Nat
        BY <2>1 DEF ChatForm, ChatRank
    <2>4. cs[k].finish => ChatRank(cs[k]) = 4
        BY DEF ChatRank
    <2>5. ~cs[k].finish
        BY <1>3, <2>1, <2>2, <2>4
    <2> QED BY <2>1, <2>3, <2>5
<1>5. \A k \in DOMAIN t : /\ ChatForm(t[k]) /\ ChatRank(t[k]) <= StageRank[v.stage]
                          /\ t[k].finish => k = Len(t)
    BY <1>1, <1>2, <1>3, <1>4
<1>6. \A k, j \in DOMAIN t : k < j => ChatRank(t[k]) <= ChatRank(t[j])
    <2> TAKE k, j \in DOMAIN t
    <2> HAVE k < j
    <2>1. CASE j \in DOMAIN cs /\ t[j] = cs[j] /\ j \in Nat /\ j <= Len(cs)
        <3>1. k \in DOMAIN cs /\ t[k] = cs[k]
            BY <1>1, <2>1
        <3> QED BY <2>1, <3>1 DEF ChatChunks
    <2>2. CASE j = Len(cs) + 1 /\ t[j] = c
        <3>1. k \in DOMAIN cs /\ t[k] = cs[k]
            BY <1>1, <2>2
        <3> QED BY <1>2, <1>3, <1>4, <2>2, <3>1
    <2> QED BY <1>1, <2>1, <2>2
<1>7. ChatChunks(v, t)
    BY <1>2, <1>5, <1>6 DEF ChatChunks
<1>8. ASSUME NEW st, NEW q, NEW cv, ChatPlaces(st, u, cs, q, cv)
      PROVE  ChatPlaces(st, v, t, q, cv)
    <2>1. st.calls => StageRank[v.stage] >= 3 /\ \A k \in DOMAIN t : ChatRank(t[k]) >= 3
        BY <1>1, <1>2, <1>3, <1>8 DEF ChatPlaces
    <2> QED BY <1>8, <2>1 DEF ChatPlaces
<1> QED BY <1>7, <1>8 DEF c, v, t

\* An Anthropic stream stops the block that is open, and stops none once the
\* message ends.
AnthropicNext(u, s) ==
    /\ DOMAIN s.up = UpFields /\ s.up.blocks \in Nat
    /\ s.up.stage \in {"between"} \cup BlockStages \cup Over
    /\ s.up.stage \in BlockStages => s.up.blocks > 0
    /\ AnthropicForm(s.chunk)
    /\ s.chunk.type = "message_start" => u.stage = "start"
    /\ s.chunk.type = "block_stop" =>
          s.chunk.index \in Unstopped(u) /\ s.chunk.index \notin Unstopped(s.up)
    /\ s.chunk.type \in Enders => s.up.stage \in Over
    /\ Unstopped(s.up) \subseteq Unstopped(u)
    /\ u.stage \in Over => s.up.stage \in Over

LEMMA AnthropicChunkIs ==
    \A type : LET c == AnthropicChunk(type)
              IN  /\ DOMAIN c = {"type", "index", "block", "id", "data", "search"}
                  /\ c.type = type /\ c.index = 0 /\ c.search \in BOOLEAN
BY DEF AnthropicChunk

\* The three kinds of chunks: of no block, at the start of one, and in it.
LEMMA AnthropicPlain ==
    ASSUME NEW u, DOMAIN u = UpFields, u.blocks \in Nat,
           NEW v, DOMAIN v = UpFields, v.blocks = u.blocks,
           v.stage \in {"between"} \cup Over, u.stage \notin BlockStages,
           u.stage \in Over => v.stage \in Over,
           NEW type, type \in {"message_start", "ping"} \cup Enders,
           type = "message_start" => u.stage = "start", type \in Enders => v.stage \in Over,
           NEW s, s = Sent(v, AnthropicChunk(type))
    PROVE  AnthropicNext(u, s)
<1> DEFINE c == AnthropicChunk(type)
<1>1. c.type = type /\ c.index = 0 /\ c.search \in BOOLEAN
    BY AnthropicChunkIs
<1> HIDE DEF c
<1>2. /\ s.chunk = c /\ DOMAIN s.up = UpFields /\ s.up.stage = v.stage /\ s.up.blocks = u.blocks
    BY SentIs DEF c
<1>3. AnthropicForm(c)
    BY <1>1 DEF AnthropicForm, AnthropicEvents, Enders
<1>4. Unstopped(s.up) \subseteq Unstopped(u)
    BY <1>2 DEF Unstopped, Opened, BlockStages, Over
<1>5. s.up.stage \notin BlockStages
    BY <1>2 DEF BlockStages, Over
<1> QED BY <1>1, <1>2, <1>3, <1>4, <1>5 DEF AnthropicNext, Enders

LEMMA AnthropicOpen ==
    ASSUME NEW u, DOMAIN u = UpFields, u.blocks \in Nat, u.stage = "between",
           NEW block \in DOMAIN AnthropicKind \cup {"server_tool_use"},
           NEW s, s = AnthropicOpens(u, block)
    PROVE  AnthropicNext(u, s)
<1> DEFINE chunk == [AnthropicChunk("block_start") EXCEPT !.index = u.blocks, !.block = block]
           id == IF AnthropicKind[block] = "call" THEN NextId(u) ELSE 0
           named == [chunk EXCEPT !.id = id]
           opened == [u EXCEPT !.blocks = @ + 1, !.stage = block]
           told == Starting(opened, AnthropicKind[block], block = "nested", <<>>)
<1>1. s = Sent(opened, chunk) \/ s = Sent(told, named)
    BY DEF AnthropicOpens
<1>2. /\ DOMAIN chunk = {"type", "index", "block", "id", "data", "search"}
      /\ chunk.type = "block_start" /\ chunk.index = u.blocks /\ chunk.block = block
      /\ chunk.search \in BOOLEAN
    BY AnthropicChunkIs
<1> HIDE DEF chunk, id
<1>3. /\ named.type = "block_start" /\ named.index = u.blocks /\ named.block = block
      /\ named.search \in BOOLEAN
    BY <1>2
<1>4. DOMAIN opened = UpFields /\ opened.blocks = u.blocks + 1 /\ opened.stage = block
    BY DEF UpFields
<1> HIDE DEF named, opened
<1>5. DOMAIN told = UpFields /\ told.blocks = u.blocks + 1 /\ told.stage = block
    BY <1>4, ToldIs
<1> HIDE DEF told
<1>6. /\ s.chunk \in {chunk, named} /\ DOMAIN s.up = UpFields
      /\ s.up.stage = block /\ s.up.blocks = u.blocks + 1
    BY <1>1, <1>4, <1>5, SentIs
<1>7. AnthropicForm(s.chunk) /\ s.chunk.type = "block_start"
    BY <1>2, <1>3, <1>6 DEF AnthropicForm
<1>8. block \in BlockStages
    BY DEF BlockStages, AnthropicKind
<1>9. Unstopped(s.up) \subseteq Unstopped(u)
    BY <1>6, <1>8 DEF Unstopped, Opened, BlockStages, Over
<1> QED BY <1>6, <1>7, <1>8, <1>9 DEF AnthropicNext, Enders, Over

LEMMA AnthropicInside ==
    ASSUME NEW u, DOMAIN u = UpFields, u.blocks \in Nat, u.blocks > 0, u.stage \in BlockStages,
           NEW s, \/ s = Sent(Moved(u, "between"),
                              [AnthropicChunk("block_stop") EXCEPT !.index = u.blocks - 1])
                  \/ s \in AnthropicDeltas(u)
    PROVE  AnthropicNext(u, s)
<1>1. CASE s = Sent(Moved(u, "between"),
                    [AnthropicChunk("block_stop") EXCEPT !.index = u.blocks - 1])
    <2> DEFINE c == [AnthropicChunk("block_stop") EXCEPT !.index = u.blocks - 1]
    <2>1. c.type = "block_stop" /\ c.index = u.blocks - 1 /\ c.search \in BOOLEAN
        BY AnthropicChunkIs
    <2>2. s = Sent(Moved(u, "between"), c)
        BY <1>1
    <2> HIDE DEF c
    <2>3. s.chunk = c /\ DOMAIN s.up = UpFields /\ s.up.stage = "between" /\ s.up.blocks = u.blocks
        BY <2>2, SentIs
    <2>4. AnthropicForm(c)
        BY <2>1 DEF AnthropicForm
    <2>5. /\ Unstopped(u) = {i \in Nat : i >= u.blocks - 1}
          /\ Unstopped(s.up) = {i \in Nat : i >= u.blocks}
        BY <2>3 DEF Unstopped, Opened, BlockStages, Over
    <2>6. Unstopped(s.up) \subseteq Unstopped(u) /\ c.index \in Unstopped(u) /\ c.index \notin Unstopped(s.up)
        BY <2>1, <2>5
    <2> QED BY <2>1, <2>3, <2>4, <2>6 DEF AnthropicNext, Enders, BlockStages, Over
<1>2. CASE s \in AnthropicDeltas(u)
    <2> DEFINE chunk == [AnthropicChunk("block_delta") EXCEPT !.index = u.blocks - 1]
               hidden == [u EXCEPT !.hidden = TRUE]
               search == [chunk EXCEPT !.search = TRUE]
    <2>1. \/ s = Sent(hidden, [chunk EXCEPT !.data = Token(u)])
          \/ \E data : s = Sent(Continuing(u, data), [chunk EXCEPT !.data = data])
          \/ s = Sent(Moved(u, "search"), search)
        BY <1>2 DEF AnthropicDeltas
    <2>2. /\ DOMAIN chunk = {"type", "index", "block", "id", "data", "search"}
          /\ chunk.type = "block_delta" /\ chunk.index = u.blocks - 1 /\ chunk.search \in BOOLEAN
        BY AnthropicChunkIs
    <2>3. DOMAIN hidden = UpFields /\ hidden.stage = u.stage /\ hidden.blocks = u.blocks
        BY DEF UpFields
    <2> HIDE DEF chunk, hidden
    <2>4. /\ search.type = "block_delta" /\ search.index = u.blocks - 1 /\ search.search \in BOOLEAN
          /\ \A data : LET c == [chunk EXCEPT !.data = data]
                       IN  /\ c.type = "block_delta" /\ c.index = u.blocks - 1
                           /\ c.search \in BOOLEAN
        BY <2>2
    <2> HIDE DEF search
    <2>5. /\ s.chunk.type = "block_delta" /\ s.chunk.index = u.blocks - 1 /\ s.chunk.search \in BOOLEAN
          /\ DOMAIN s.up = UpFields /\ s.up.blocks = u.blocks
          /\ s.up.stage = u.stage \/ s.up.stage = "search"
        <3>1. CASE s = Sent(hidden, [chunk EXCEPT !.data = Token(u)])
            <4> DEFINE c == [chunk EXCEPT !.data = Token(u)]
            <4>1. c.type = "block_delta" /\ c.index = u.blocks - 1 /\ c.search \in BOOLEAN
                BY <2>4
            <4>2. s = Sent(hidden, c)
                BY <3>1
            <4> HIDE DEF c
            <4> QED BY <2>3, <4>1, <4>2, SentIs
        <3>2. ASSUME NEW data, s = Sent(Continuing(u, data), [chunk EXCEPT !.data = data])
              PROVE  /\ s.chunk.type = "block_delta" /\ s.chunk.index = u.blocks - 1
                     /\ s.chunk.search \in BOOLEAN /\ DOMAIN s.up = UpFields /\ s.up.blocks = u.blocks
                     /\ s.up.stage = u.stage \/ s.up.stage = "search"
            <4> DEFINE c == [chunk EXCEPT !.data = data]
                       v == Continuing(u, data)
            <4>1. c.type = "block_delta" /\ c.index = u.blocks - 1 /\ c.search \in BOOLEAN
                BY <2>4
            <4>2. DOMAIN v = UpFields /\ v.stage = u.stage /\ v.blocks = u.blocks
                BY ToldIs
            <4>3. s = Sent(v, c)
                BY <3>2
            <4> HIDE DEF c, v
            <4> QED BY <4>1, <4>2, <4>3, SentIs
        <3>3. CASE s = Sent(Moved(u, "search"), search)
            BY <2>4, <3>3, SentIs
        <3> QED BY <2>1, <3>1, <3>2, <3>3
    <2>6. AnthropicForm(s.chunk)
        BY <2>5 DEF AnthropicForm
    <2>7. s.up.stage \in BlockStages
        BY <2>5 DEF BlockStages
    <2>8. Unstopped(s.up) \subseteq Unstopped(u)
        BY <2>5, <2>7 DEF Unstopped, Opened, BlockStages, Over
    <2> QED BY <2>5, <2>6, <2>7, <2>8 DEF AnthropicNext, Enders, BlockStages, Over
<1> QED BY <1>1, <1>2

LEMMA AnthropicSendIs ==
    ASSUME NEW u, DOMAIN u = UpFields, u.blocks \in Nat,
           u.stage \in {"start", "between"} \cup BlockStages \cup Over,
           u.stage \in BlockStages => u.blocks > 0, NEW s \in AnthropicSends(u)
    PROVE  AnthropicNext(u, s)
<1>1. \/ u.stage = "start" /\ s = Sent(Moved(u, "between"), AnthropicChunk("message_start"))
      \/ /\ u.stage = "between"
         /\ \/ s = Sent(Moved(u, "closing"), AnthropicChunk("message_delta"))
            \/ s = Sent(Moved(u, "failed"), AnthropicChunk("error"))
            \/ s = Sent(u, AnthropicChunk("ping"))
            \/ \E block \in DOMAIN AnthropicKind \cup {"server_tool_use"} : s = AnthropicOpens(u, block)
      \/ u.stage = "closing" /\ s = Sent(Moved(u, "finished"), AnthropicChunk("message_stop"))
      \/ /\ u.stage \in BlockStages
         /\ \/ s = Sent(Moved(u, "between"),
                        [AnthropicChunk("block_stop") EXCEPT !.index = u.blocks - 1])
            \/ s \in AnthropicDeltas(u)
    BY DEF AnthropicSends, Finished, BlockStages, Over
<1>2. \A stage : /\ DOMAIN Moved(u, stage) = UpFields /\ Moved(u, stage).stage = stage
                 /\ Moved(u, stage).blocks = u.blocks
    BY SentIs
<1>3. CASE u.stage = "start" /\ s = Sent(Moved(u, "between"), AnthropicChunk("message_start"))
    BY <1>2, <1>3, AnthropicPlain DEF BlockStages, Over, Enders
<1>4. CASE u.stage = "between" /\ s = Sent(Moved(u, "closing"), AnthropicChunk("message_delta"))
    BY <1>2, <1>4, AnthropicPlain DEF BlockStages, Over, Enders
<1>5. CASE u.stage = "between" /\ s = Sent(Moved(u, "failed"), AnthropicChunk("error"))
    BY <1>2, <1>5, AnthropicPlain DEF BlockStages, Over, Enders
<1>6. CASE u.stage = "between" /\ s = Sent(u, AnthropicChunk("ping"))
    BY <1>6, AnthropicPlain DEF BlockStages, Over, Enders
<1>7. CASE u.stage = "closing" /\ s = Sent(Moved(u, "finished"), AnthropicChunk("message_stop"))
    BY <1>2, <1>7, AnthropicPlain DEF BlockStages, Over, Enders
<1>8. ASSUME u.stage = "between", NEW block \in DOMAIN AnthropicKind \cup {"server_tool_use"},
             s = AnthropicOpens(u, block)
      PROVE  AnthropicNext(u, s)
    BY <1>8, AnthropicOpen
<1>9. CASE u.stage \in BlockStages
    BY <1>1, <1>9, AnthropicInside DEF BlockStages
<1> QED BY <1>1, <1>3, <1>4, <1>5, <1>6, <1>7, <1>8, <1>9

LEMMA AnthropicGrows ==
    ASSUME NEW u, NEW cs, IsSeq(cs), NEW open, open, NEW q, NEW cv, AnthropicChunks(u, cs, open, q, cv),
           NEW s, AnthropicNext(u, s)
    PROVE  /\ AnthropicChunks(s.up, Append(cs, s.chunk), open, q, cv)
           /\ Stops(Append(cs, s.chunk)) \cup Unstopped(s.up) \subseteq Stops(cs) \cup Unstopped(u)
<1> DEFINE c == s.chunk
           v == s.up
           t == Append(cs, c)
<1>1. /\ Len(t) = Len(cs) + 1 /\ Len(cs) \in Nat
      /\ \A k \in DOMAIN t : \/ k \in DOMAIN cs /\ k \in Nat /\ k <= Len(cs) /\ t[k] = cs[k]
                             \/ k = Len(cs) + 1 /\ t[k] = c
    BY AppendedIs
<1>2. cs = <<>> => Len(cs) = 0
    BY DomainOf
<1>3. /\ v.stage \in {"between"} \cup BlockStages \cup Over
      /\ v.stage \in BlockStages => v.blocks > 0
      /\ AnthropicForm(c)
      /\ c.type = "message_start" => u.stage = "start"
      /\ c.type = "block_stop" => c.index \in Unstopped(u) /\ c.index \notin Unstopped(v)
      /\ c.type \in Enders => v.stage \in Over
      /\ Unstopped(v) \subseteq Unstopped(u)
      /\ u.stage \in Over => v.stage \in Over
    BY DEF AnthropicNext
<1> HIDE DEF c, v, t
<1>4. v.stage # "start"
    BY <1>3 DEF BlockStages, Over
<1>5. u.stage \in Over => c.type # "block_stop"
    BY <1>3 DEF Unstopped
<1>6. \A k \in DOMAIN t :
          /\ AnthropicForm(t[k])
          /\ t[k].type = "message_start" => k = 1 /\ q = <<>> /\ cv.output = <<>>
    <2> TAKE k \in DOMAIN t
    <2>1. CASE k \in DOMAIN cs /\ t[k] = cs[k]
        BY <2>1 DEF AnthropicChunks
    <2>2. CASE k = Len(cs) + 1 /\ t[k] = c
        <3>1. u.stage = "start" => cs = <<>> /\ q = <<>> /\ cv.output = <<>>
            BY DEF AnthropicChunks
        <3>2. u.stage = "start" => k = 1
            BY <1>1, <1>2, <2>2, <3>1
        <3> QED BY <1>3, <2>2, <3>1, <3>2
    <2> QED BY <1>1, <2>1, <2>2
<1>7. ASSUME NEW k \in DOMAIN t, t[k].type = "block_stop"
      PROVE  /\ t[k].index \notin Unstopped(v)
             /\ \A j \in DOMAIN t : k < j /\ t[j].type = "block_stop" => t[j].index # t[k].index
    <2>1. CASE k \in DOMAIN cs /\ t[k] = cs[k]
        <3>1. /\ cs[k].index \notin Unstopped(u)
              /\ \A j \in DOMAIN cs : k < j /\ cs[j].type = "block_stop" => cs[j].index # cs[k].index
            BY <1>7, <2>1 DEF AnthropicChunks
        <3> QED BY <1>1, <1>3, <2>1, <3>1
    <2>2. CASE k = Len(cs) + 1 /\ t[k] = c
        BY <1>1, <1>3, <1>7, <2>2
    <2> QED BY <1>1, <2>1, <2>2
<1>8. ASSUME NEW k \in DOMAIN t, t[k].type \in Enders
      PROVE  /\ v.stage \in Over
             /\ \A j \in DOMAIN t : k < j => t[j].type # "block_stop"
    <2>1. CASE k \in DOMAIN cs /\ t[k] = cs[k]
        <3>1. u.stage \in Over /\ \A j \in DOMAIN cs : k < j => cs[j].type # "block_stop"
            BY <1>8, <2>1 DEF AnthropicChunks
        <3> QED BY <1>1, <1>3, <1>5, <3>1
    <2>2. CASE k = Len(cs) + 1 /\ t[k] = c
        BY <1>1, <1>3, <1>8, <2>2
    <2> QED BY <1>1, <2>1, <2>2
<1>9. AnthropicChunks(v, t, open, q, cv)
    BY <1>3, <1>4, <1>6, <1>7, <1>8 DEF AnthropicChunks
<1>10. Stops(t) \cup Unstopped(v) \subseteq Stops(cs) \cup Unstopped(u)
    <2> SUFFICES ASSUME NEW k \in DOMAIN t, t[k].type = "block_stop"
                 PROVE  t[k].index \in Stops(cs) \cup Unstopped(u)
        BY <1>3 DEF Stops
    <2>1. CASE k \in DOMAIN cs /\ t[k] = cs[k]
        BY <2>1 DEF Stops
    <2>2. CASE k = Len(cs) + 1 /\ t[k] = c
        BY <1>3, <2>2
    <2> QED BY <1>1, <2>1, <2>2
<1> QED BY <1>9, <1>10 DEF c, v, t

\* Snapshots, until one is the last.
LEMMA GoogleSendIs ==
    ASSUME NEW u, DOMAIN u = UpFields, u.blocks \in Nat, NEW s \in GoogleSends(u)
    PROVE  /\ DOMAIN s.up = UpFields /\ s.up.blocks \in Nat /\ ~Finished(u)
           /\ s.chunk.finish \in BOOLEAN /\ (s.chunk.finish => Finished(s.up))
<1> DEFINE stage(finish) == IF finish THEN "finished" ELSE "content"
           chunk(text, finish) == [text |-> text, finish |-> finish]
           told == Telling(u, "message", Token(u))
<1>1. /\ ~Finished(u)
      /\ \E finish, text, same :
            /\ finish \in BOOLEAN /\ DOMAIN same = UpFields /\ same.blocks \in Nat
            /\ s = Sent(Moved(same, stage(finish)), chunk(text, finish))
    <2> DEFINE said == IF u.told = <<>> THEN <<>> ELSE Last(u.told).data
               seen == said # <<>>
               more == said \o Token(u)
               same == [u EXCEPT !.repeated = @ \/ seen]
    <2>1. /\ ~Finished(u)
          /\ \/ \E finish \in BOOLEAN : s = Sent(Moved(same, stage(finish)), chunk(said, finish))
             \/ \E finish \in BOOLEAN : s = Sent(Moved(told, stage(finish)), chunk(more, finish))
        BY DEF GoogleSends
    <2> HIDE DEF said, seen, more
    <2>2. DOMAIN same = UpFields /\ same.blocks = u.blocks
        BY DEF UpFields
    <2>3. DOMAIN told = UpFields /\ told.blocks = u.blocks
        BY ToldIs
    <2> HIDE DEF same, told, stage, chunk
    <2> QED BY <2>1, <2>2, <2>3
<1>2. PICK finish, text, same :
            /\ finish \in BOOLEAN /\ DOMAIN same = UpFields /\ same.blocks \in Nat
            /\ s = Sent(Moved(same, stage(finish)), chunk(text, finish))
    BY <1>1
<1> DEFINE v == Moved(same, stage(finish))
           c == chunk(text, finish)
<1>3. c.finish = finish
    OBVIOUS
<1>4. DOMAIN v = UpFields /\ v.stage = stage(finish) /\ v.blocks = same.blocks
    <2> HIDE DEF stage
    <2> QED BY <1>2, SentIs
<1>5. s = Sent(v, c)
    BY <1>2
<1> HIDE DEF v, c
<1>6. s.chunk = c /\ DOMAIN s.up = UpFields /\ s.up.stage = stage(finish) /\ s.up.blocks \in Nat
    BY <1>2, <1>4, <1>5, SentIs
<1>7. c.finish \in BOOLEAN
    BY <1>2, <1>3
<1> QED BY <1>1, <1>3, <1>6, <1>7 DEF Finished

LEMMA GoogleGrows ==
    ASSUME NEW u, NEW cs, IsSeq(cs), GoogleChunks(u, cs), ~Finished(u),
           NEW v, NEW c, c.finish \in BOOLEAN, c.finish => Finished(v)
    PROVE  GoogleChunks(v, Append(cs, c))
<1> DEFINE t == Append(cs, c)
<1>1. /\ Len(t) = Len(cs) + 1 /\ Len(cs) \in Nat
      /\ \A k \in DOMAIN t : \/ k \in DOMAIN cs /\ k \in Nat /\ k <= Len(cs) /\ t[k] = cs[k]
                             \/ k = Len(cs) + 1 /\ t[k] = c
    BY AppendedIs
<1> HIDE DEF t
<1>2. \A k \in DOMAIN cs : cs[k].finish \in BOOLEAN /\ ~cs[k].finish
    BY DEF GoogleChunks
<1> QED BY <1>1, <1>2 DEF GoogleChunks, t

LEMMA UpstreamSendsKeeps == ASSUME StreamInv, UpstreamSends PROVE StreamInv'
<1> DEFINE q == InFlight
           cv == converter.cv
           st == provider.st
           cs == chunks
           F == Endable
           G == Endable'
<1>1. /\ IsSeq(cs) /\ DOMAIN up = UpFields /\ up.blocks \in Nat /\ kind \in Streams
      /\ UpstreamOK /\ ProviderOK /\ PipeOK /\ body = "open"
    BY DEF StreamInv, UpstreamOK, UpstreamSends
<1>2. UNCHANGED <<kind, body, provider, events, converter, handler>>
    BY DEF UpstreamSends
<1>3. PICK s \in Sends(kind, up) : up' = s.up /\ chunks' = Append(cs, s.chunk)
    BY DEF UpstreamSends
<1>4. handler.pc # "begin"
    BY <1>1 DEF StreamInv, BeginOK
<1>5. /\ PipeOK' /\ BeginOK' /\ InFlight' = q /\ IsSeq(q)
    <2>1. InFlight' = q
        BY <1>2 DEF InFlight
    <2>2. IsSeq(q)
        BY <1>1, JointIs DEF PipeOK, InFlight
    <2>3. PipeOK'
        BY <1>1, <1>2, <2>1 DEF PipeOK
    <2> QED BY <1>2, <1>4, <2>1, <2>2, <2>3 DEF BeginOK
<1>6. IsSeq(Append(cs, s.chunk))
    <2> HIDE DEF cs
    <2> QED BY <1>1, AppendedIs
<1>7. UpstreamOK' /\ ProviderOK' /\ G \subseteq F
    <2>1. CASE kind = "chat"
        <3>1. s \in ChatSends(up) /\ ChatChunks(up, cs)
            BY <1>1, <1>3, <2>1 DEF Sends, UpstreamOK
        <3>2. ~Finished(up) /\ ChatNext(up, s)
            BY <1>1, <3>1, ChatSendIs DEF ChatChunks
        <3>3. /\ ChatChunks(s.up, Append(cs, s.chunk))
              /\ \A x, y, z : ChatPlaces(x, up, cs, y, z) => ChatPlaces(x, s.up, Append(cs, s.chunk), y, z)
            <4> HIDE DEF cs
            <4> QED BY <1>1, <3>1, <3>2, ChatGrows
        <3>4. DOMAIN s.up = UpFields /\ s.up.blocks \in Nat
            BY <3>2 DEF ChatNext
        <3>5. UpstreamOK'
            BY <1>1, <1>2, <1>3, <1>6, <2>1, <3>3, <3>4 DEF UpstreamOK
        <3>6. ProviderOK'
            BY <1>1, <1>2, <1>3, <1>5, <2>1, <3>3 DEF ProviderOK
        <3>7. G \subseteq F
            BY <1>2, <2>1, <3>2 DEF Endable, AllTaken
        <3> QED BY <3>5, <3>6, <3>7
    <2>2. CASE kind = "google"
        <3>1. s \in GoogleSends(up) /\ GoogleChunks(up, cs)
            BY <1>1, <1>3, <2>2 DEF Sends, UpstreamOK
        <3>2. /\ DOMAIN s.up = UpFields /\ s.up.blocks \in Nat /\ ~Finished(up)
              /\ s.chunk.finish \in BOOLEAN /\ (s.chunk.finish => Finished(s.up))
            BY <1>1, <3>1, GoogleSendIs
        <3>3. GoogleChunks(s.up, Append(cs, s.chunk))
            <4> HIDE DEF cs
            <4> QED BY <1>1, <3>1, <3>2, GoogleGrows
        <3>4. UpstreamOK'
            BY <1>1, <1>2, <1>3, <1>6, <2>2, <3>2, <3>3 DEF UpstreamOK
        <3>5. ProviderOK'
            BY <1>1, <1>2, <2>2 DEF ProviderOK
        <3>6. G \subseteq F
            BY <1>2, <2>2, <3>2 DEF Endable, AllTaken
        <3> QED BY <3>4, <3>5, <3>6
    <2>3. CASE kind = "anthropic"
        <3> DEFINE open == body = "open"
        <3>1. s \in AnthropicSends(up) /\ AnthropicChunks(up, cs, open, q, cv)
            BY <1>1, <1>3, <2>3 DEF Sends, UpstreamOK
        <3>2. AnthropicNext(up, s)
            BY <1>1, <3>1, AnthropicSendIs DEF AnthropicChunks
        <3>3. /\ AnthropicChunks(s.up, Append(cs, s.chunk), open, q, cv)
              /\ Stops(Append(cs, s.chunk)) \cup Unstopped(s.up) \subseteq Stops(cs) \cup Unstopped(up)
            <4>1. open
                BY <1>1
            <4> HIDE DEF cs, q, cv, open
            <4> QED BY <1>1, <3>1, <3>2, <4>1, AnthropicGrows
        <3>4. DOMAIN s.up = UpFields /\ s.up.blocks \in Nat
            BY <3>2 DEF AnthropicNext
        <3>5. UpstreamOK'
            BY <1>1, <1>2, <1>3, <1>5, <1>6, <2>3, <3>3, <3>4 DEF UpstreamOK
        <3>6. ProviderOK'
            BY <1>1, <1>2, <2>3 DEF ProviderOK
        <3>7. G \subseteq F
            BY <1>2, <1>3, <2>3, <3>3 DEF Endable
        <3> QED BY <3>5, <3>6, <3>7
    <2> QED BY <1>1, <2>1, <2>2, <2>3 DEF Streams
<1>8. Flow(q, cv, G) /\ SaidOK(converter.pend, handler.event, q, cv, G)
    <2> DEFINE pend == converter.pend
               event == handler.event
    <2>1. Flow(q, cv, F) /\ SaidOK(pend, event, q, cv, F)
        BY DEF StreamInv
    <2> HIDE DEF q, cv, F, G, pend, event
    <2>2. Within(q, q)
        BY <1>5, WithinItself
    <2>3. Flow(q, cv, G)
        BY <1>5, <1>7, <2>1, <2>2, FlowWithin
    <2>4. SaidOK(pend, event, q, cv, G)
        BY <1>7, <2>1, <2>2, SaidWithin
    <2> QED BY <2>3, <2>4 DEF pend, event
<1> QED BY <1>2, <1>5, <1>7, <1>8 DEF StreamInv

-----------------------------------------------------------------------------
\* The beginning.
LEMMA NewIs ==
    /\ ConvOK(NewConversion) /\ Touched(NewConversion) = {} /\ TextIn(NewConversion) = {}
    /\ NewConversion.output = Nothing /\ DOMAIN NewConversion.at = {}
<1>1. /\ DOMAIN NewConversion = ConvFields
      /\ NewConversion.output = Nothing /\ NewConversion.text = Nothing /\ NewConversion.at = Nothing
    BY DEF NewConversion, ConvFields, Nothing
<1>2. IsSeq(Nothing) /\ DOMAIN Nothing = {}
    <2>1. IsSeq(Nothing) /\ Len(Nothing) = 0
        BY NoneOf DEF Nothing
    <2>2. DOMAIN Nothing = 1..0
        BY <2>1, DomainOf
    <2> QED BY <2>1, <2>2
<1> HIDE DEF Nothing, NewConversion
<1> QED BY <1>1, <1>2 DEF ConvOK, Touched, TextIn

LEMMA FirstFlow ==
    ASSUME NEW q, IsSeq(q), \A k \in DOMAIN q : Inert(q[k]) /\ q[k].index = 0,
           NEW cv, cv = NewConversion, NEW F, NEW pend, pend = <<>>, NEW event, event = NoEvent
    PROVE  Flow(q, cv, F) /\ SaidOK(pend, event, q, cv, F)
<1>1. cv.output = <<>>
    BY NewIs DEF Nothing
<1>2. \A k \in DOMAIN q : q[k].type # "block_done" /\ q[k].type # "args_done"
    BY DEF Inert, Changes
<1>3. Flow(q, cv, F)
    BY <1>1, <1>2 DEF Flow, EndedOnce, TextsFirst, WholeAtEnds
<1>4. IsSeq(pend) /\ DOMAIN pend = {}
    <2>1. IsSeq(pend) /\ Len(pend) = 0
        BY NoneOf
    <2>2. DOMAIN pend = 1..0
        BY <2>1, DomainOf
    <2> QED BY <2>1, <2>2
<1> QED BY <1>3, <1>4 DEF SaidOK

LEMMA NothingIs == IsSeq(Nothing) /\ Len(Nothing) = 0 /\ DOMAIN Nothing = {}
<1>1. IsSeq(Nothing) /\ Len(Nothing) = 0
    BY NoneOf DEF Nothing
<1> HIDE DEF Nothing
<1>2. DOMAIN Nothing = 1..0
    BY <1>1, DomainOf
<1> QED BY <1>1, <1>2

LEMMA StreamInvInit == Init => StreamInv
<1> SUFFICES ASSUME Init PROVE StreamInv
    OBVIOUS
<1> DEFINE q == InFlight
           cv == converter.cv
           F == Endable
           pend == converter.pend
           event == handler.event
<1>1. /\ kind = "none" /\ up = NewUpstream /\ chunks = Nothing /\ events = Nothing /\ body = "closed"
      /\ DOMAIN provider = {"pc", "st", "pend"} /\ provider.pc = "done" /\ provider.pend = Nothing
      /\ DOMAIN converter = {"pc", "cv", "pend"} /\ cv = NewConversion /\ pend = Nothing
      /\ DOMAIN handler = {"pc", "event", "final", "ending"} /\ event = NoEvent
    BY DEF Init, Nothing
<1>2. q = Nothing
    <2>1. q = Joint(events, provider.pend)
        BY DEF InFlight
    <2> HIDE DEF q
    <2> QED BY <1>1, <2>1, NothingIs, JointAlone
<1>3. Flow(q, cv, F) /\ SaidOK(pend, event, q, cv, F)
    <2>1. pend = <<>>
        BY <1>1 DEF Nothing
    <2> HIDE DEF q, cv, F, pend, event
    <2> QED BY <1>1, <1>2, <2>1, NothingIs, FirstFlow
<1>4. PipeOK
    BY <1>1, <1>2, NothingIs, NewIs DEF PipeOK
<1>5. BeginOK
    BY <1>1 DEF BeginOK, Nothing
<1>6. UpstreamOK
    BY <1>1, NothingIs DEF UpstreamOK, NewUpstream, UpFields
<1>7. ProviderOK
    BY <1>1 DEF ProviderOK
<1> QED BY <1>3, <1>4, <1>5, <1>6, <1>7 DEF StreamInv

\* The streams of a request are empty at first, those of a whole response
\* begin with its lifecycle.
LEMMA FirstEvents ==
    ASSUME NEW told, NEW status, NEW sent,
           \/ sent = FromResponse(told, status).events
           \/ sent = FromVisualResponse(told, status).events
    PROVE  IsSeq(sent) /\ \A e \in ToSet(sent) : Inert(e) /\ ~Texts(e) /\ e.index = 0
<1> DEFINE a == Lifecycle("created")
           b == Lifecycle("in_progress")
<1>1. sent = <<a, b>> \/ sent = <<a>>
    BY DEF FromResponse, FromVisualResponse, Step
<1>2. a.type = "created" /\ a.index = 0 /\ b.type = "in_progress" /\ b.index = 0
    BY EventIs
<1> HIDE DEF a, b
<1>3. /\ Inert(a) /\ ~Texts(a) /\ Inert(b) /\ ~Texts(b)
    BY <1>2 DEF Inert, Texts, Changes
<1>4. CASE sent = <<a, b>>
    <2>1. IsSeq(sent) /\ ToSet(sent) = {a, b}
        BY <1>4, ShortSets
    <2> QED BY <1>2, <1>3, <2>1
<1>5. CASE sent = <<a>>
    <2>1. IsSeq(sent) /\ ToSet(sent) = {a}
        BY <1>5, ShortSets
    <2> QED BY <1>2, <1>3, <2>1
<1> QED BY <1>1, <1>4, <1>5

LEMMA StartResponseIs ==
    ASSUME NEW k, StartResponse(k)
    PROVE  /\ k \in {"whole", "visual"} /\ body' = body
           /\ \E told, status :
                 /\ status \in {"completed", "incomplete", "failed"}
                 /\ up' = [up EXCEPT !.stage = "finished", !.told = told]
                 /\ \E first \in {FromResponse(told, status), FromVisualResponse(told, status)} :
                       provider' = [pc |-> "blocks", st |-> first.st, pend |-> first.events]
<1>1. PICK told \in Responses, status \in {"completed", "incomplete", "failed"} :
          /\ up' = [up EXCEPT !.stage = "finished", !.told = told]
          /\ LET first == IF k = "whole" THEN FromResponse(told, status)
                          ELSE FromVisualResponse(told, status)
             IN  provider' = [pc |-> "blocks", st |-> first.st, pend |-> first.events]
    BY Zenon DEF StartResponse
<1>2. k \in {"whole", "visual"} /\ body' = body
    BY DEF StartResponse
<1> QED BY <1>1, <1>2

LEMMA StartKeeps ==
    ASSUME StreamInv, handler.pc = "begin", NEW k \in Kinds, StartStream(k) \/ StartResponse(k),
           UNCHANGED <<chunks, events>>,
           DOMAIN converter' = {"pc", "cv", "pend"}, converter'.cv = converter.cv,
           converter'.pend = converter.pend,
           DOMAIN handler' = {"pc", "event", "final", "ending"}, handler'.event = handler.event,
           handler'.pc # "begin"
    PROVE  StreamInv'
<1> DEFINE s == InFlight'
           cv == converter'.cv
           F == Endable'
           sent == provider'.pend
           pend == converter'.pend
           event == handler'.event
<1>1. /\ up = NewUpstream /\ chunks' = Nothing /\ events' = Nothing /\ body = "closed"
      /\ cv = NewConversion /\ pend = <<>> /\ event = NoEvent
    BY DEF StreamInv, BeginOK, Nothing
<1>2. DOMAIN provider' = {"pc", "st", "pend"} /\ kind' = k /\ k \in PathKinds
    BY ServerAssumption DEF StartStream, StartResponse
<1>3. IsSeq(sent) /\ \A e \in ToSet(sent) : Inert(e) /\ ~Texts(e) /\ e.index = 0
    <2>1. CASE StartStream(k)
        <3>1. sent = <<>>
            BY <2>1 DEF StartStream
        <3> HIDE DEF sent
        <3>2. IsSeq(sent) /\ ToSet(sent) = {}
            BY <3>1, ShortSets
        <3> QED BY <3>2
    <2>2. CASE StartResponse(k)
        <3>1. PICK told, status :
                 /\ status \in {"completed", "incomplete", "failed"}
                 /\ up' = [up EXCEPT !.stage = "finished", !.told = told]
                 /\ \E first \in {FromResponse(told, status), FromVisualResponse(told, status)} :
                       provider' = [pc |-> "blocks", st |-> first.st, pend |-> first.events]
            BY <2>2, StartResponseIs
        <3>2. PICK first \in {FromResponse(told, status), FromVisualResponse(told, status)} :
                 provider' = [pc |-> "blocks", st |-> first.st, pend |-> first.events]
            BY <3>1
        <3>3. \/ sent = FromResponse(told, status).events
              \/ sent = FromVisualResponse(told, status).events
            BY <3>2
        <3> HIDE DEF sent
        <3> QED BY <3>3, FirstEvents
    <2> QED BY <2>1, <2>2
<1>4. s = sent
    <2>1. s = Joint(events', sent)
        BY DEF InFlight
    <2> HIDE DEF s, sent
    <2> QED BY <1>1, <1>3, <2>1, NothingIs, JointAlone
<1>5. IsSeq(s) /\ \A n \in DOMAIN s : Inert(s[n]) /\ ~Texts(s[n]) /\ s[n].index = 0
    <2> HIDE DEF s, sent
    <2> QED BY <1>3, <1>4 DEF ToSet
<1>6. Flow(s, cv, F) /\ SaidOK(pend, event, s, cv, F)
    <2> HIDE DEF s, cv, F, pend, event, sent
    <2> QED BY <1>1, <1>5, FirstFlow
<1>7. PipeOK' /\ BeginOK'
    <2>1. \A n \in DOMAIN s : s[n].index \in Nat
        BY <1>5
    <2> QED BY <1>1, <1>3, <2>1, NothingIs, NewIs DEF PipeOK, BeginOK
<1>8. UpstreamOK' /\ ProviderOK'
    <2>1. CASE StartStream(k)
        <3>1. /\ up' = NewUpstream /\ k \in Streams /\ provider'.pc = "run"
              /\ provider'.st = NewAdapter[k] /\ sent = Nothing
            BY <1>1, <2>1 DEF StartStream, Nothing
        <3>2. s = <<>> /\ DOMAIN s = {}
            BY <1>4, <3>1, NothingIs DEF Nothing
        <3>3. DOMAIN chunks' = {} /\ IsSeq(chunks')
            BY <1>1, NothingIs
        <3>4. /\ DOMAIN NewUpstream = UpFields /\ NewUpstream.blocks = 0
              /\ NewUpstream.stage = "start"
            BY DEF NewUpstream, UpFields
        <3>5. ChatChunks(NewUpstream, chunks')
            BY <3>3, <3>4, StagesAre DEF ChatChunks
        <3>6. GoogleChunks(NewUpstream, chunks')
            BY <3>3 DEF GoogleChunks
        <3>7. AnthropicChunks(NewUpstream, chunks', body' = "open", s, cv)
            BY <1>1, <3>2, <3>3, <3>4, NewIs DEF AnthropicChunks, BlockStages, Nothing
        <3>8. UpstreamOK'
            BY <1>2, <3>1, <3>3, <3>4, <3>5, <3>6, <3>7 DEF UpstreamOK
        <3>9. k = "chat" => ChatState(provider'.st) /\ ChatPlaces(provider'.st, up', chunks', s, cv)
            <4> SUFFICES ASSUME k = "chat"
                         PROVE  /\ ChatState(provider'.st)
                                /\ ChatPlaces(provider'.st, up', chunks', s, cv)
                OBVIOUS
            <4>1. provider'.st = NewChat
                BY <3>1 DEF NewAdapter
            <4>2. ChatState(NewChat) /\ NewChat.block = 0 /\ ~NewChat.calls
                <5>1. DOMAIN NewChat.slot = {}
                    BY NothingIs DEF NewChat, Nothing
                <5> QED BY <5>1 DEF ChatState, NewChat, ChatFields
            <4> HIDE DEF s, cv
            <4>3. ChatPlaces(NewChat, up', chunks', s, cv)
                BY <1>1, <3>2, <4>2, NewIs DEF ChatPlaces
            <4> QED BY <4>1, <4>2, <4>3
        <3>10. ProviderOK'
            BY <1>1, <1>2, <3>1, <3>9 DEF ProviderOK, Nothing
        <3> QED BY <3>8, <3>10
    <2>2. CASE StartResponse(k)
        <3>6. PICK told, status :
                 /\ status \in {"completed", "incomplete", "failed"}
                 /\ up' = [up EXCEPT !.stage = "finished", !.told = told]
                 /\ \E first \in {FromResponse(told, status), FromVisualResponse(told, status)} :
                       provider' = [pc |-> "blocks", st |-> first.st, pend |-> first.events]
            BY <2>2, StartResponseIs
        <3>7. PICK first \in {FromResponse(told, status), FromVisualResponse(told, status)} :
                 provider' = [pc |-> "blocks", st |-> first.st, pend |-> first.events]
            BY <3>6
        <3>1. /\ k \in {"whole", "visual"} /\ body' = "closed" /\ provider'.pc = "blocks"
              /\ DOMAIN up' = UpFields /\ up'.blocks = 0
            <4>1. k \in {"whole", "visual"} /\ body' = "closed"
                BY <1>1, <2>2, StartResponseIs
            <4>2. DOMAIN up' = UpFields /\ up'.blocks = 0
                BY <1>1, <3>6 DEF NewUpstream, UpFields
            <4> QED BY <3>7, <4>1, <4>2
        <3>2. PICK blocks : provider'.st = NewResponse(blocks, status)
            BY <3>7 DEF FromResponse, FromVisualResponse, Step
        <3>3. UpstreamOK'
            BY <1>1, <1>2, <3>1, NothingIs DEF UpstreamOK
        <3>4. ResponsePlaces(provider'.st, s, cv)
            <4>1. /\ DOMAIN provider'.st = {"blocks", "next", "status"} /\ provider'.st.next = 1
                  /\ provider'.st.status \in {"completed", "incomplete", "failed"}
                <5> DEFINE st == provider'.st
                <5>1. st = [blocks |-> blocks, next |-> 1, status |-> status]
                    BY <3>2 DEF NewResponse
                <5>2. status \in {"completed", "incomplete", "failed"}
                    BY <3>6
                <5> HIDE DEF st
                <5>3. DOMAIN st = {"blocks", "next", "status"} /\ st.next = 1 /\ st.status = status
                    BY <5>1
                <5> QED BY <5>2, <5>3 DEF st
            <4> HIDE DEF s, cv
            <4> QED BY <1>1, <1>5, <4>1, NewIs DEF ResponsePlaces
        <3>5. ProviderOK'
            BY <1>1, <1>2, <3>1, <3>4 DEF ProviderOK, Nothing
        <3> QED BY <3>3, <3>5
    <2> QED BY <2>1, <2>2
<1> QED BY <1>6, <1>7, <1>8 DEF StreamInv

LEMMA BeginKeeps == ASSUME StreamInv, Begin \/ RefuseLate PROVE StreamInv'
<1>1. PICK k \in Kinds : StartStream(k) \/ StartResponse(k)
    BY DEF Begin, RefuseLate
<1>2. DOMAIN converter = {"pc", "cv", "pend"} /\ DOMAIN handler = {"pc", "event", "final", "ending"}
    BY DEF StreamInv, PipeOK
<1>3. handler.pc = "begin" /\ UNCHANGED <<chunks, events>>
    BY DEF Begin, RefuseLate
<1>4. /\ DOMAIN converter' = {"pc", "cv", "pend"} /\ converter'.cv = converter.cv
      /\ converter'.pend = converter.pend
    BY <1>2 DEF Begin, RefuseLate
<1>5. /\ DOMAIN handler' = {"pc", "event", "final", "ending"} /\ handler'.event = handler.event
      /\ handler'.pc # "begin"
    BY <1>2 DEF Begin, RefuseLate
<1> QED BY <1>1, <1>3, <1>4, <1>5, StartKeeps

-----------------------------------------------------------------------------
\* Every step of Next keeps the invariant, and tears no event.
LEMMA StreamInvNext ==
    ASSUME StreamInv, [Next]_vars
    PROVE  StreamInv' /\ (handler.event # NoEvent => ~Tears(handler.event, converter.cv, converter'.cv))
<1>1. CASE UNCHANGED vars
    <2>1. StreamInv'
        BY <1>1 DEF vars, StreamInv, PipeOK, BeginOK, UpstreamOK, ProviderOK, InFlight, Endable, AllTaken
    <2> QED BY <1>1, <2>1 DEF vars, Tears
<1>2. CASE ConvertNext \/ HandOver
    BY <1>2, ConvertTakes
<1>3. CASE Next /\ ~(ConvertNext \/ HandOver)
    <2>1. converter'.cv = converter.cv
        BY <1>3 DEF StreamInv, PipeOK, Next, Handler, Provider, Converter, Upstream, Begin, Refuse, RefuseLate,
               Receive, Write, WriteFails, LoopEnds, RememberCompleted, RememberBuffer, Return,
               TakeChunk, StreamOver, ProviderStops, NextBlock, Emit, Drop, ProviderDone,
               ConverterDone, UpstreamSends, UpstreamEnds, ReaderStops, ClientLeaves
    <2>2. StreamInv'
        BY <1>3, BeginKeeps, ReceiveKeeps, WriteKeeps, RestKeeps, EmitKeeps, TakeChunkKeeps,
           StreamOverKeeps, NextBlockKeeps, UpstreamSendsKeeps
           DEF Next, Handler, Provider, Converter, Upstream
    <2> QED BY <2>1, <2>2 DEF Tears
<1> QED BY <1>1, <1>2, <1>3

\* The events between the adapter and the handler stay in the order the
\* converter was written for, in every reachable state of the streams of
\* handleAdapterStream: an index is ended once, no text is ended after the
\* end of a call, and the whole response is reported before its items or
\* after their ends.
THEOREM StreamIsOrdered == Spec => []StreamInv
<1>1. StreamInv /\ [Next]_vars => StreamInv'
    BY StreamInvNext
<1> QED BY <1>1, StreamInvInit, PTL DEF Spec

\* While the handler marshals an event (writeSSE), the converter, a step
\* ahead in streamLoopWithBuf, does not write to the memory it refers to: for
\* channels of any capacity, answers of any length and any moment the client
\* leaves.
THEOREM EventsStayWhole == Spec => NoTornEvent
<1>1. StreamInv /\ [Next]_vars =>
        [handler.event # NoEvent => ~Tears(handler.event, converter.cv, converter'.cv)]_vars
    BY StreamInvNext
<1> QED BY <1>1, StreamIsOrdered, PTL DEF Spec, NoTornEvent
=============================================================================
