--------------------------- MODULE ReasoningCache ---------------------------
(* What the server remembers of the reasoning of an answer, per tool call, *)
(* for the next request of the session: from the completed response, or    *)
(* from the first chunks of the upstream stream (handleAdapterStream and    *)
(* extension/deepseek_v4/state.go). Signatures, the records by assistant   *)
(* text and the limit of the cache are left out.                           *)
EXTENDS Upstreams, FiniteSetsExt

CONSTANT BufCap   \* chunks an adapter keeps of its stream (1024)

ASSUME CacheAssumption == BufCap \in Nat

\* RememberForToolCalls: later records replace earlier ones.
Remember(cache, ids, text) ==
    IF text = <<>> THEN cache ELSE [id \in ids |-> text] @@ cache

\* An item as the block it stands for.
Meaning(item) == [kind |-> item.type, id |-> item.id, data |-> item.data]

\* The last reasoning with a text before block n.
Reasons(blocks, n) == {k \in 1..(n - 1) : blocks[k].kind = "reasoning" /\ blocks[k].data # <<>>}
LastReasoning(blocks, n) ==
    IF Reasons(blocks, n) = {} THEN <<>> ELSE blocks[Max(Reasons(blocks, n))].data

\* streamOutputItemToCoreBlocks: calls are worth remembering, and what has
\* a text.
Memorable(item) == item.type = "call" \/ item.data # <<>>

\* rememberStreamResponseContent: every reasoning item begins a new group,
\* and the calls of a group are recorded with it.
RememberOutput(cache, output) ==
    LET blocks == [n \in DOMAIN output |-> Meaning(output[n])]
    IN  FoldLeft(LAMBDA c, n : IF blocks[n].kind = "call"
                               THEN Remember(c, {blocks[n].id}, LastReasoning(blocks, n))
                               ELSE c,
                 cache, [n \in DOMAIN output |-> n])

\* The chunks of the whole chat stream: all its reasoning, for all its calls.
RememberChat(cache, buf) ==
    Remember(cache,
             {buf[k].id : k \in {j \in DOMAIN buf : buf[j].id # 0}},
             FlattenSeq([k \in DOMAIN buf |-> buf[k].reasoning]))

\* StreamState over the events of an Anthropic stream: the thinking block
\* that was completed last, for all its calls.
RememberEvents(cache, buf) ==
    LET thinking == {k \in DOMAIN buf : buf[k].block = "thinking"}
        done == {k \in DOMAIN buf : buf[k].type = "block_stop"
                                    /\ \E j \in thinking : buf[j].index = buf[k].index}
        calls == {k \in DOMAIN buf : buf[k].block \in {"tool_use", "nested"}}
        deltas(i) == SelectSeq(buf, LAMBDA c : c.type = "block_delta" /\ c.index = i)
        text(i) == FlattenSeq([k \in DOMAIN deltas(i) |-> deltas(i)[k].data])
    IN  IF done = {} THEN cache
        ELSE Remember(cache, {buf[k].id : k \in calls}, text(buf[Max(done)].index))
=============================================================================
