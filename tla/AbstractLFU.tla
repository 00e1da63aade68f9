----------------------------- MODULE AbstractLFU -----------------------------
(***************************************************************************)
(* What a least-frequently-used cache promises: an entry counts its uses   *)
(* since it was inserted; a full cache throws out an entry that was used   *)
(* least often and, among those, the one whose last use is the oldest.     *)
(***************************************************************************)
EXTENDS CacheParameters

CONSTANT MaxFreq

VARIABLES
    content,  \* function: the cached keys |-> the datum each holds
    freq,     \* function: the cached keys |-> how often each was used
    order,    \* the cached keys, the most recently used first
    reply     \* the last call and what it returned

vars == <<content, freq, order, reply>>

Cached == DOMAIN content

Init == /\ content = [k \in {} |-> NoData]
        /\ freq    = [k \in {} |-> 0]
        /\ order   = <<>>
        /\ reply   = Created

Use(k) == /\ k \in Cached
          /\ freq[k] < MaxFreq
          /\ freq'  = [freq EXCEPT ![k] = @ + 1]
          /\ order' = <<k>> \o Dropping(order, {k})

Get(k) ==
    \/ /\ k \in Cached /\ reply' = Reply("get", content[k], {})
       /\ Use(k)
       /\ UNCHANGED content
    \/ /\ k \notin Cached
       /\ reply' = Reply("get", NoData, {})
       /\ UNCHANGED <<content, freq, order>>

Exists(k) == /\ reply' = Reply("exists", k \in Cached, {})
             /\ UNCHANGED <<content, freq, order>>

Age(k) == CHOOSE i \in DOMAIN order : order[i] = k

LeastUsed == {k \in Cached : \A x \in Cached : freq[k] <= freq[x]}

Victims == IF Cardinality(Cached) < LenMax THEN {}
           ELSE {k \in LeastUsed : \A x \in LeastUsed : Age(k) >= Age(x)}

Put(k, d) ==
    \/ /\ reply' = Reply("put", NoData, {})
       /\ Use(k)
       /\ content' = [content EXCEPT ![k] = d]
    \/ LET out  == Victims
           kept == (Cached \ out) \cup {k}
       IN  /\ k \notin Cached
           /\ reply'   = Reply("put", NoData, {<<x, content[x]>> : x \in out})
           /\ content' = [x \in kept |-> IF x = k THEN d ELSE content[x]]
           /\ freq'    = [x \in kept |-> IF x = k THEN 1 ELSE freq[x]]
           /\ order'   = <<k>> \o Dropping(order, out)

Forget(gone, op) ==
    /\ reply'   = Reply(op, NoData, {})
    /\ content' = Restrict(content, Cached \ gone)
    /\ freq'    = Restrict(freq, Cached \ gone)
    /\ order'   = Dropping(order, gone)

Invalidate(k) == Forget({k}, "invalidate")

InvalidateRange(lo, hi) == /\ lo < hi
                           /\ Forget(lo .. (hi - 1), "invalidate_range")

Next == \/ \E k \in Keys : Get(k) \/ Exists(k) \/ Invalidate(k)
        \/ \E k \in Keys, d \in Data : Put(k, d)
        \/ \E lo, hi \in Keys : InvalidateRange(lo, hi)

Spec == Init /\ [][Next]_vars
=============================================================================
