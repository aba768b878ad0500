------------------------- MODULE SegmentListProofs --------------------------
(***************************************************************************)
(* The list of segments, for any finite set of them: inserting and removing*)
(* a node keeps it a list of exactly the nodes that it should hold.  The   *)
(* argument is the chain, a sequence of the nodes in their order: the hops *)
(* of IsList follow it, and each operation makes another chain of them.    *)
(***************************************************************************)
EXTENDS SegmentList, InductionTheorems

\* c is the sequence of the n nodes, from a head on, that the links forward and backward
\* give; the first one points back to "before", which is NULL in a whole list.
IsChain(c, n, head, back, fwd, before, nodes) ==
    /\ c \in [1 .. n -> Segment]
    /\ \A i, j \in 1 .. n : c[i] = c[j] => i = j
    /\ nodes = {c[i] : i \in 1 .. n}
    /\ head = IF n = 0 THEN NULL ELSE c[1]
    /\ \A i \in 1 .. n : fwd[c[i]] = IF i = n THEN NULL ELSE c[i + 1]
    /\ \A i \in 1 .. n : back[c[i]] = IF i = 1 THEN before ELSE c[i - 1]

\* There is such a sequence.
Chain(head, back, fwd, before, nodes) ==
    \E n \in Nat : \E c : IsChain(c, n, head, back, fwd, before, nodes)

Links == [Segment -> Link]

\* No nodes.
LEMMA EmptyChain ==
  ASSUME NEW back \in Links, NEW fwd \in Links, NEW before
  PROVE  Chain(NULL, back, fwd, before, {})
<1> DEFINE c == [i \in 1 .. 0 |-> NULL]
<1>1. IsChain(c, 0, NULL, back, fwd, before, {})
  BY DEF IsChain
<1> QED BY <1>1 DEF Chain

\* The head is one of the nodes.
LEMMA ChainNodes ==
  ASSUME NEW head, NEW back, NEW fwd, NEW before, NEW nodes, Chain(head, back, fwd, before, nodes)
  PROVE  /\ nodes \subseteq Segment
         /\ head \in Link
         /\ head = NULL <=> nodes = {}
         /\ head # NULL => head \in nodes
<1>1. PICK n \in Nat : \E c : IsChain(c, n, head, back, fwd, before, nodes)
  BY DEF Chain
<1>2. PICK c : IsChain(c, n, head, back, fwd, before, nodes)
  BY <1>1
<1> USE DEF IsChain
<1>3. nodes \subseteq Segment
  BY <1>2
<1>4. CASE n = 0
  BY <1>2, <1>4, SegmentAssumption DEF Link
<1>5. CASE n # 0
  <2>1. 1 \in 1 .. n /\ head = c[1]
    BY <1>2, <1>5
  <2>2. head \in nodes
    BY <1>2, <2>1
  <2> QED BY <1>3, <2>2, SegmentAssumption DEF Link
<1> QED BY <1>3, <1>4, <1>5

\* The links of other nodes do not matter.
LEMMA ChainElsewhere ==
  ASSUME NEW head, NEW back, NEW fwd, NEW before, NEW nodes, Chain(head, back, fwd, before, nodes),
         NEW back2, NEW fwd2, \A s \in nodes : back2[s] = back[s] /\ fwd2[s] = fwd[s]
  PROVE  Chain(head, back2, fwd2, before, nodes)
<1>1. PICK n \in Nat : \E c : IsChain(c, n, head, back, fwd, before, nodes)
  BY DEF Chain
<1>2. PICK c : IsChain(c, n, head, back, fwd, before, nodes)
  BY <1>1
<1>3. \A i \in 1 .. n : c[i] \in nodes
  BY <1>2 DEF IsChain
<1>4. IsChain(c, n, head, back2, fwd2, before, nodes)
  BY <1>2, <1>3 DEF IsChain
<1> QED BY <1>4 DEF Chain

\* The head can be given something else to point back to, ...
LEMMA ChainBefore ==
  ASSUME NEW head, NEW back \in Links, NEW fwd, NEW before, NEW nodes, Chain(head, back, fwd, before, nodes),
         NEW s \in Segment, NEW back2,
         head # NULL => back2[head] = s,
         \A m \in nodes : m # head => back2[m] = back[m]
  PROVE  Chain(head, back2, fwd, s, nodes)
<1>1. PICK n \in Nat : \E c : IsChain(c, n, head, back, fwd, before, nodes)
  BY DEF Chain
<1>2. PICK c : IsChain(c, n, head, back, fwd, before, nodes)
  BY <1>1
<1>3. ASSUME NEW i \in 1 .. n PROVE back2[c[i]] = IF i = 1 THEN s ELSE c[i - 1]
  <2>1. c[i] \in nodes /\ n # 0 /\ 1 \in 1 .. n /\ head = c[1] /\ c[1] \in Segment
    BY <1>2 DEF IsChain
  <2>2. head # NULL
    BY <2>1, SegmentAssumption
  <2>3. CASE i = 1
    BY <2>1, <2>2, <2>3
  <2>4. CASE i # 1
    <3>1. c[i] # head
      BY <1>2, <2>1, <2>4 DEF IsChain
    <3> QED BY <1>2, <2>1, <2>4, <3>1 DEF IsChain
  <2> QED BY <2>3, <2>4
<1>4. IsChain(c, n, head, back2, fwd, s, nodes)
  BY <1>2, <1>3 DEF IsChain
<1> QED BY <1>4 DEF Chain

\* ... and if that is a node which points to the head, it is the new head.
LEMMA ChainCons ==
  ASSUME NEW head, NEW back, NEW fwd, NEW nodes, NEW s \in Segment,
         Chain(head, back, fwd, s, nodes), s \notin nodes,
         fwd[s] = head, NEW before, back[s] = before
  PROVE  Chain(s, back, fwd, before, nodes \cup {s})
<1>1. PICK n \in Nat : \E c : IsChain(c, n, head, back, fwd, s, nodes)
  BY DEF Chain
<1>2. PICK c : IsChain(c, n, head, back, fwd, s, nodes)
  BY <1>1
<1> DEFINE d == [i \in 1 .. n + 1 |-> IF i = 1 THEN s ELSE c[i - 1]]
<1>3. \A i \in 1 .. n + 1 : i # 1 => i - 1 \in 1 .. n
  OBVIOUS
<1>4. d \in [1 .. n + 1 -> Segment]
  BY <1>2, <1>3 DEF IsChain
<1>5. d[1] = s /\ \A i \in 1 .. n : d[i + 1] = c[i] /\ i + 1 \in 1 .. n + 1
  OBVIOUS
<1>6. nodes \cup {s} = {d[i] : i \in 1 .. n + 1}
  <2>1. nodes = {c[i] : i \in 1 .. n}
    BY <1>2 DEF IsChain
  <2>2. \A i \in 1 .. n + 1 : d[i] = IF i = 1 THEN s ELSE c[i - 1]
    OBVIOUS
  <2>3. 1 \in 1 .. n + 1
    OBVIOUS
  <2> HIDE DEF d
  <2>4. {d[i] : i \in 1 .. n + 1} \subseteq nodes \cup {s}
    BY <1>3, <2>1, <2>2
  <2>5. nodes \cup {s} \subseteq {d[i] : i \in 1 .. n + 1}
    BY <1>5, <2>1, <2>3
  <2> QED BY <2>4, <2>5
<1>7. \A i \in 1 .. n : c[i] # s
  BY <1>2 DEF IsChain
<1>8. \A i, j \in 1 .. n + 1 : d[i] = d[j] => i = j
  BY <1>2, <1>3, <1>7 DEF IsChain
<1>9. ASSUME NEW i \in 1 .. n + 1 PROVE fwd[d[i]] = IF i = n + 1 THEN NULL ELSE d[i + 1]
  <2>1. CASE i = 1
    BY <1>2, <1>5, <2>1 DEF IsChain
  <2>2. CASE i # 1
    <3>1. i - 1 \in 1 .. n /\ d[i] = c[i - 1]
      BY <1>3, <2>2
    <3>2. i # n + 1 => d[i + 1] = c[i]
      OBVIOUS
    <3> HIDE DEF d
    <3> QED BY <1>2, <3>1, <3>2 DEF IsChain
  <2> QED BY <2>1, <2>2
<1>10. ASSUME NEW i \in 1 .. n + 1 PROVE back[d[i]] = IF i = 1 THEN before ELSE d[i - 1]
  <2>1. CASE i = 1
    BY <1>2, <1>5, <2>1
  <2>2. CASE i # 1
    <3>1. i - 1 \in 1 .. n /\ d[i] = c[i - 1]
      BY <1>3, <2>2
    <3>2. d[i - 1] = IF i - 1 = 1 THEN s ELSE c[i - 2]
      BY <2>2
    <3>3. back[c[i - 1]] = IF i - 1 = 1 THEN s ELSE c[(i - 1) - 1]
      BY <1>2, <3>1 DEF IsChain
    <3> HIDE DEF d
    <3> QED BY <2>2, <3>1, <3>2, <3>3
  <2> QED BY <2>1, <2>2
<1> HIDE DEF d
<1>11. IsChain(d, n + 1, s, back, fwd, before, nodes \cup {s})
  BY <1>4, <1>5, <1>6, <1>8, <1>9, <1>10 DEF IsChain
<1> QED BY <1>11 DEF Chain

\* The three stores of an insertion: the first touches no node that is listed, ...
LEMMA ChainLinkNext ==
  ASSUME NEW head, NEW back, NEW fwd \in Links, NEW before, NEW nodes, NEW s \in Segment,
         Chain(head, back, fwd, before, nodes), s \notin nodes
  PROVE  Chain(head, back, [fwd EXCEPT ![s] = head], before, nodes)
<1>1. nodes \subseteq Segment
  BY ChainNodes
<1> QED BY <1>1, ChainElsewhere DEF Links

\* What SetPrev makes of the links backward.
LinkedBack(back, s, to) ==
    [n \in Segment |-> IF n = s THEN NULL ELSE IF n = to THEN s ELSE back[n]]

\* ... and the second makes the old head point back to the new node.
LEMMA ChainLinkPrev ==
  ASSUME NEW head, NEW back \in Links, NEW fwd, NEW before, NEW nodes, NEW s \in Segment,
         Chain(head, back, fwd, before, nodes), s \notin nodes
  PROVE  Chain(head, LinkedBack(back, s, head), fwd, s, nodes) /\ LinkedBack(back, s, head)[s] = NULL
<1> DEFINE back2 == LinkedBack(back, s, head)
<1>1. nodes \subseteq Segment /\ (head # NULL => head \in nodes)
  BY ChainNodes
<1>2. head # NULL => back2[head] = s
  BY <1>1 DEF LinkedBack
<1>3. \A m \in nodes : m # head => back2[m] = back[m]
  BY <1>1 DEF LinkedBack
<1>4. back2[s] = NULL
  BY DEF LinkedBack
<1> HIDE DEF back2
<1>5. Chain(head, back2, fwd, s, nodes)
  BY <1>2, <1>3, ChainBefore
<1> QED BY <1>4, <1>5 DEF back2

\* Without its head the list begins at the next node.
LEMMA ChainTail ==
  ASSUME NEW head, NEW back, NEW fwd, NEW before, NEW nodes,
         Chain(head, back, fwd, before, nodes), head # NULL
  PROVE  Chain(fwd[head], back, fwd, head, nodes \ {head})
<1>1. PICK n \in Nat : \E c : IsChain(c, n, head, back, fwd, before, nodes)
  BY DEF Chain
<1>2. PICK c : IsChain(c, n, head, back, fwd, before, nodes)
  BY <1>1
<1>3. n # 0 /\ 1 \in 1 .. n /\ head = c[1] /\ n - 1 \in Nat
  BY <1>2 DEF IsChain
<1> DEFINE d == [i \in 1 .. n - 1 |-> c[i + 1]]
<1>4. \A i \in 1 .. n - 1 : d[i] = c[i + 1] /\ i + 1 \in 1 .. n
  OBVIOUS
<1>5. d \in [1 .. n - 1 -> Segment]
  BY <1>2, <1>4 DEF IsChain
<1>6. \A i, j \in 1 .. n - 1 : d[i] = d[j] => i = j
  BY <1>2, <1>4 DEF IsChain
<1> HIDE DEF d
<1>7. nodes \ {head} = {d[i] : i \in 1 .. n - 1}
  <2>1. nodes = {c[i] : i \in 1 .. n}
    BY <1>2 DEF IsChain
  <2>2. ASSUME NEW i \in 1 .. n - 1 PROVE d[i] \in nodes \ {head}
    BY <1>2, <1>3, <1>4, <2>1 DEF IsChain
  <2>3. ASSUME NEW i \in 1 .. n, c[i] # head PROVE \E j \in 1 .. n - 1 : c[i] = d[j]
    <3>1. i - 1 \in 1 .. n - 1 /\ (i - 1) + 1 = i
      BY <1>3, <2>3
    <3> QED BY <1>4, <3>1
  <2> QED BY <2>1, <2>2, <2>3
<1>8. fwd[head] = IF n - 1 = 0 THEN NULL ELSE d[1]
  BY <1>2, <1>3, <1>4 DEF IsChain
<1>9. ASSUME NEW i \in 1 .. n - 1 PROVE fwd[d[i]] = IF i = n - 1 THEN NULL ELSE d[i + 1]
  BY <1>2, <1>4 DEF IsChain
<1>10. ASSUME NEW i \in 1 .. n - 1 PROVE back[d[i]] = IF i = 1 THEN head ELSE d[i - 1]
  <2>1. back[c[i + 1]] = c[(i + 1) - 1]
    BY <1>2, <1>4 DEF IsChain
  <2>2. (i + 1) - 1 = i
    OBVIOUS
  <2>3. i # 1 => i - 1 \in 1 .. n - 1 /\ (i - 1) + 1 = i
    OBVIOUS
  <2> QED BY <1>3, <1>4, <2>1, <2>2, <2>3
<1>11. IsChain(d, n - 1, fwd[head], back, fwd, head, nodes \ {head})
  BY <1>5, <1>6, <1>7, <1>8, <1>9, <1>10 DEF IsChain
<1> QED BY <1>3, <1>11 DEF Chain

\* Without any node, the nodes before and after it are neighbours.
LEMMA ChainRemove ==
  ASSUME NEW head, NEW back \in Links, NEW fwd \in Links, NEW nodes,
         Chain(head, back, fwd, NULL, nodes), NEW s \in nodes
  PROVE  Chain(IF back[s] = NULL THEN fwd[s] ELSE head,
               Unlinked(back, s, fwd[s], back[s]), Unlinked(fwd, s, back[s], fwd[s]),
               NULL, nodes \ {s})
<1> DEFINE head2 == IF back[s] = NULL THEN fwd[s] ELSE head
           back2 == Unlinked(back, s, fwd[s], back[s])
           fwd2  == Unlinked(fwd, s, back[s], fwd[s])
<1>1. PICK n \in Nat : \E c : IsChain(c, n, head, back, fwd, NULL, nodes)
  BY DEF Chain
<1>2. PICK c : IsChain(c, n, head, back, fwd, NULL, nodes)
  BY <1>1
<1>3. PICK k \in 1 .. n : c[k] = s
  BY <1>2 DEF IsChain
<1>4. /\ \A i \in 1 .. n : c[i] \in Segment /\ c[i] # NULL
      /\ \A i, j \in 1 .. n : c[i] = c[j] => i = j
      /\ nodes = {c[i] : i \in 1 .. n} /\ head = c[1] /\ n - 1 \in Nat /\ 1 \in 1 .. n
  BY <1>2, <1>3, SegmentAssumption DEF IsChain
<1>5. fwd[s] = IF k = n THEN NULL ELSE c[k + 1]
  BY <1>2, <1>3 DEF IsChain
<1>6. back[s] = IF k = 1 THEN NULL ELSE c[k - 1]
  BY <1>2, <1>3 DEF IsChain
<1>7. \A i \in 1 .. n : fwd[c[i]] = IF i = n THEN NULL ELSE c[i + 1]
  BY <1>2 DEF IsChain
<1>8. \A i \in 1 .. n : back[c[i]] = IF i = 1 THEN NULL ELSE c[i - 1]
  BY <1>2 DEF IsChain
<1> DEFINE at(i) == IF i < k THEN i ELSE i + 1
           d == [i \in 1 .. n - 1 |-> c[at(i)]]
<1>9. \A i \in 1 .. n - 1 : at(i) \in 1 .. n /\ at(i) # k /\ d[i] = c[at(i)]
  OBVIOUS
<1>10. d \in [1 .. n - 1 -> Segment]
  BY <1>4, <1>9
<1>11. \A i, j \in 1 .. n - 1 : at(i) = at(j) => i = j
  OBVIOUS
<1>12. \A i, j \in 1 .. n - 1 : d[i] = d[j] => i = j
  BY <1>4, <1>9, <1>11
<1>13. \A i \in 1 .. n : i # k => \E j \in 1 .. n - 1 : at(j) = i
  <2> SUFFICES ASSUME NEW i \in 1 .. n, i # k PROVE \E j \in 1 .. n - 1 : at(j) = i
    OBVIOUS
  <2>1. CASE i < k
    BY <2>1
  <2>2. CASE i > k
    <3>1. i - 1 \in 1 .. n - 1 /\ at(i - 1) = i
      BY <2>2
    <3> QED BY <3>1
  <2> QED BY <2>1, <2>2
<1>14. nodes \ {s} = {d[i] : i \in 1 .. n - 1}
  <2>1. {d[i] : i \in 1 .. n - 1} \subseteq nodes \ {s}
    <3> SUFFICES ASSUME NEW i \in 1 .. n - 1 PROVE d[i] \in nodes \ {s}
      OBVIOUS
    <3> HIDE DEF at, d
    <3> QED BY <1>3, <1>4, <1>9
  <2>2. ASSUME NEW m \in nodes \ {s} PROVE m \in {d[i] : i \in 1 .. n - 1}
    <3>1. PICK i \in 1 .. n : c[i] = m
      BY <1>4
    <3>2. PICK j \in 1 .. n - 1 : at(j) = i
      BY <1>3, <1>13, <3>1
    <3> HIDE DEF at, d
    <3> QED BY <1>9, <3>1, <3>2
  <2> QED BY <2>1, <2>2
<1>15. head2 = IF n - 1 = 0 THEN NULL ELSE d[1]
  <2>1. CASE k = 1
    BY <1>5, <1>6, <2>1
  <2>2. CASE k # 1
    <3>1. k - 1 \in 1 .. n /\ back[s] # NULL
      BY <1>4, <1>6, <2>2
    <3>2. n - 1 # 0 /\ at(1) = 1 /\ 1 \in 1 .. n - 1
      BY <2>2
    <3> QED BY <1>4, <3>1, <3>2
  <2> QED BY <2>1, <2>2
<1>16. ASSUME NEW i \in 1 .. n - 1 PROVE fwd2[d[i]] = IF i = n - 1 THEN NULL ELSE d[i + 1]
  <2>1. d[i] \in Segment /\ d[i] # s /\ d[i] = c[at(i)] /\ at(i) \in 1 .. n
    BY <1>3, <1>4, <1>9
  <2>2. fwd2[d[i]] = IF d[i] = back[s] THEN fwd[s] ELSE fwd[d[i]]
    BY <2>1 DEF Unlinked
  <2>3. CASE i = k - 1
    <3>1. at(i) = i /\ c[i] = back[s] /\ k \in 2 .. n
      BY <1>6, <2>3
    <3>2. fwd2[d[i]] = IF k = n THEN NULL ELSE c[k + 1]
      BY <1>5, <2>1, <2>2, <3>1
    <3>3. i # n - 1 => d[i + 1] = c[k + 1]
      BY <2>3
    <3> QED BY <2>3, <3>2, <3>3
  <2>4. CASE i # k - 1
    <3>1. at(i) # k - 1
      BY <2>4
    <3>2. d[i] # back[s]
      <4>1. CASE k = 1
        BY <1>4, <1>6, <2>1, <4>1
      <4>2. CASE k # 1
        <5>1. k - 1 \in 1 .. n /\ back[s] = c[k - 1]
          BY <1>6, <4>2
        <5> QED BY <1>4, <2>1, <3>1, <5>1
      <4> QED BY <4>1, <4>2
    <3>3. fwd2[d[i]] = IF at(i) = n THEN NULL ELSE c[at(i) + 1]
      BY <1>7, <2>1, <2>2, <3>2
    <3>4. (at(i) = n <=> i = n - 1) /\ (i # n - 1 => i + 1 \in 1 .. n - 1 /\ at(i + 1) = at(i) + 1)
      BY <2>4
    <3> QED BY <1>9, <3>3, <3>4
  <2> QED BY <2>3, <2>4
<1>17. ASSUME NEW i \in 1 .. n - 1 PROVE back2[d[i]] = IF i = 1 THEN NULL ELSE d[i - 1]
  <2>1. d[i] \in Segment /\ d[i] # s /\ d[i] = c[at(i)] /\ at(i) \in 1 .. n
    BY <1>3, <1>4, <1>9
  <2>2. back2[d[i]] = IF d[i] = fwd[s] THEN back[s] ELSE back[d[i]]
    BY <2>1 DEF Unlinked
  <2>3. CASE i = k
    <3>1. at(i) = k + 1 /\ c[at(i)] = fwd[s]
      BY <1>5, <2>3
    <3>2. back2[d[i]] = IF k = 1 THEN NULL ELSE c[k - 1]
      BY <1>6, <2>1, <2>2, <3>1
    <3>3. i # 1 => d[i - 1] = c[k - 1]
      BY <2>3
    <3> QED BY <2>3, <3>2, <3>3
  <2>4. CASE i # k
    <3>1. at(i) # k + 1
      BY <2>4
    <3>2. d[i] # fwd[s]
      <4>1. CASE k = n
        BY <1>4, <1>5, <2>1, <4>1
      <4>2. CASE k # n
        <5>1. k + 1 \in 1 .. n /\ fwd[s] = c[k + 1]
          BY <1>5, <4>2
        <5> QED BY <1>4, <2>1, <3>1, <5>1
      <4> QED BY <4>1, <4>2
    <3>3. back2[d[i]] = IF at(i) = 1 THEN NULL ELSE c[at(i) - 1]
      BY <1>8, <2>1, <2>2, <3>2
    <3>4. (at(i) = 1 <=> i = 1) /\ (i # 1 => i - 1 \in 1 .. n - 1 /\ at(i - 1) = at(i) - 1)
      BY <2>4
    <3> QED BY <1>9, <3>3, <3>4
  <2> QED BY <2>3, <2>4
<1> HIDE DEF d, head2, back2, fwd2
<1>18. IsChain(d, n - 1, head2, back2, fwd2, NULL, nodes \ {s})
  BY <1>10, <1>12, <1>14, <1>15, <1>16, <1>17 DEF IsChain
<1>19. Chain(head2, back2, fwd2, NULL, nodes \ {s})
  BY <1>4, <1>18 DEF Chain
<1> QED BY <1>19 DEF head2, back2, fwd2

\* The equation of Hop, ...
HopFrom(h, n) == IF n = 0 THEN allocs ELSE IF h[n - 1] = NULL THEN NULL ELSE next[h[n - 1]]

\* ... and the function that has it, ...
IsHop(h) == h = [n \in 0 .. Cardinality(Segment) |-> HopFrom(h, n)]

\* ... which Hop is.
LEMMA HopIs == Hop = CHOOSE h : IsHop(h)
BY Zenon DEF Hop, IsHop, HopFrom

\* A hop is a step along the sequence, and there are enough of them.
LEMMA ChainHops ==
  ASSUME NEW before, NEW nodes, NEW n \in Nat, NEW c,
         IsChain(c, n, allocs, prev, next, before, nodes)
  PROVE  /\ n <= Cardinality(Segment) /\ Cardinality(Segment) \in Nat
         /\ DOMAIN Hop = 0 .. Cardinality(Segment)
         /\ \A i \in 0 .. Cardinality(Segment) : Hop[i] = IF i < n THEN c[i + 1] ELSE NULL
<1> DEFINE N == Cardinality(Segment)
<1>1. n <= N /\ N \in Nat
  <2>1. c \in Injection(1 .. n, Segment)
    BY DEF IsChain, Injection, IsInjective
  <2>2. Cardinality(1 .. n) = n
    BY FS_Interval
  <2> QED BY <2>1, <2>2, FS_Injection, FS_CardinalityType, SegmentAssumption
<1> HIDE DEF N
<1> DEFINE h == [i \in 0 .. N |-> IF i < n THEN c[i + 1] ELSE NULL]
<1>2. \A i \in 1 .. n : c[i] # NULL
  BY SegmentAssumption DEF IsChain
<1>3. ASSUME NEW i \in 0 .. N PROVE h[i] = HopFrom(h, i)
  <2>1. CASE i = 0
    BY <2>1 DEF HopFrom, IsChain
  <2>2. CASE i # 0
    <3>1. h[i - 1] = IF i - 1 < n THEN c[i] ELSE NULL
      BY <2>2, <1>1
    <3>2. i - 1 < n => i \in 1 .. n
      BY <2>2
    <3>3. HopFrom(h, i) = IF h[i - 1] = NULL THEN NULL ELSE next[h[i - 1]]
      BY <2>2 DEF HopFrom
    <3>4. i \in 1 .. n => next[c[i]] = IF i = n THEN NULL ELSE c[i + 1]
      BY DEF IsChain
    <3> QED BY <1>2, <3>1, <3>2, <3>3, <3>4
  <2> QED BY <2>1, <2>2
<1>4. h = [i \in 0 .. N |-> h[i]]
  OBVIOUS
<1> HIDE DEF h
<1>5. IsHop(h)
  BY <1>3, <1>4 DEF IsHop, N
<1>6. IsHop(Hop)
  BY <1>5, HopIs
<1>7. DOMAIN Hop = 0 .. N /\ \A i \in 0 .. N : Hop[i] = HopFrom(Hop, i)
  BY <1>6 DEF IsHop, N
<1> DEFINE T == {i \in 0 .. N : Hop[i] # h[i]}
<1>8. T = {}
  <2> SUFFICES ASSUME T # {} PROVE FALSE
    OBVIOUS
  <2>1. PICK i \in T : \A j \in T : i <= j
    <3>1. T \in SUBSET Nat
      BY <1>1
    <3> HIDE DEF T
    <3> QED BY <3>1, LeastNat
  <2>2. Hop[i] = HopFrom(Hop, i) /\ h[i] = HopFrom(h, i)
    BY <1>3, <1>7
  <2>3. CASE i = 0
    BY <2>2, <2>3 DEF HopFrom
  <2>4. CASE i # 0
    <3>1. i - 1 \in 0 .. N /\ ~ i <= i - 1
      BY <1>1, <2>4
    <3>2. Hop[i - 1] = h[i - 1]
      BY <2>1, <3>1
    <3> QED BY <2>2, <2>4, <3>2 DEF HopFrom
  <2> QED BY <2>3, <2>4
<1>9. \A i \in 0 .. N : Hop[i] = IF i < n THEN c[i + 1] ELSE NULL
  BY <1>8 DEF h
<1> QED BY <1>1, <1>7, <1>9 DEF N

\* What is listed is the chain's nodes, ...
LEMMA ChainListed ==
  ASSUME NEW before, NEW nodes, Chain(allocs, prev, next, before, nodes)
  PROVE  Listed = nodes /\ Hop[Cardinality(Segment)] = NULL
<1>1. PICK n \in Nat : \E c : IsChain(c, n, allocs, prev, next, before, nodes)
  BY DEF Chain
<1>2. PICK c : IsChain(c, n, allocs, prev, next, before, nodes)
  BY <1>1
<1> DEFINE N == Cardinality(Segment)
<1>3. /\ n <= N /\ N \in Nat /\ DOMAIN Hop = 0 .. N
      /\ \A i \in 0 .. N : Hop[i] = IF i < n THEN c[i + 1] ELSE NULL
  BY <1>2, ChainHops
<1>4. nodes = {c[i] : i \in 1 .. n} /\ \A i \in 1 .. n : c[i] # NULL
  BY <1>2, SegmentAssumption DEF IsChain
<1> HIDE DEF N
<1>5. Listed \subseteq nodes
  <2> SUFFICES ASSUME NEW i \in 0 .. N, Hop[i] # NULL PROVE Hop[i] \in nodes
    BY <1>3 DEF Listed
  <2> QED BY <1>3, <1>4
<1>6. nodes \subseteq Listed
  <2> SUFFICES ASSUME NEW i \in 1 .. n PROVE c[i] \in Listed
    BY <1>4
  <2>1. i - 1 \in 0 .. N /\ Hop[i - 1] = c[i]
    BY <1>3
  <2> QED BY <1>3, <1>4, <2>1 DEF Listed
<1>7. Hop[N] = NULL
  BY <1>3
<1> QED BY <1>5, <1>6, <1>7 DEF N

\* ... and a chain from the head is a list.
LEMMA ChainIsList ==
  ASSUME NEW nodes, Chain(allocs, prev, next, NULL, nodes)
  PROVE  IsList(nodes)
<1>1. PICK n \in Nat : \E c : IsChain(c, n, allocs, prev, next, NULL, nodes)
  BY DEF Chain
<1>2. PICK c : IsChain(c, n, allocs, prev, next, NULL, nodes)
  BY <1>1
<1>3. allocs # NULL => prev[allocs] = NULL
  <2> SUFFICES ASSUME allocs # NULL PROVE prev[allocs] = NULL
    OBVIOUS
  <2>1. 1 \in 1 .. n /\ allocs = c[1]
    BY <1>2 DEF IsChain
  <2> QED BY <1>2, <2>1 DEF IsChain
<1>4. ASSUME NEW s \in nodes, next[s] # NULL PROVE prev[next[s]] = s
  <2>1. PICK i \in 1 .. n : c[i] = s
    BY <1>2, <1>4 DEF IsChain
  <2>2. next[s] = c[i + 1] /\ i + 1 \in 1 .. n /\ i + 1 # 1 /\ (i + 1) - 1 = i
    BY <1>2, <1>4, <2>1 DEF IsChain
  <2> QED BY <1>2, <2>1, <2>2 DEF IsChain
<1> QED BY <1>3, <1>4, ChainListed DEF IsList

\* The operations of SegmentList keep the type and the chain: no node, ...
LEMMA EmptyLinks ==
  ASSUME EmptyList
  PROVE  ListTypeOK
BY DEF EmptyList, ListTypeOK, Link

LEMMA EmptyListed ==
  ASSUME EmptyList
  PROVE  Chain(allocs, prev, next, NULL, {})
BY EmptyLinks, EmptyChain DEF EmptyList, ListTypeOK, Links

\* ... the insertion of a node, ...
LEMMA LinkType ==
  ASSUME ListTypeOK, NEW s \in Segment, SetNext(s), SetPrev(s), SetHead(s)
  PROVE  ListTypeOK'
BY SegmentAssumption DEF ListTypeOK, Link, SetNext, SetPrev, SetHead

LEMMA LinkListed ==
  ASSUME ListTypeOK, NEW s \in Segment, NEW nodes, s \notin nodes,
         Chain(allocs, prev, next, NULL, nodes), SetNext(s), SetPrev(s), SetHead(s)
  PROVE  Chain(allocs', prev', next', NULL, nodes \cup {s})
<1>1. next' \in Links /\ next'[s] = allocs /\ prev \in Links /\ next \in Links
  BY DEF ListTypeOK, SetNext, Links
<1>2. Chain(allocs, prev, next', NULL, nodes)
  BY <1>1, ChainLinkNext DEF SetNext
<1>3. prev' = LinkedBack(prev, s, allocs)
  BY <1>1 DEF SetPrev, LinkedBack
<1>4. Chain(allocs, prev', next', s, nodes) /\ prev'[s] = NULL
  BY <1>1, <1>2, <1>3, ChainLinkPrev
<1>5. Chain(s, prev', next', NULL, nodes \cup {s})
  BY <1>1, <1>4, ChainCons
<1> QED BY <1>5 DEF SetHead

\* ... its removal, ...
LEMMA UnlinkedType ==
  ASSUME NEW links \in [Segment -> Link], NEW s, NEW from, NEW to \in Link
  PROVE  Unlinked(links, s, from, to) \in [Segment -> Link]
BY DEF Unlinked, Link

LEMMA UnlinkType ==
  ASSUME ListTypeOK, NEW s \in Segment, Unlink(s)
  PROVE  ListTypeOK'
<1>1. prev[s] \in Link /\ next[s] \in Link
  BY DEF ListTypeOK
<1>2. next' \in [Segment -> Link] /\ prev' \in [Segment -> Link]
  BY <1>1, UnlinkedType DEF ListTypeOK, Unlink
<1> QED BY <1>1, <1>2 DEF ListTypeOK, Unlink

LEMMA UnlinkListed ==
  ASSUME ListTypeOK, NEW nodes, NEW s \in nodes,
         Chain(allocs, prev, next, NULL, nodes), Unlink(s)
  PROVE  Chain(allocs', prev', next', NULL, nodes \ {s})
BY ChainRemove DEF ListTypeOK, Links, Unlink

\* ... and tm_destroy taking the head.
LEMMA PopType ==
  ASSUME ListTypeOK, allocs # NULL, PopHead
  PROVE  ListTypeOK'
<1>1. allocs \in Segment /\ next[allocs] \in Link /\ NULL \in Link
  BY DEF ListTypeOK, Link
<1>2. next' \in [Segment -> Link] /\ prev' \in [Segment -> Link]
  BY <1>1, UnlinkedType DEF ListTypeOK, PopHead
<1> QED BY <1>1, <1>2 DEF ListTypeOK, PopHead

LEMMA PopListed ==
  ASSUME ListTypeOK, NEW before, NEW nodes, allocs # NULL,
         Chain(allocs, prev, next, before, nodes), PopHead
  PROVE  Chain(allocs', prev', next', allocs, nodes \ {allocs})
<1>1. Chain(allocs', prev, next, allocs, nodes \ {allocs})
  BY ChainTail DEF PopHead
<1>2. \A s \in nodes \ {allocs} : s \in Segment /\ s # NULL
  BY ChainNodes, SegmentAssumption
<1>3. \A s \in nodes \ {allocs} : prev'[s] = prev[s] /\ next'[s] = next[s]
  BY <1>2 DEF PopHead, Unlinked
<1> QED BY <1>1, <1>3, ChainElsewhere
=============================================================================
