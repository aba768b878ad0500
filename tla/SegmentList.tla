---------------------------- MODULE SegmentList -----------------------------
(***************************************************************************)
(* The doubly linked list, anchored in the region, of the segments that    *)
(* tm_alloc has allocated.  Both transactional memories keep one: the      *)
(* reference under its reader-writer lock, TL2 under a mutex of its own.   *)
(***************************************************************************)
EXTENDS Naturals, FiniteSets

CONSTANTS
    Segment,     \* the nodes the allocator can give out
    NULL

ASSUME SegmentAssumption == IsFiniteSet(Segment) /\ NULL \notin Segment

VARIABLES
    allocs,      \* the head
    prev, next   \* the links of each node; NULL while it is not allocated

listVars == <<allocs, prev, next>>

Link == Segment \cup {NULL}

EmptyList ==
    /\ allocs = NULL
    /\ prev = [s \in Segment |-> NULL]
    /\ next = [s \in Segment |-> NULL]

\* The three stores that insert node s before the head, in their order.
SetNext(s) == next' = [next EXCEPT ![s] = allocs]
SetPrev(s) ==
    prev' = [n \in Segment |->
                IF n = s THEN NULL ELSE IF n = next'[s] THEN s ELSE prev[n]]
SetHead(s) == allocs' = s

\* Taking node s out, which is then given back to the allocator.
Unlinked(links, s, from, to) ==
    [n \in Segment |-> IF n = s THEN NULL ELSE IF n = from THEN to ELSE links[n]]

\* A bug: the next node keeps pointing at it.
Unlink_OneWay(s) ==
    /\ allocs' = IF prev[s] = NULL THEN next[s] ELSE allocs
    /\ next' = Unlinked(next, s, prev[s], next[s])
    /\ prev' = Unlinked(prev, s, NULL, NULL)

Unlink(s) ==
    /\ allocs' = IF prev[s] = NULL THEN next[s] ELSE allocs
    /\ next' = Unlinked(next, s, prev[s], next[s])
    /\ prev' = Unlinked(prev, s, next[s], prev[s])

\* tm_destroy: the head is freed, and its next node becomes the head.
PopHead ==
    /\ allocs' = next[allocs]
    /\ next' = Unlinked(next, allocs, NULL, NULL)
    /\ prev' = Unlinked(prev, allocs, NULL, NULL)
-----------------------------------------------------------------------------
\* The nodes from the head on, one hop after the other.
Hop[n \in 0 .. Cardinality(Segment)] ==
    IF n = 0 THEN allocs ELSE IF Hop[n - 1] = NULL THEN NULL ELSE next[Hop[n - 1]]

Listed == {Hop[n] : n \in DOMAIN Hop} \ {NULL}

ListTypeOK == allocs \in Link /\ prev \in [Segment -> Link] /\ next \in [Segment -> Link]

\* The list holds exactly the given nodes, ends, and reads the same backwards.
IsList(nodes) ==
    /\ Listed = nodes
    /\ Hop[Cardinality(Segment)] = NULL
    /\ allocs # NULL => prev[allocs] = NULL
    /\ \A s \in Listed : next[s] # NULL => prev[next[s]] = s
=============================================================================
