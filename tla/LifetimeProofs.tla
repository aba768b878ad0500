--------------------------- MODULE LifetimeProofs ---------------------------
(***************************************************************************)
(* bounded_run hands the mutex over between the master and its runner,     *)
(* transactions never hold a pointer to memory that is gone, and the list  *)
(* of segments loses none of them, for any set of threads and any finite   *)
(* set of segments, and whatever else the program does.                    *)
(***************************************************************************)
EXTENDS Lifetime, SegmentListProofs

\* The mutex is the master's exactly while it starts or joins, and what wakes
\* it other than the deadline or nothing at all is the end of the runner.
BoundedInv ==
    /\ mutex = "master" <=> master \in {"starting", "joining"}
    /\ runner = "none" => master = "out"
    /\ master = "out" => runner = "none"
    /\ runner = "ended" => master \notin {"starting", "waiting"}
    /\ master = "woken" /\ ~late /\ ~spurious => runner = "ended"
    /\ master = "joining" /\ ~spurious => runner = "ended"

Pointers == live \cup {NULL}

\* Until the region is destroyed, whatever a thread or the shared memory
\* points at is allocated.
PointerInv ==
    /\ node \in [Thread -> Link] /\ held \in [Thread -> Link] /\ shared \in Link
    /\ phase \in {"create", "work"} =>
           /\ shared \in Pointers
           /\ \A t \in Thread : node[t] \in Pointers /\ held[t] \in Pointers

\* The program starts with nothing running and nothing allocated.
LEMMA InitLifetime == Init => BoundedInv /\ PointerInv
BY DEF Init, BoundedInit, BoundedInv, PointerInv, Pointers, Link
-----------------------------------------------------------------------------
(* bounded_run.                                                            *)
BoundedStep ==
    \/ call \/ wait_for \/ deadline \/ wakeup \/ waited \/ join
    \/ func_returns \/ notify

\* Every step of the master and of its runner keeps the invariant; ...
LEMMA BoundedKept ==
  ASSUME BoundedInv, BoundedStep
  PROVE  BoundedInv'
<1> USE DEF BoundedInv
<1>1. CASE call
  BY <1>1 DEF call, AtStart
<1>2. CASE wait_for
  BY <1>2 DEF wait_for
<1>3. CASE deadline
  BY <1>3 DEF deadline
<1>4. CASE wakeup
  BY <1>4 DEF wakeup
<1>5. CASE waited
  BY <1>5 DEF waited, TimedOut
<1>6. CASE join
  BY <1>6 DEF join
<1>7. CASE func_returns
  BY <1>7 DEF func_returns
<1>8. CASE notify
  BY <1>8 DEF notify
<1> QED
  BY <1>1, <1>2, <1>3, <1>4, <1>5, <1>6, <1>7, <1>8 DEF BoundedStep

\* Nothing else in the program touches its variables.
LEMMA BoundedAlone ==
  ASSUME [Next]_vars
  PROVE  BoundedStep \/ UNCHANGED boundedVars
<1>1. CASE main
  BY <1>1 DEF main, construct, constructed, destruct, destructed, measured,
              measure_throws, overrun, BoundedStep
<1>2. CASE tm_create \/ tm_destroy \/ bounded_run
  BY <1>2 DEF tm_create, tm_destroy, bounded_run, BoundedStep
<1>3. CASE \E t \in Thread : Transaction(t)
  BY <1>3 DEF Transaction, begin, look, tm_end, tm_free, tm_alloc, link_next,
              link_prev, link_head, Step
<1>4. CASE UNCHANGED vars
  BY <1>4 DEF vars
<1> QED
  BY <1>1, <1>2, <1>3, <1>4 DEF Next

\* ... it always holds.
LEMMA BoundedInvariant == Spec => []BoundedInv
<1>1. BoundedInv /\ UNCHANGED boundedVars => BoundedInv'
  BY DEF BoundedInv, boundedVars
<1> QED
  BY <1>1, InitLifetime, BoundedKept, BoundedAlone, PTL DEF Spec

(* No notification comes before the master waits for it, and the master    *)
(* joins, with the mutex in its hands, only a runner that is done with it, *)
(* except after a spurious wake-up.                                        *)
THEOREM BoundedRunHandsOver == Spec => []HandsOver
<1>1. BoundedInv => HandsOver
  BY DEF BoundedInv, HandsOver
<1> QED
  BY <1>1, BoundedInvariant, PTL
-----------------------------------------------------------------------------
\* tm_free frees nothing, so what was allocated stays.
LEMMA PointersKept ==
  ASSUME PointerInv, [Next]_vars
  PROVE  PointerInv'
<1> USE DEF PointerInv, Pointers, Link
<1>1. CASE main
  BY <1>1 DEF main, construct, constructed, destruct, destructed, measured,
              measure_throws, overrun, Main, regionVars, threadVars
<1>2. CASE tm_create \/ tm_destroy \/ bounded_run
  BY <1>2 DEF tm_create, tm_destroy, bounded_run, regionVars, threadVars
<1>3. ASSUME NEW t \in Thread, begin(t) \/ look(t)
      PROVE  PointerInv'
  BY <1>3 DEF begin, look, In, Step, regionVars
<1>4. ASSUME NEW t \in Thread, tm_alloc(t)
      PROVE  PointerInv'
  BY <1>4 DEF tm_alloc, In, Step
<1>5. ASSUME NEW t \in Thread, link_next(t) \/ link_prev(t) \/ link_head(t)
      PROVE  PointerInv'
  BY <1>5 DEF link_next, link_prev, link_head, In, Step
<1>6. ASSUME NEW t \in Thread, tm_free(t)
      PROVE  PointerInv'
  BY <1>6 DEF tm_free, Freed, In, Step, regionVars
<1>7. ASSUME NEW t \in Thread, tm_end(t)
      PROVE  PointerInv'
  BY <1>7 DEF tm_end, In, Step, regionVars
<1>8. CASE UNCHANGED vars
  BY <1>8 DEF vars, regionVars, threadVars
<1> QED
  BY <1>1, <1>2, <1>3, <1>4, <1>5, <1>6, <1>7, <1>8 DEF Next, Transaction

(* While threads are at work the shared pointer, and every pointer that a  *)
(* transaction has read, is to memory that is still allocated, because     *)
(* tm_free frees nothing and what a failed transaction has allocated stays.*)
THEOREM PointersNeverDangle == Spec => []NoDanglingPointer
<1>1. PointerInv => NoDanglingPointer
  BY DEF PointerInv, Pointers, NoDanglingPointer
<1> QED
  BY <1>1, InitLifetime, PointersKept, PTL DEF Spec
-----------------------------------------------------------------------------
\* LifetimeTypeOK, in its parts.
BoundedTypes ==
    /\ master \in {"out", "starting", "waiting", "woken", "joining", "overrun"}
    /\ runner \in {"none", "func", "notify", "ended"} /\ mutex \in {"none", "master"}
    /\ late \in BOOLEAN /\ spurious \in BOOLEAN

RegionTypes ==
    /\ ListTypeOK
    /\ live \subseteq Segment
    /\ segment_lock \in Thread \cup {NULL}
    /\ pc \in [Thread -> {"idle", "open", "alloc", "prev", "head", "freed"}]

PhaseTypes ==
    /\ phase \in {"create", "work", "destroy", "unloaded"}
    /\ exit \in {"no", "returned", "failed", "quick", "terminated"}
    /\ phase # "work" => \A t \in Thread : pc[t] = "idle"

\* Each step keeps them: those of bounded_run, ...
LEMMA BoundedTypesKept ==
  ASSUME BoundedTypes, BoundedStep \/ UNCHANGED boundedVars
  PROVE  BoundedTypes'
BY DEF BoundedTypes, BoundedStep, boundedVars, call, AtStart, wait_for, deadline, wakeup,
       waited, TimedOut, join, func_returns, notify

\* ... those of transactions and of tm_destroy, ...
LEMMA RegionTypesKept ==
  ASSUME PointerInv, RegionTypes, [Next]_vars
  PROVE  RegionTypes'
<1> USE DEF RegionTypes
<1>0. ASSUME UNCHANGED regionVars, pc' = pc \/ \E t \in Thread : \E l \in {"idle", "open", "freed"} : Goto(t, l)
      PROVE  RegionTypes'
  BY <1>0 DEF regionVars, listVars, ListTypeOK, Goto
<1>1. CASE main
  BY <1>0, <1>1 DEF main, construct, constructed, destruct, destructed, measured,
              measure_throws, overrun, Main, threadVars
<1>2. CASE tm_create \/ bounded_run
  BY <1>0, <1>2 DEF tm_create, bounded_run, threadVars
<1>3. CASE tm_destroy
  <2>1. CASE allocs = NULL
    BY <1>3, <2>1 DEF tm_destroy, listVars, threadVars, ListTypeOK
  <2>2. CASE allocs # NULL
    <3>1. ListTypeOK'
      BY <1>3, <2>2, PopType DEF tm_destroy
    <3> QED BY <1>3, <2>2, <3>1 DEF tm_destroy, threadVars
  <2> QED BY <2>1, <2>2
<1>4. ASSUME NEW t \in Thread, begin(t) \/ look(t) \/ tm_end(t) \/ tm_free(t)
      PROVE  RegionTypes'
  BY <1>0, <1>4 DEF begin, look, tm_end, tm_free, Freed
<1>5. ASSUME NEW t \in Thread, tm_alloc(t)
      PROVE  RegionTypes'
  BY <1>5 DEF tm_alloc, Goto, listVars, ListTypeOK
<1>6. ASSUME NEW t \in Thread, link_next(t)
      PROVE  RegionTypes'
  BY <1>6 DEF link_next, Goto, SetNext, ListTypeOK
<1>7. ASSUME NEW t \in Thread, link_prev(t)
      PROVE  RegionTypes'
  <2>1. node[t] \in Link /\ NULL \in Link
    BY DEF PointerInv, Link
  <2>2. prev' \in [Segment -> Link]
    BY <1>7, <2>1 DEF link_prev, SetPrev, ListTypeOK
  <2> QED BY <1>7, <2>2 DEF link_prev, Goto, ListTypeOK
<1>8. ASSUME NEW t \in Thread, link_head(t)
      PROVE  RegionTypes'
  BY <1>8 DEF link_head, Goto, SetHead, ListTypeOK, PointerInv
<1>9. CASE UNCHANGED vars
  BY <1>0, <1>9 DEF vars, threadVars
<1> QED
  BY <1>1, <1>2, <1>3, <1>4, <1>5, <1>6, <1>7, <1>8, <1>9 DEF Next, Transaction

\* ... and those of main.
LEMMA PhaseTypesKept ==
  ASSUME PhaseTypes, [Next]_vars
  PROVE  PhaseTypes'
<1> USE DEF PhaseTypes
<1>1. CASE main
  BY <1>1 DEF main, construct, constructed, destruct, destructed, measured, Joined,
              measure_throws, overrun, Main, threadVars
<1>2. CASE tm_create \/ tm_destroy \/ bounded_run
  BY <1>2 DEF tm_create, tm_destroy, bounded_run, threadVars
<1>3. ASSUME NEW t \in Thread, Transaction(t)
      PROVE  PhaseTypes'
  BY <1>3 DEF Transaction, begin, look, tm_end, tm_free, tm_alloc, link_next, link_prev,
              link_head, In, Step
<1>4. CASE UNCHANGED vars
  BY <1>4 DEF vars, threadVars
<1> QED
  BY <1>1, <1>2, <1>3, <1>4 DEF Next

TypeInv == BoundedTypes /\ RegionTypes /\ PhaseTypes

\* They hold at the start, ...
LEMMA InitTypes == Init => TypeInv
BY EmptyLinks DEF Init, BoundedInit, TypeInv, BoundedTypes, RegionTypes, PhaseTypes

\* ... and always.
LEMMA TypeInvariant == Spec => [](PointerInv /\ TypeInv)
<1>1. PointerInv /\ TypeInv /\ [Next]_vars => TypeInv'
  BY BoundedAlone, BoundedTypesKept, RegionTypesKept, PhaseTypesKept DEF TypeInv
<1> QED
  BY <1>1, InitLifetime, InitTypes, PointersKept, PTL DEF Spec

\* Every variable of the program keeps its type, and outside of the work no thread is in a
\* transaction: main destroys the region only when the workers have been joined.
THEOREM LifetimeTypeCorrect == Spec => []LifetimeTypeOK
<1>1. PointerInv /\ TypeInv => LifetimeTypeOK
  BY DEF PointerInv, TypeInv, BoundedTypes, RegionTypes, PhaseTypes, LifetimeTypeOK
<1> QED
  BY <1>1, TypeInvariant, PTL
-----------------------------------------------------------------------------
\* The list.  A thread that links holds the lock; its node is allocated and not yet
\* listed, and what it has stored so far is part of the chain to come.
Linking == {t \in Thread : pc[t] \in {"alloc", "prev", "head"}}

\* What is listed.
InList == live \ {node[t] : t \in Linking}

\* The prev pointer of the head: in "head" it is to the new node already.
HeadsPrev ==
    IF segment_lock # NULL /\ pc[segment_lock] = "head" THEN node[segment_lock] ELSE NULL

\* The lock is held by the thread that is between the stores.
LockInv == \A t \in Thread : segment_lock = t <=> pc[t] \in {"prev", "head"}

\* What a thread has stored, in a node of its own.
NodeInv ==
    /\ \A t \in Linking :
          /\ node[t] \in live
          /\ pc[t] # "alloc" => next[node[t]] = allocs
          /\ pc[t] = "head"  => prev[node[t]] = NULL
    /\ \A t, u \in Linking : node[t] = node[u] => t = u

\* The segments are a chain; in tm_destroy its head can point back to a node that is gone.
ChainInv ==
    IF phase = "work" THEN Chain(allocs, prev, next, HeadsPrev, InList)
    ELSE \E before : Chain(allocs, prev, next, before, live)

\* Nothing is allocated before the work and after tm_destroy.
PhaseInv ==
    /\ phase = "work" => runner = "none"
    /\ phase \in {"create", "unloaded"} => live = {}
    /\ phase = "destroy" /\ runner \in {"notify", "ended"} => live = {}

RegionInv == LockInv /\ NodeInv /\ ChainInv /\ PhaseInv

\* What has been proved above.
Assumed == BoundedInv /\ PointerInv /\ TypeInv

\* The list is empty at the start.
LEMMA InitRegion == Init => RegionInv
<1> SUFFICES ASSUME Init PROVE RegionInv
  OBVIOUS
<1>1. Linking = {}
  BY DEF Init, Linking
<1>2. Chain(allocs, prev, next, NULL, {})
  BY EmptyListed DEF Init
<1>3. LockInv /\ NodeInv
  BY <1>1, LifetimeAssumption DEF Init, LockInv, NodeInv
<1> QED BY <1>2, <1>3 DEF Init, BoundedInit, RegionInv, ChainInv, PhaseInv

\* A step that only looks, or moves on outside of tm_alloc.
LEMMA RegionAside ==
  ASSUME Assumed, RegionInv, UNCHANGED <<regionVars, phase>>, runner' = runner,
         NEW t \in Thread, NEW from \in {"idle", "open", "freed"},
         NEW to \in {"idle", "open", "freed"},
         pc[t] = from, Goto(t, to), \A u \in Thread \ {t} : node'[u] = node[u]
  PROVE  RegionInv'
<1> USE DEF Assumed, TypeInv, RegionTypes, RegionInv
<1>1. \A u \in Thread : pc'[u] = pc[u] \/ (u = t /\ pc'[u] = to)
  BY DEF Goto
<1>2. Linking' = Linking /\ t \notin Linking
  BY <1>1 DEF Linking
<1>3. \A u \in Linking : node'[u] = node[u] /\ pc'[u] = pc[u]
  BY <1>1, <1>2 DEF Linking
<1>4. InList' = InList
  BY <1>2, <1>3 DEF InList, regionVars
<1>5. HeadsPrev' = HeadsPrev
  <2>1. segment_lock # NULL => segment_lock \in Linking
    BY DEF LockInv, Linking
  <2> QED BY <1>3, <2>1 DEF HeadsPrev, regionVars
<1>6. LockInv'
  BY <1>1 DEF LockInv, regionVars
<1>7. NodeInv'
  BY <1>2, <1>3 DEF NodeInv, regionVars, listVars
<1> QED BY <1>4, <1>5, <1>6, <1>7 DEF ChainInv, PhaseInv, regionVars, listVars

\* A node allocated and not linked is none of the list's.
LEMMA AllocKept ==
  ASSUME Assumed, RegionInv, NEW t \in Thread, tm_alloc(t)
  PROVE  RegionInv'
<1> USE DEF Assumed, TypeInv, RegionTypes, RegionInv
<1>1. PICK s \in Segment \ live : live' = live \cup {s} /\ node' = [node EXCEPT ![t] = s]
  BY DEF tm_alloc
<1>2. pc' = [pc EXCEPT ![t] = "alloc"] /\ pc[t] = "open" /\ phase = "work" /\ phase' = phase
  BY DEF tm_alloc, Goto, In, Step
<1>3. Linking' = Linking \cup {t} /\ t \notin Linking
  BY <1>2 DEF Linking
<1>4. node'[t] = s /\ \A u \in Linking : u # t /\ node'[u] = node[u] /\ pc'[u] = pc[u]
  BY <1>1, <1>2, <1>3 DEF PointerInv
<1>5. \A u \in Linking : node[u] \in live
  BY DEF NodeInv
<1>6. {node'[u] : u \in Linking'} = {node[u] : u \in Linking} \cup {s}
  BY <1>3, <1>4
<1>7. InList' = InList
  BY <1>1, <1>5, <1>6 DEF InList
<1>8. UNCHANGED <<segment_lock, allocs, prev, next>>
  BY DEF tm_alloc, listVars
<1>9. HeadsPrev' = HeadsPrev
  <2>1. segment_lock # NULL => segment_lock \in Linking
    BY DEF LockInv, Linking
  <2> QED BY <1>4, <1>8, <2>1 DEF HeadsPrev
<1>10. LockInv'
  BY <1>2, <1>8 DEF LockInv
<1>11. NodeInv'
  BY <1>1, <1>2, <1>3, <1>4, <1>5, <1>8 DEF NodeInv
<1> QED BY <1>2, <1>7, <1>8, <1>9, <1>10, <1>11 DEF ChainInv, PhaseInv, tm_alloc, Step, boundedVars

\* What the three steps of linking have in common.
LEMMA LinkingStep ==
  ASSUME Assumed, RegionInv, NEW t \in Thread,
         link_next(t) \/ link_prev(t) \/ link_head(t)
  PROVE  /\ phase = "work" /\ phase' = phase /\ UNCHANGED <<live, node, boundedVars>>
         /\ t \in Linking /\ node[t] \in live /\ node[t] \in Segment /\ node[t] \notin InList
         /\ Chain(allocs, prev, next, HeadsPrev, InList)
         /\ \A u \in Thread \ {t} : pc'[u] = pc[u] /\ pc[u] \notin {"prev", "head"}
         /\ \A u \in Linking \ {t} : pc[u] = "alloc" /\ node[u] # node[t]
         /\ segment_lock' # NULL => segment_lock' = t
<1> USE DEF Assumed, TypeInv, RegionTypes, RegionInv
<1>1. phase = "work" /\ phase' = phase /\ UNCHANGED <<live, node, boundedVars>>
  BY DEF link_next, link_prev, link_head, In, Step
<1>2. t \in Linking
  BY DEF link_next, link_prev, link_head, In, Linking
<1>3. node[t] \in live /\ node[t] \in Segment /\ node[t] \notin InList
  BY <1>2 DEF NodeInv, InList
<1>4. Chain(allocs, prev, next, HeadsPrev, InList)
  BY <1>1 DEF ChainInv
<1>5. ASSUME NEW u \in Thread \ {t} PROVE pc'[u] = pc[u] /\ pc[u] \notin {"prev", "head"}
  BY LifetimeAssumption DEF link_next, link_prev, link_head, Goto, LockFree, In, LockInv
<1>6. \A u \in Linking \ {t} : pc[u] = "alloc" /\ node[u] # node[t]
  BY <1>2, <1>5 DEF Linking, NodeInv
<1>7. segment_lock' # NULL => segment_lock' = t
  BY DEF link_next, link_prev, link_head, In, LockInv
<1> QED BY <1>1, <1>2, <1>3, <1>4, <1>5, <1>6, <1>7

\* The three stores, in their order.
LEMMA LinkNextKept ==
  ASSUME Assumed, RegionInv, NEW t \in Thread, link_next(t)
  PROVE  RegionInv'
<1> USE DEF Assumed, TypeInv, RegionTypes, RegionInv
<1>1. /\ segment_lock = NULL /\ segment_lock' = t /\ pc' = [pc EXCEPT ![t] = "prev"]
      /\ next' = [next EXCEPT ![node[t]] = allocs] /\ UNCHANGED <<allocs, prev>>
  BY DEF link_next, LockFree, SetNext, Goto
<1>2. Linking' = Linking /\ InList' = InList
  <2>1. \A u \in Thread : u \in Linking' <=> u \in Linking
    BY <1>1, LinkingStep DEF Linking
  <2>2. Linking' = Linking
    BY <2>1 DEF Linking
  <2>3. node' = node /\ live' = live
    BY LinkingStep
  <2> QED BY ONLY <2>2, <2>3, Zenon DEF InList
<1>3. HeadsPrev = NULL /\ HeadsPrev' = NULL
  BY <1>1 DEF HeadsPrev
<1>4. Chain(allocs', prev', next', HeadsPrev', InList')
  BY <1>1, <1>2, <1>3, LinkingStep, ChainLinkNext DEF ListTypeOK, Links
<1>5. LockInv'
  BY <1>1, LinkingStep DEF LockInv
<1>6. NodeInv'
  BY <1>1, <1>2, LinkingStep DEF NodeInv, ListTypeOK
<1> QED BY <1>4, <1>5, <1>6, LinkingStep DEF ChainInv, PhaseInv, boundedVars

LEMMA LinkPrevKept ==
  ASSUME Assumed, RegionInv, NEW t \in Thread, link_prev(t)
  PROVE  RegionInv'
<1> USE DEF Assumed, TypeInv, RegionTypes, RegionInv
<1>1. /\ pc[t] = "prev" /\ pc' = [pc EXCEPT ![t] = "head"]
      /\ UNCHANGED <<next, allocs, segment_lock>> /\ SetPrev(node[t])
  BY DEF link_prev, Goto, In
<1>2. Linking' = Linking /\ InList' = InList
  <2>1. \A u \in Thread : u \in Linking' <=> u \in Linking
    BY <1>1, LinkingStep DEF Linking
  <2>2. Linking' = Linking
    BY <2>1 DEF Linking
  <2>3. node' = node /\ live' = live
    BY LinkingStep
  <2> QED BY ONLY <2>2, <2>3, Zenon DEF InList
<1>3. segment_lock = t
  BY <1>1 DEF LockInv
<1>4. HeadsPrev' = node[t]
  BY <1>1, <1>3, LinkingStep, LifetimeAssumption DEF HeadsPrev
<1>5. next[node[t]] = allocs
  BY <1>1, LinkingStep DEF NodeInv
<1>6. prev' = LinkedBack(prev, node[t], allocs)
  <2>1. next'[node[t]] = allocs
    BY <1>1, <1>5
  <2>2. SetPrev(node[t])
    BY <1>1
  <2> QED BY ONLY <1>1, <2>1, <2>2, Zenon DEF SetPrev, LinkedBack
<1>7. Chain(allocs, prev', next, node[t], InList) /\ prev'[node[t]] = NULL
  <2>1. node[t] \in Segment /\ node[t] \notin InList /\ prev \in Links
    BY LinkingStep DEF ListTypeOK, Links
  <2>2. Chain(allocs, prev, next, HeadsPrev, InList)
    BY LinkingStep
  <2>3. /\ Chain(allocs, LinkedBack(prev, node[t], allocs), next, node[t], InList)
        /\ LinkedBack(prev, node[t], allocs)[node[t]] = NULL
    BY ONLY <2>1, <2>2, ChainLinkPrev
  <2> QED BY ONLY <1>6, <2>3, Zenon
<1>8. LockInv'
  BY <1>1, <1>3, LinkingStep DEF LockInv
<1>9. NodeInv'
  BY <1>1, <1>2, <1>5, <1>7, LinkingStep DEF NodeInv
<1> QED BY <1>1, <1>2, <1>4, <1>7, <1>8, <1>9, LinkingStep DEF ChainInv, PhaseInv, boundedVars

LEMMA LinkHeadKept ==
  ASSUME Assumed, RegionInv, NEW t \in Thread, link_head(t)
  PROVE  RegionInv'
<1> USE DEF Assumed, TypeInv, RegionTypes, RegionInv
<1>1. /\ pc[t] = "head" /\ pc' = [pc EXCEPT ![t] = "open"]
      /\ UNCHANGED <<prev, next>> /\ allocs' = node[t] /\ segment_lock' = NULL
  BY DEF link_head, SetHead, Goto, In
<1>2. segment_lock = t
  BY <1>1 DEF LockInv
<1>3. HeadsPrev = node[t] /\ HeadsPrev' = NULL
  BY <1>1, <1>2, LifetimeAssumption DEF HeadsPrev
<1>4. Linking' = Linking \ {t}
  BY <1>1, LinkingStep DEF Linking
<1>5. InList' = InList \cup {node[t]}
  <2>1. {node[u] : u \in Linking} = {node[u] : u \in Linking \ {t}} \cup {node[t]}
    BY LinkingStep
  <2>2. node[t] \notin {node[u] : u \in Linking \ {t}}
    BY LinkingStep
  <2>3. node' = node /\ live' = live /\ node[t] \in live
    BY LinkingStep
  <2> QED BY <1>4, <2>1, <2>2, <2>3 DEF InList
<1>6. next[node[t]] = allocs /\ prev[node[t]] = NULL
  BY <1>1, LinkingStep DEF NodeInv
<1>7. Chain(node[t], prev, next, NULL, InList \cup {node[t]})
  BY <1>3, <1>6, LinkingStep, ChainCons
<1>8. LockInv'
  BY <1>1, LinkingStep, LifetimeAssumption DEF LockInv
<1>9. NodeInv'
  BY <1>1, <1>4, LinkingStep DEF NodeInv
<1> QED BY <1>1, <1>3, <1>5, <1>7, <1>8, <1>9, LinkingStep DEF ChainInv, PhaseInv, boundedVars

\* tm_destroy goes by the next pointers alone.
LEMMA DestroyKept ==
  ASSUME Assumed, RegionInv, tm_destroy
  PROVE  RegionInv'
<1> USE DEF Assumed, TypeInv, RegionTypes, RegionInv
<1>1. /\ phase = "destroy" /\ phase' = phase /\ runner = "func"
      /\ UNCHANGED <<pc, node, segment_lock>>
  BY DEF tm_destroy, threadVars
<1>2. Linking = {} /\ Linking' = {}
  BY <1>1 DEF Linking, PhaseTypes
<1>3. LockInv' /\ NodeInv'
  BY <1>1, <1>2 DEF LockInv, NodeInv
<1>4. PICK before : Chain(allocs, prev, next, before, live)
  BY <1>1 DEF ChainInv
<1>5. CASE allocs = NULL
  <2>1. live = {}
    BY <1>4, <1>5, ChainNodes
  <2>2. UNCHANGED <<live, listVars>>
    BY <1>5 DEF tm_destroy
  <2> QED BY <1>1, <1>3, <1>4, <2>1, <2>2 DEF ChainInv, PhaseInv, listVars
<1>6. CASE allocs # NULL
  <2>1. PopHead /\ live' = live \ {allocs} /\ runner' = runner
    BY <1>6 DEF tm_destroy, boundedVars
  <2>2. Chain(allocs', prev', next', allocs, live')
    BY <1>4, <1>6, <2>1, PopListed
  <2> QED BY <1>1, <1>3, <2>1, <2>2 DEF ChainInv, PhaseInv
<1> QED BY <1>5, <1>6

\* main changes nothing in the region, and starts destroying it when nobody links.
LEMMA MainKept ==
  ASSUME Assumed, RegionInv, main
  PROVE  RegionInv'
<1> USE DEF Assumed, TypeInv, RegionTypes, RegionInv
<1>1. UNCHANGED <<live, segment_lock, allocs, prev, next, pc, node>>
  BY DEF main, construct, constructed, destruct, destructed, measured, measure_throws,
         overrun, Main, regionVars, listVars, threadVars
<1>2. Linking' = Linking /\ InList' = InList /\ HeadsPrev' = HeadsPrev
  BY <1>1 DEF Linking, InList, HeadsPrev
<1>3. LockInv' /\ NodeInv'
  BY <1>1, <1>2 DEF LockInv, NodeInv
<1>4. phase' = phase => ChainInv'
  BY <1>1, <1>2 DEF ChainInv
<1>5. ASSUME \A t \in Thread : pc[t] = "idle"
      PROVE  InList = live /\ HeadsPrev = NULL
  <2>1. Linking = {} /\ segment_lock = NULL
    BY <1>5 DEF Linking, LockInv
  <2> QED BY <2>1 DEF InList, HeadsPrev
<1>6. CASE construct \/ destruct \/ measure_throws \/ overrun
  <2>1. phase' = phase \/ (phase = "create" /\ phase' = "unloaded")
    BY <1>6 DEF construct, destruct, measure_throws, overrun, Main
  <2>2. ChainInv'
    BY <1>1, <1>4, <2>1 DEF ChainInv
  <2>3. PhaseInv'
    BY <1>1, <1>6 DEF construct, destruct, measure_throws, overrun, Main, PhaseInv, call,
                      boundedVars, BoundedInv
  <2> QED BY <1>3, <2>2, <2>3
<1>7. CASE constructed
  <2>1. phase = "create" /\ phase' = "work" /\ runner' = "none" /\ live = {}
    BY <1>7 DEF constructed, Main, join, PhaseInv
  <2>2. InList = {} /\ HeadsPrev = NULL
    BY <1>5, <2>1 DEF PhaseTypes
  <2>3. allocs = NULL
    BY <2>1, ChainNodes DEF ChainInv
  <2>4. Chain(allocs, prev, next, NULL, {})
    BY <2>3, EmptyChain DEF ListTypeOK, Links
  <2> QED BY <1>1, <1>2, <1>3, <2>1, <2>2, <2>4 DEF ChainInv, PhaseInv
<1>8. CASE measured
  <2>1. phase = "work" /\ phase' = "destroy" /\ runner' = runner
    BY <1>8 DEF measured, Main, boundedVars
  <2>2. InList = live
    BY <1>5, <1>8 DEF measured, Joined
  <2>3. ChainInv'
    BY <1>1, <2>1, <2>2 DEF ChainInv
  <2> QED BY <1>3, <2>1, <2>3 DEF PhaseInv
<1>9. CASE destructed
  <2>1. phase = "destroy" /\ phase' = "unloaded" /\ runner = "ended"
    BY <1>9 DEF destructed, Main, join
  <2> QED BY <1>1, <1>3, <2>1 DEF ChainInv, PhaseInv
<1> QED BY <1>6, <1>7, <1>8, <1>9 DEF main

\* Every step.
LEMMA RegionKept ==
  ASSUME Assumed, RegionInv, [Next]_vars
  PROVE  RegionInv'
<1>1. CASE main
  BY <1>1, MainKept
<1>2. CASE tm_destroy
  BY <1>2, DestroyKept
<1>3. ASSUME UNCHANGED <<regionVars, phase, pc, node>>,
             runner' = runner \/ phase = "create"
                 \/ (phase # "work" /\ runner = "notify" /\ runner' = "ended")
      PROVE  RegionInv'
  BY <1>3 DEF RegionInv, LockInv, NodeInv, ChainInv, PhaseInv, Linking, InList, HeadsPrev,
              regionVars, listVars
<1>4. CASE tm_create \/ bounded_run
  BY <1>3, <1>4 DEF tm_create, bounded_run, threadVars, boundedVars, wait_for, deadline,
                    wakeup, waited, notify, RegionInv, PhaseInv
<1>5. ASSUME NEW t \in Thread, begin(t) \/ look(t) \/ tm_end(t) \/ tm_free(t)
      PROVE  RegionInv'
  <2>1. UNCHANGED <<regionVars, phase>> /\ runner' = runner
    BY <1>5 DEF begin, look, tm_end, tm_free, Freed, Step, boundedVars
  <2>2. \A u \in Thread \ {t} : node'[u] = node[u]
    BY <1>5 DEF begin, look, tm_end, tm_free, Assumed, PointerInv
  <2>3. \E from, to \in {"idle", "open", "freed"} : pc[t] = from /\ Goto(t, to)
    BY <1>5 DEF begin, look, tm_end, tm_free, In, Goto, Assumed, TypeInv, RegionTypes
  <2> QED BY <2>1, <2>2, <2>3, RegionAside
<1>6. ASSUME NEW t \in Thread, tm_alloc(t) \/ link_next(t) \/ link_prev(t) \/ link_head(t)
      PROVE  RegionInv'
  BY <1>6, AllocKept, LinkNextKept, LinkPrevKept, LinkHeadKept
<1>7. CASE UNCHANGED vars
  BY <1>3, <1>7 DEF vars, threadVars, boundedVars
<1> QED
  BY <1>1, <1>2, <1>4, <1>5, <1>6, <1>7 DEF Next, Transaction

\* Whatever threads link at the same time, and whatever transactions abort or free, no
\* segment is lost from the list, and tm_destroy frees each one once and leaves none.
THEOREM RegionStaysWhole == Spec => []RegionWhole
<1>1. Assumed /\ RegionInv => RegionWhole
  <2> SUFFICES ASSUME Assumed, RegionInv PROVE RegionWhole
    OBVIOUS
  <2> USE DEF Assumed, TypeInv, RegionTypes, RegionInv
  <2>1. ASSUME segment_lock = NULL, phase = "work"
        PROVE  IsList(live \ {node[t] : t \in {u \in Thread : pc[u] = "alloc"}})
    <3>1. Linking = {u \in Thread : pc[u] = "alloc"}
      BY <2>1, LifetimeAssumption DEF Linking, LockInv
    <3>2. HeadsPrev = NULL
      BY <2>1 DEF HeadsPrev
    <3>3. IsList(InList)
      BY <2>1, <3>2, ChainIsList DEF ChainInv
    <3> QED BY <3>1, <3>3 DEF InList
  <2>2. phase # "work" => Listed = live
    BY ChainListed DEF ChainInv
  <2>3. phase = "unloaded" => live = {}
    BY DEF PhaseInv
  <2> QED BY <2>1, <2>2, <2>3 DEF RegionWhole
<1>2. Assumed /\ RegionInv /\ [Next]_vars => RegionInv'
  BY RegionKept
<1>3. Spec => []Assumed
  BY TypeInvariant, BoundedInvariant, PTL DEF Assumed
<1> QED
  BY <1>1, <1>2, <1>3, InitRegion, PTL DEF Spec
=============================================================================
