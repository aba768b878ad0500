------------------------------ MODULE Lifetime ------------------------------
(***************************************************************************)
(* The life of one library and its shared memory in the grading program:   *)
(* it is loaded, TransactionalMemory creates a region in a bounded_run,    *)
(* the threads of measure run transactions that allocate and free          *)
(* segments, the region is destroyed in a bounded_run, and the library is  *)
(* unloaded.  Of the transactions of TL2 there is what tm_alloc and        *)
(* tm_free do to the region, and one shared pointer through which they     *)
(* hand segments to each other, as the next of the last bank segment.      *)
(***************************************************************************)
EXTENDS BoundedRun, SegmentList

CONSTANT Thread

ASSUME LifetimeAssumption == NULL \notin Thread

VARIABLES
    phase,       \* "create", "work", "destroy", "unloaded"
    exit,        \* how the program has ended: "no", "returned", "failed" (from
                 \* main), "quick" (quick_exit), "terminated" (std::terminate)
    live,        \* the segments that are allocated
    segment_lock,\* the thread that holds it, or NULL
    pc,          \* each thread: "idle", "open" (in a transaction), in tm_alloc,
                 \* or "freed" (it has called tm_free)
    node,        \* ... the segment its transaction has allocated, or NULL
    held,        \* ... the pointer its transaction has read, or NULL
    shared       \* the pointer in shared memory

regionVars == <<live, segment_lock, listVars>>
threadVars == <<pc, node, held, shared>>
vars == <<boundedVars, phase, exit, regionVars, threadVars>>

Init ==
    /\ BoundedInit /\ EmptyList
    /\ phase = "create" /\ exit = "no"
    /\ live = {} /\ segment_lock = NULL /\ shared = NULL
    /\ pc   = [t \in Thread |-> "idle"]
    /\ node = [t \in Thread |-> NULL]
    /\ held = [t \in Thread |-> NULL]

Goto(t, label) == pc' = [pc EXCEPT ![t] = label]
-----------------------------------------------------------------------------
(* The transactions.                                                       *)
In(t, label) == phase = "work" /\ pc[t] = label
Step == UNCHANGED <<boundedVars, phase, exit>>

begin(t) ==
    /\ In(t, "idle") /\ Goto(t, "open")
    /\ Step /\ UNCHANGED <<regionVars, node, held, shared>>

\* The pointer is read; from then on the transaction may use the segment.
look(t) ==
    /\ In(t, "open") /\ held[t] = NULL
    /\ held' = [held EXCEPT ![t] = shared]
    /\ Step /\ UNCHANGED <<regionVars, pc, node, shared>>

\* tm_alloc: posix_memalign, which may also fail and change nothing; ...
tm_alloc(t) ==
    /\ In(t, "open") /\ node[t] = NULL
    /\ \E s \in Segment \ live :
          /\ live' = live \cup {s}
          /\ node' = [node EXCEPT ![t] = s]
    /\ Goto(t, "alloc")
    /\ Step /\ UNCHANGED <<segment_lock, listVars, held, shared>>

\* ... the lock, and the next of the new node; ...
\* A bug: the lock is not there.
LockFree_Ignored == TRUE
LockFree == segment_lock = NULL

link_next(t) ==
    /\ In(t, "alloc") /\ LockFree
    /\ segment_lock' = t
    /\ SetNext(node[t])
    /\ Goto(t, "prev")
    /\ Step /\ UNCHANGED <<live, allocs, prev, node, held, shared>>

link_prev(t) ==
    /\ In(t, "prev")
    /\ UNCHANGED next /\ SetPrev(node[t])
    /\ Goto(t, "head")
    /\ Step /\ UNCHANGED <<live, segment_lock, allocs, node, held, shared>>

\* ... the head, and the lock is released.
link_head(t) ==
    /\ In(t, "head")
    /\ SetHead(node[t])
    /\ segment_lock' = NULL
    /\ Goto(t, "open")
    /\ Step /\ UNCHANGED <<live, prev, next, node, held, shared>>

\* tm_free leaves the segment to tm_destroy.  A bug: it does as the reference.
Freed_AtOnce(s) == Unlink(s) /\ live' = live \ {s} /\ UNCHANGED segment_lock
Freed(s) == UNCHANGED regionVars

tm_free(t) ==
    /\ In(t, "open") /\ held[t] # NULL
    /\ Freed(held[t])
    /\ Goto(t, "freed")
    /\ Step /\ UNCHANGED <<node, held, shared>>

\* A commit stores what Shared<>::alloc or ::free has written to the pointer,
\* which is still what the transaction has read; an abort stores nothing.
tm_end(t) ==
    /\ \/ In(t, "open") \/ In(t, "freed")
    /\ \/ UNCHANGED shared
       \/ pc[t] = "open" /\ node[t] # NULL /\ shared = NULL /\ shared' = node[t]
       \/ pc[t] = "freed" /\ shared = held[t] /\ shared' = NULL
    /\ node' = [node EXCEPT ![t] = NULL]
    /\ held' = [held EXCEPT ![t] = NULL]
    /\ Goto(t, "idle")
    /\ Step /\ UNCHANGED regionVars

Transaction(t) ==
    \/ begin(t) \/ look(t) \/ tm_end(t) \/ tm_free(t)
    \/ tm_alloc(t) \/ link_next(t) \/ link_prev(t) \/ link_head(t)
-----------------------------------------------------------------------------
(* What the runners do.  A failure of tm_create is thrown in the runner,   *)
(* where nothing catches it.                                               *)
tm_create ==
    /\ phase = "create" /\ runner = "func"
    /\ \/ func_returns /\ UNCHANGED exit
       \/ exit' = "terminated" /\ UNCHANGED boundedVars
    /\ UNCHANGED <<phase, regionVars, threadVars>>

tm_destroy ==
    /\ phase = "destroy" /\ runner = "func"
    /\ IF allocs = NULL
       THEN func_returns /\ UNCHANGED <<live, listVars>>
       ELSE PopHead /\ live' = live \ {allocs} /\ UNCHANGED boundedVars
    /\ UNCHANGED <<phase, exit, threadVars, segment_lock>>

\* The steps of bounded_run that concern nobody else.
bounded_run ==
    /\ wait_for \/ deadline \/ wakeup \/ waited \/ notify
    /\ UNCHANGED <<phase, exit, regionVars, threadVars>>
-----------------------------------------------------------------------------
(* main.                                                                   *)
Main(from, to) == phase = from /\ phase' = to /\ UNCHANGED <<regionVars, threadVars>>

\* The constructor and the destructor of TransactionalMemory.
construct   == Main("create", "create") /\ call /\ UNCHANGED exit
constructed == Main("create", "work") /\ join /\ UNCHANGED exit
destruct    == Main("destroy", "destroy") /\ call /\ UNCHANGED exit
destructed  == Main("destroy", "unloaded") /\ join /\ exit' = "returned"

\* measure returns, with every thread joined, or throws, and main quick-exits.
\* A bug: it returns while threads are still at work.
Joined_Early == TRUE
Joined == \A t \in Thread : pc[t] = "idle"

measured ==
    /\ Main("work", "destroy") /\ Joined
    /\ UNCHANGED <<boundedVars, exit>>
measure_throws == Main("work", "work") /\ exit' = "quick" /\ UNCHANGED boundedVars

\* BoundedOverrun leaves the constructor, and main, whose library is unloaded
\* on the way; the destructor must not throw.
overrun ==
    /\ master = "overrun"
    /\ \/ Main("create", "unloaded") /\ UNCHANGED exit
       \/ Main("unloaded", "unloaded") /\ exit' = "failed"
       \/ Main("destroy", "destroy") /\ exit' = "terminated"
    /\ UNCHANGED boundedVars

main ==
    \/ construct \/ constructed \/ destruct \/ destructed
    \/ measured \/ measure_throws \/ overrun

Next ==
    /\ exit = "no"
    /\ main \/ tm_create \/ tm_destroy \/ bounded_run \/ \E t \in Thread : Transaction(t)

Spec == Init /\ [][Next]_vars

\* The clock and the threads of the program go on; a tm_create or tm_destroy
\* need not come to an end.
FairSpec ==
    /\ Spec
    /\ WF_vars(exit = "no" /\ (constructed \/ destructed \/ (Waiting /\ bounded_run)))
    /\ WF_vars(exit = "no" /\ notify /\ bounded_run)
-----------------------------------------------------------------------------
(* Every variable has its type, and only threads at work use the region.   *)
LifetimeTypeOK ==
    /\ ListTypeOK
    /\ master \in {"out", "starting", "waiting", "woken", "joining", "overrun"}
    /\ runner \in {"none", "func", "notify", "ended"} /\ mutex \in {"none", "master"}
    /\ late \in BOOLEAN /\ spurious \in BOOLEAN
    /\ phase \in {"create", "work", "destroy", "unloaded"}
    /\ exit \in {"no", "returned", "failed", "quick", "terminated"}
    /\ live \subseteq Segment /\ shared \in Link
    /\ segment_lock \in Thread \cup {NULL}
    /\ pc \in [Thread -> {"idle", "open", "alloc", "prev", "head", "freed"}]
    /\ node \in [Thread -> Link] /\ held \in [Thread -> Link]
    /\ phase # "work" => \A t \in Thread : pc[t] = "idle"

(* Threads that link segments at the same time, and transactions that are  *)
(* aborted after it or free what others use, lose none of them: whenever   *)
(* no one is linking, the list holds every segment allocated, and          *)
(* tm_destroy frees each of them once and leaves none.                     *)
RegionWhole ==
    /\ segment_lock = NULL =>
           IF phase = "work"
           THEN IsList(live \ {node[t] : t \in {u \in Thread : pc[u] = "alloc"}})
           ELSE Listed = live
    /\ phase = "unloaded" => live = {}

(* What the shared pointer points at, and what any transaction may use by  *)
(* a pointer it has read, is allocated memory, though the pointer may have *)
(* been taken back, and its segment freed, by another transaction since:   *)
(* the reason why tm_free frees nothing.                                   *)
NoDanglingPointer ==
    phase = "work" =>
        /\ shared # NULL => shared \in live
        /\ \A t \in Thread : held[t] # NULL => held[t] \in live

(* A bounded_run ends, by its deadline if by nothing else, even when the   *)
(* function never does, unless the master was woken for no reason.         *)
BoundedRunEnds ==
    master = "starting" ~> (master \in {"out", "overrun"} \/ spurious \/ exit # "no")
-----------------------------------------------------------------------------
(* "Cannot unload library with running threads" (grading.cpp:341).         *)
UnloadedIdle == phase = "unloaded" => runner # "func"
=============================================================================
