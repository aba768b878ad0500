---------------------------- MODULE ReferenceTM -----------------------------
(***************************************************************************)
(* The reference transactional memory (reference/tm.c): one reader-writer  *)
(* lock, which a transaction holds from tm_begin to tm_end, and plain      *)
(* accesses to the memory under it.  A dynamic segment is one word, and    *)
(* the bookkeeping of the rwlock itself is glibc's.  A thread takes the    *)
(* mode of its transactions and their accesses as they come.  That only    *)
(* read-write ones write, allocate and free, and only at addresses that    *)
(* exist, is up to the closures: class Transaction would check the former  *)
(* (transactional.hpp:323), but assert_mode is off.  Taking the lock never *)
(* fails here: an error of pthread_rwlock_rdlock or _wrlock, for which     *)
(* tm_begin returns invalid_tx, is left out.                               *)
(***************************************************************************)
EXTENDS SegmentList

CONSTANTS
    Thread,
    Word,        \* the words of the first segment
    Val, Zero,
    MaxTx        \* bound: the transactions each thread runs

ASSUME ReferenceAssumption ==
    /\ IsFiniteSet(Thread) /\ Zero \in Val /\ MaxTx \in Nat
    /\ Word \cap (Segment \cup {NULL}) = {}

VARIABLES
    readers, writing,   \* the rwlock: how many read, whether one writes; it
                        \* keeps no names
    mem,                \* the words that exist, with their values
    before,             \* history: mem when the last writer was let in
    pc, mode,           \* each thread: where it is, "ro" or "rw"
    got, left,          \* ... what it has read last, transactions to come
    phase               \* of the region: "up", "freeing" in tm_destroy, "gone"

lockVars == <<readers, writing>>
threadVars == <<pc, mode, got, left>>
refVars == <<listVars, lockVars, mem, before, threadVars, phase>>

Empty == [a \in {} |-> Zero]

tm_create ==
    /\ EmptyList
    /\ readers = 0 /\ writing = FALSE
    /\ mem = [a \in Word |-> Zero] /\ before = Empty
    /\ pc   = [t \in Thread |-> "idle"]
    /\ mode = [t \in Thread |-> "ro"]
    /\ got  = [t \in Thread |-> Zero]
    /\ left = [t \in Thread |-> MaxTx]
    /\ phase = "up"

(* Transaction t calls tm_begin and waits for the lock ...                 *)
tm_begin(t) ==
    /\ pc[t] = "idle" /\ left[t] > 0
    /\ pc'   = [pc EXCEPT ![t] = "waiting"]
    /\ left' = [left EXCEPT ![t] = @ - 1]
    /\ \E m \in {"ro", "rw"} : mode' = [mode EXCEPT ![t] = m]
    /\ UNCHANGED <<listVars, lockVars, mem, before, got, phase>>

(* ... shared, whether or not a writer waits ...                           *)
rdlock(t) ==
    /\ pc[t] = "waiting" /\ mode[t] = "ro" /\ ~writing
    /\ readers' = readers + 1
    /\ pc' = [pc EXCEPT ![t] = "running"]
    /\ UNCHANGED <<listVars, writing, mem, before, mode, got, left, phase>>

(* ... or exclusive.  A bug: readers that are already in are not seen.     *)
CanWrite_OverReaders == ~writing
CanWrite == ~writing /\ readers = 0

wrlock(t) ==
    /\ pc[t] = "waiting" /\ mode[t] = "rw" /\ CanWrite
    /\ writing' = TRUE
    /\ before' = mem
    /\ pc' = [pc EXCEPT ![t] = "running"]
    /\ UNCHANGED <<listVars, readers, mem, mode, got, left, phase>>

Running(t) == pc[t] = "running"
InWrite(t) == Running(t) /\ mode[t] = "rw"

tm_read(t, a) ==
    /\ Running(t) /\ a \in DOMAIN mem
    /\ got' = [got EXCEPT ![t] = mem[a]]
    /\ UNCHANGED <<listVars, lockVars, mem, before, pc, mode, left, phase>>

tm_write(t, a, v) ==
    /\ InWrite(t) /\ a \in DOMAIN mem
    /\ mem' = [mem EXCEPT ![a] = v]
    /\ UNCHANGED <<listVars, lockVars, before, threadVars, phase>>

(* The allocator gives out any node that is free; without one nothing      *)
(* changes (nomem_alloc).  The words of a new segment are set to zero.     *)
tm_alloc(t, s) ==
    /\ InWrite(t) /\ s \in Segment \ DOMAIN mem
    /\ SetNext(s) /\ SetPrev(s) /\ SetHead(s)
    /\ mem' = [a \in DOMAIN mem \cup {s} |-> IF a = s THEN Zero ELSE mem[a]]
    /\ UNCHANGED <<lockVars, before, threadVars, phase>>

tm_free(t, s) ==
    /\ InWrite(t) /\ s \in Segment \cap DOMAIN mem
    /\ Unlink(s)
    /\ mem' = [a \in DOMAIN mem \ {s} |-> mem[a]]
    /\ UNCHANGED <<lockVars, before, threadVars, phase>>

(* pthread_rwlock_unlock, by which both kinds of transactions release the  *)
(* lock, finds out by its own state what it was held for.  A bug: the      *)
(* reader stays counted.                                                   *)
Unlock_KeepsReader == writing' = FALSE /\ UNCHANGED readers
Unlock ==
    IF writing
    THEN writing' = FALSE /\ UNCHANGED readers
    ELSE readers' = readers - 1 /\ UNCHANGED writing

tm_end(t) ==
    /\ Running(t) /\ Unlock
    /\ pc'  = [pc EXCEPT ![t] = "idle"]
    /\ mode' = [mode EXCEPT ![t] = "ro"]
    /\ got' = [got EXCEPT ![t] = Zero]
    /\ UNCHANGED <<listVars, mem, before, left, phase>>

(* tm_destroy, when no thread has anything left to do: it is called, loops *)
(* over the list, and frees the rest of the region.                        *)
tm_destroy ==
    /\ phase = "up" /\ \A t \in Thread : pc[t] = "idle" /\ left[t] = 0
    /\ phase' = "freeing"
    /\ UNCHANGED <<listVars, lockVars, mem, before, threadVars>>

free_segment ==
    /\ phase = "freeing" /\ allocs # NULL
    /\ PopHead
    /\ mem' = [a \in DOMAIN mem \ {allocs} |-> mem[a]]
    /\ UNCHANGED <<lockVars, before, threadVars, phase>>

free_region ==
    /\ phase = "freeing" /\ allocs = NULL
    /\ mem' = [a \in DOMAIN mem \ Word |-> mem[a]]
    /\ phase' = "gone"
    /\ UNCHANGED <<listVars, lockVars, before, threadVars>>

Transaction(t) ==
    \/ tm_begin(t) \/ rdlock(t) \/ wrlock(t) \/ tm_end(t)
    \/ \E a \in DOMAIN mem : tm_read(t, a) \/ \E v \in Val : tm_write(t, a, v)
    \/ \E s \in Segment : tm_alloc(t, s) \/ tm_free(t, s)

RefNext == (\E t \in Thread : Transaction(t)) \/ tm_destroy \/ free_segment \/ free_region

RefSpec == tm_create /\ [][RefNext]_refVars

(* Transactions come to their end, and the lock is given to a thread that  *)
(* waits as long as it can be had.                                         *)
FairRefSpec ==
    /\ RefSpec
    /\ \A t \in Thread : WF_refVars(tm_begin(t)) /\ WF_refVars(tm_end(t))
    /\ \A t \in Thread : WF_refVars(rdlock(t)) /\ WF_refVars(wrlock(t))
    /\ WF_refVars(tm_destroy \/ free_segment \/ free_region)
-----------------------------------------------------------------------------
(* Every variable has its type, and the counters of the lock agree with    *)
(* the transactions that run, though it keeps no names and readers and     *)
(* writers release it by the same call.                                    *)
RefTypeOK ==
    /\ ListTypeOK
    /\ readers = Cardinality({t \in Thread : Running(t) /\ mode[t] = "ro"})
    /\ writing = (\E t \in Thread : InWrite(t))
    /\ DOMAIN mem \subseteq Word \cup Segment /\ mem \in [DOMAIN mem -> Val]
    /\ pc \in [Thread -> {"idle", "waiting", "running"}]
    /\ mode \in [Thread -> {"ro", "rw"}]
    /\ got \in [Thread -> Val] /\ left \in [Thread -> 0 .. MaxTx]
    /\ phase \in {"up", "freeing", "gone"}

(* The list holds exactly the segments that exist, and can be walked both  *)
(* ways, whatever was allocated and freed before by whom: tm_free of any   *)
(* node finds its neighbours, and the loop of tm_destroy, which goes by    *)
(* the head alone, frees every segment once and leaves nothing allocated.  *)
SegmentsListed ==
    CASE phase = "up"      -> IsList(DOMAIN mem \ Word)
      [] phase = "freeing" -> Listed = DOMAIN mem \ Word
      [] phase = "gone"    -> mem = Empty

(* The lock makes it an atomic memory: a transaction reads one state of    *)
(* the memory plus what it has changed itself, and a writer finds it as it *)
(* was let in.                                                             *)
Db   == IF phase # "up" THEN Empty ELSE IF writing THEN before ELSE mem
Open == [t \in Thread |-> IF Running(t) THEN mode[t] ELSE "no"]
Base == [t \in Thread |-> IF InWrite(t) THEN before ELSE IF Running(t) THEN mem ELSE Empty]
View == [t \in Thread |-> IF Running(t) THEN mem ELSE Empty]

Atomic == INSTANCE AtomicMemory WITH
    db <- Db, open <- Open, base <- Base, view <- View, result <- got

RunsAtomically == Atomic!Spec

(* Every transaction gets the lock and ends, readers and writers that come *)
(* later or earlier notwithstanding, and the region is freed at the end.   *)
EveryTransactionEnds == <>(phase = "gone")
=============================================================================
