-------------------------- MODULE ReferenceProofs ---------------------------
(***************************************************************************)
(* The reference memory is atomic: its lock keeps a writer alone although  *)
(* it counts transactions without knowing them, and behind it plain reads  *)
(* and writes implement AtomicMemory, for any finite set of threads, any   *)
(* words, segments and values, and any number of transactions.             *)
(***************************************************************************)
EXTENDS ReferenceTM, SegmentListProofs

Readers == {t \in Thread : Running(t) /\ mode[t] = "ro"}

\* RefTypeOK, in its two parts.
Types ==
    /\ ListTypeOK
    /\ DOMAIN mem \subseteq Word \cup Segment /\ mem \in [DOMAIN mem -> Val]
    /\ pc \in [Thread -> {"idle", "waiting", "running"}]
    /\ mode \in [Thread -> {"ro", "rw"}]
    /\ got \in [Thread -> Val] /\ left \in [Thread -> 0 .. MaxTx]
    /\ phase \in {"up", "freeing", "gone"}

Counted == readers = Cardinality(Readers) /\ writing = (\E t \in Thread : InWrite(t))

\* A transaction that writes is the only one; what RefTypeOK lacks for the
\* release of the lock, which goes by the counters, to hit the right one.
Exclusive == \A t, u \in Thread : InWrite(t) /\ Running(u) => u = t

\* The region is only destroyed when nobody is left.
Quiet == phase # "up" => \A t \in Thread : pc[t] = "idle" /\ left[t] = 0

RefInv == Types /\ Counted /\ Exclusive /\ Quiet

LEMMA TwoParts == RefTypeOK <=> Types /\ Counted
BY DEF RefTypeOK, Types, Counted, Readers

LEMMA ReadersFinite == Readers \in SUBSET Thread /\ IsFiniteSet(Readers)
BY ReferenceAssumption, FS_Subset DEF Readers

LEMMA InitRef == tm_create => RefInv
<1> SUFFICES ASSUME tm_create PROVE RefInv
  OBVIOUS
<1>1. \A t \in Thread : ~Running(t)
  BY DEF tm_create, Running
<1>2. Readers = {}
  BY <1>1 DEF Readers
<1>3. Counted
  BY <1>1, <1>2, FS_EmptySet DEF tm_create, Counted, InWrite
<1>4. Types
  BY EmptyLinks, ReferenceAssumption DEF tm_create, Types
<1>5. Exclusive /\ Quiet
  BY <1>1 DEF tm_create, Exclusive, Quiet, InWrite
<1> QED
  BY <1>3, <1>4, <1>5 DEF RefInv
-----------------------------------------------------------------------------
(* Types are kept by every action on its own.                              *)
LEMMA TypesKept ==
  ASSUME Types, [RefNext]_refVars
  PROVE  Types'
<1> USE DEF Types
<1>1. ASSUME NEW t \in Thread, tm_begin(t) PROVE Types'
  BY <1>1, ReferenceAssumption DEF tm_begin, listVars, lockVars, ListTypeOK
<1>2. ASSUME NEW t \in Thread, rdlock(t) PROVE Types'
  BY <1>2 DEF rdlock, listVars, ListTypeOK
<1>3. ASSUME NEW t \in Thread, wrlock(t) PROVE Types'
  BY <1>3 DEF wrlock, listVars, ListTypeOK
<1>4. ASSUME NEW t \in Thread, tm_end(t) PROVE Types'
  BY <1>4, ReferenceAssumption DEF tm_end, listVars, ListTypeOK
<1>5. ASSUME NEW t \in Thread, NEW a \in DOMAIN mem, tm_read(t, a) PROVE Types'
  BY <1>5 DEF tm_read, listVars, lockVars, ListTypeOK
<1>6. ASSUME NEW t \in Thread, NEW a \in DOMAIN mem, NEW v \in Val, tm_write(t, a, v)
      PROVE  Types'
  BY <1>6 DEF tm_write, listVars, lockVars, threadVars, ListTypeOK
<1>7. ASSUME NEW t \in Thread, NEW s \in Segment, tm_alloc(t, s) PROVE Types'
  <2>1. ListTypeOK'
    BY <1>7, LinkType DEF tm_alloc
  <2> QED
    BY <1>7, <2>1, ReferenceAssumption DEF tm_alloc, lockVars, threadVars
<1>8. ASSUME NEW t \in Thread, NEW s \in Segment, tm_free(t, s) PROVE Types'
  <2>1. ListTypeOK'
    BY <1>8, UnlinkType DEF tm_free
  <2> QED
    BY <1>8, <2>1 DEF tm_free, lockVars, threadVars
<1>9. CASE tm_destroy
  BY <1>9 DEF tm_destroy, listVars, lockVars, threadVars, ListTypeOK
<1>10. CASE free_segment
  <2>1. ListTypeOK'
    BY <1>10, PopType DEF free_segment
  <2> QED
    BY <1>10, <2>1 DEF free_segment, lockVars, threadVars
<1>11. CASE free_region
  BY <1>11 DEF free_region, listVars, lockVars, threadVars, ListTypeOK
<1>12. CASE UNCHANGED refVars
  BY <1>12 DEF refVars, listVars, threadVars, ListTypeOK
<1> QED
  BY <1>1, <1>2, <1>3, <1>4, <1>5, <1>6, <1>7, <1>8, <1>9, <1>10, <1>11, <1>12
  DEF RefNext, Transaction
-----------------------------------------------------------------------------
(* Which steps the lock notices: those that let a transaction in or out.   *)
LEMMA LockKept ==
  ASSUME Types, Counted, Exclusive, Quiet, UNCHANGED <<lockVars, pc, mode, left>>,
         phase' = phase \/ \A t \in Thread : pc[t] = "idle" /\ left[t] = 0
  PROVE  (Counted /\ Exclusive /\ Quiet)'
BY DEF Counted, Readers, Exclusive, Quiet, Running, InWrite, lockVars

LEMMA ReaderEnters ==
  ASSUME RefInv, NEW t \in Thread, rdlock(t)
  PROVE  (Counted /\ Exclusive /\ Quiet)'
<1> USE DEF RefInv, Types
<1>1. Readers' = Readers \cup {t} /\ t \notin Readers
  BY DEF rdlock, Readers, Running
<1>2. readers' = Cardinality(Readers')
  BY <1>1, ReadersFinite, FS_AddElement DEF rdlock, Counted
<1>3. \A u \in Thread : ~InWrite(u) /\ ~InWrite(u)'
  BY DEF rdlock, Counted, InWrite, Running
<1> QED
  BY <1>2, <1>3 DEF rdlock, Counted, Exclusive, Quiet

LEMMA WriterEnters ==
  ASSUME RefInv, NEW t \in Thread, wrlock(t)
  PROVE  (Counted /\ Exclusive /\ Quiet)'
<1> USE DEF RefInv, Types
<1>1. Readers = {}
  BY ReadersFinite, FS_EmptySet DEF wrlock, CanWrite, Counted
<1>2. \A u \in Thread : ~Running(u)
  BY <1>1 DEF wrlock, CanWrite, Counted, Readers, InWrite
<1>3. \A u \in Thread : Running(u)' <=> u = t
  BY <1>2 DEF wrlock, Running
<1>4. Readers' = {} /\ InWrite(t)'
  BY <1>3 DEF wrlock, Readers, InWrite
<1>5. Counted'
  BY <1>1, <1>4 DEF wrlock, Counted
<1> QED
  BY <1>3, <1>5 DEF wrlock, Exclusive, Quiet, InWrite

\* The release goes by writing, which says what t holds since it is either
\* the only one or not a writer.
LEMMA TransactionLeaves ==
  ASSUME RefInv, NEW t \in Thread, tm_end(t)
  PROVE  (Counted /\ Exclusive /\ Quiet)'
<1> USE DEF RefInv, Types
<1>1. \A u \in Thread : Running(u)' <=> Running(u) /\ u # t
  BY DEF tm_end, Running
<1>2. \A u \in Thread : u # t => mode'[u] = mode[u]
  BY DEF tm_end
<1>3. Exclusive' /\ Quiet'
  BY <1>1, <1>2 DEF tm_end, Exclusive, Quiet, InWrite, Running
<1>4. Readers' = Readers \ {t}
  BY <1>1, <1>2 DEF Readers
<1>5. CASE writing
  <2>1. InWrite(t) /\ \A u \in Thread : ~Running(u)'
    BY <1>1, <1>5 DEF tm_end, Counted, Exclusive, InWrite
  <2>2. t \notin Readers
    BY <2>1 DEF Readers, InWrite
  <2>3. Readers' = Readers
    BY <1>4, <2>2
  <2> QED
    BY <1>3, <1>5, <2>1, <2>3 DEF tm_end, Unlock, Counted, InWrite
<1>6. CASE ~writing
  <2>1. t \in Readers /\ \A u \in Thread : ~InWrite(u)
    BY <1>6 DEF tm_end, Counted, InWrite, Readers
  <2>2. readers' = Cardinality(Readers')
    BY <1>4, <1>6, <2>1, ReadersFinite, FS_RemoveElement DEF tm_end, Unlock, Counted
  <2>3. \A u \in Thread : ~InWrite(u)'
    BY <1>1, <1>2, <2>1 DEF InWrite
  <2> QED
    BY <1>3, <1>6, <2>2, <2>3 DEF tm_end, Unlock, Counted
<1> QED
  BY <1>5, <1>6 DEF Counted

LEMMA StepRef ==
  ASSUME RefInv, [RefNext]_refVars
  PROVE  RefInv'
<1> USE DEF RefInv
<1> SUFFICES (Counted /\ Exclusive /\ Quiet)'
  BY TypesKept
<1>1. ASSUME NEW t \in Thread, tm_begin(t) PROVE (Counted /\ Exclusive /\ Quiet)'
  <2>1. \A u \in Thread : Running(u) => mode'[u] = mode[u]
    BY <1>1 DEF tm_begin, Running, Types
  <2>2. \A u \in Thread : Running(u)' <=> Running(u)
    BY <1>1 DEF tm_begin, Running, Types
  <2>3. Readers' = Readers /\ \A u \in Thread : InWrite(u)' <=> InWrite(u)
    BY <2>1, <2>2 DEF Readers, InWrite
  <2> QED
    BY <1>1, <2>2, <2>3 DEF tm_begin, lockVars, Counted, Exclusive, Quiet
<1>2. ASSUME NEW t \in Thread, rdlock(t) PROVE (Counted /\ Exclusive /\ Quiet)'
  BY <1>2, ReaderEnters
<1>3. ASSUME NEW t \in Thread, wrlock(t) PROVE (Counted /\ Exclusive /\ Quiet)'
  BY <1>3, WriterEnters
<1>4. ASSUME NEW t \in Thread, tm_end(t) PROVE (Counted /\ Exclusive /\ Quiet)'
  BY <1>4, TransactionLeaves
<1>5. ASSUME NEW t \in Thread, NEW a \in DOMAIN mem,
             tm_read(t, a) \/ \E v \in Val : tm_write(t, a, v)
      PROVE  (Counted /\ Exclusive /\ Quiet)'
  BY <1>5, LockKept DEF tm_read, tm_write, threadVars
<1>6. ASSUME NEW t \in Thread, NEW s \in Segment, tm_alloc(t, s) \/ tm_free(t, s)
      PROVE  (Counted /\ Exclusive /\ Quiet)'
  BY <1>6, LockKept DEF tm_alloc, tm_free, threadVars
<1>7. CASE tm_destroy
  BY <1>7, LockKept DEF tm_destroy, threadVars
<1>8. CASE free_segment
  BY <1>8, LockKept DEF free_segment, threadVars
<1>9. CASE free_region
  BY <1>9, LockKept DEF free_region, threadVars, Quiet
<1>10. CASE UNCHANGED refVars
  BY <1>10, LockKept DEF refVars, threadVars
<1> QED
  BY <1>1, <1>2, <1>3, <1>4, <1>5, <1>6, <1>7, <1>8, <1>9, <1>10
  DEF RefNext, Transaction

LEMMA RefInvariant == RefSpec => []RefInv
BY InitRef, StepRef, PTL DEF RefSpec

(* Types, and the counters of the lock, which count the transactions that  *)
(* run although pthread_rwlock_unlock is not told which one ends.          *)
THEOREM RefTypeCorrect == RefSpec => []RefTypeOK
BY RefInvariant, TwoParts, PTL DEF RefInv

(* The lock keeps a writer alone in the region.                            *)
THEOREM WritersAlone == RefSpec => []Exclusive
BY RefInvariant, PTL DEF RefInv
-----------------------------------------------------------------------------
(* The list.  While the region is up its segments are a chain both ways;   *)
(* in tm_destroy the next pointers still lead through all that is left,    *)
(* and the prev pointer of the head is to a node that is gone.             *)
ListInv ==
    /\ phase = "up" => Chain(allocs, prev, next, NULL, DOMAIN mem \ Word)
    /\ phase = "freeing" =>
           \E before_head : Chain(allocs, prev, next, before_head, DOMAIN mem \ Word)
    /\ phase = "gone" => mem = Empty

LEMMA InitList == tm_create => ListInv
<1> SUFFICES ASSUME tm_create PROVE ListInv
  OBVIOUS
<1>1. DOMAIN mem \ Word = {} /\ phase = "up"
  BY DEF tm_create
<1> QED BY <1>1, EmptyListed DEF tm_create, ListInv

LEMMA AllocLists ==
  ASSUME RefInv, ListInv, NEW t \in Thread, NEW s \in Segment, tm_alloc(t, s)
  PROVE  ListInv'
<1>1. phase = "up" /\ phase' = "up"
  BY DEF tm_alloc, InWrite, Running, RefInv, Quiet
<1>2. Chain(allocs, prev, next, NULL, DOMAIN mem \ Word) /\ s \notin DOMAIN mem \ Word
  BY <1>1 DEF ListInv, tm_alloc
<1>3. Chain(allocs', prev', next', NULL, (DOMAIN mem \ Word) \cup {s})
  BY <1>2, LinkListed DEF tm_alloc, RefInv, Types
<1>4. DOMAIN mem' \ Word = (DOMAIN mem \ Word) \cup {s}
  BY ReferenceAssumption DEF tm_alloc
<1> QED BY <1>1, <1>3, <1>4 DEF ListInv

LEMMA FreeLists ==
  ASSUME RefInv, ListInv, NEW t \in Thread, NEW s \in Segment, tm_free(t, s)
  PROVE  ListInv'
<1>1. phase = "up" /\ phase' = "up"
  BY DEF tm_free, InWrite, Running, RefInv, Quiet
<1>2. Chain(allocs, prev, next, NULL, DOMAIN mem \ Word) /\ s \in DOMAIN mem \ Word
  BY <1>1, ReferenceAssumption DEF ListInv, tm_free
<1>3. Chain(allocs', prev', next', NULL, (DOMAIN mem \ Word) \ {s})
  BY <1>2, UnlinkListed DEF tm_free, RefInv, Types
<1>4. DOMAIN mem' \ Word = (DOMAIN mem \ Word) \ {s}
  BY DEF tm_free
<1> QED BY <1>1, <1>3, <1>4 DEF ListInv

LEMMA PopLists ==
  ASSUME RefInv, ListInv, free_segment
  PROVE  ListInv'
<1>1. phase = "freeing" /\ phase' = "freeing" /\ allocs # NULL
  BY DEF free_segment
<1>2. PICK b : Chain(allocs, prev, next, b, DOMAIN mem \ Word)
  BY <1>1 DEF ListInv
<1>3. Chain(allocs', prev', next', allocs, (DOMAIN mem \ Word) \ {allocs})
  BY <1>1, <1>2, PopListed DEF free_segment, RefInv, Types
<1>4. DOMAIN mem' \ Word = (DOMAIN mem \ Word) \ {allocs}
  BY DEF free_segment
<1> QED BY <1>1, <1>3, <1>4 DEF ListInv

LEMMA RegionFreed ==
  ASSUME RefInv, ListInv, free_region
  PROVE  ListInv'
<1>1. PICK b : Chain(allocs, prev, next, b, DOMAIN mem \ Word)
  BY DEF free_region, ListInv
<1>2. DOMAIN mem \ Word = {}
  BY <1>1, ChainNodes DEF free_region
<1>3. mem' = [a \in {} |-> mem[a]]
  BY <1>2 DEF free_region
<1>4. mem' = Empty
  BY <1>3 DEF Empty
<1> QED BY <1>4 DEF free_region, ListInv

LEMMA ListKept ==
  ASSUME RefInv, ListInv, [RefNext]_refVars
  PROVE  ListInv'
<1>1. ASSUME UNCHANGED listVars, DOMAIN mem' = DOMAIN mem, phase' = phase,
             phase = "gone" => mem' = mem
      PROVE  ListInv'
  BY <1>1 DEF ListInv, listVars
<1>2. ASSUME NEW t \in Thread, tm_begin(t) \/ rdlock(t) \/ wrlock(t) \/ tm_end(t)
      PROVE  ListInv'
  BY <1>1, <1>2 DEF tm_begin, rdlock, wrlock, tm_end
<1>3. ASSUME NEW t \in Thread, NEW a \in DOMAIN mem,
             tm_read(t, a) \/ \E v \in Val : tm_write(t, a, v)
      PROVE  ListInv'
  <2>1. phase = "up"
    BY <1>3 DEF tm_read, tm_write, InWrite, Running, RefInv, Quiet
  <2> QED BY <1>1, <1>3, <2>1 DEF tm_read, tm_write
<1>4. ASSUME NEW t \in Thread, NEW s \in Segment, tm_alloc(t, s) \/ tm_free(t, s)
      PROVE  ListInv'
  BY <1>4, AllocLists, FreeLists
<1>5. CASE tm_destroy
  BY <1>5 DEF tm_destroy, ListInv, listVars
<1>6. CASE free_segment \/ free_region
  BY <1>6, PopLists, RegionFreed
<1>7. CASE UNCHANGED refVars
  BY <1>1, <1>7 DEF refVars
<1> QED
  BY <1>2, <1>3, <1>4, <1>5, <1>6, <1>7 DEF RefNext, Transaction

(* Whatever is allocated and freed, by whom and in whatever order, the     *)
(* list holds exactly the segments that exist and can be walked both ways, *)
(* and tm_destroy, which goes by the head alone, leaves nothing allocated. *)
THEOREM SegmentsAlwaysListed == RefSpec => []SegmentsListed
<1>1. RefInv /\ ListInv => SegmentsListed
  <2> SUFFICES ASSUME RefInv, ListInv PROVE SegmentsListed
    OBVIOUS
  <2>1. phase = "up" => IsList(DOMAIN mem \ Word)
    BY ChainIsList DEF ListInv
  <2>2. phase = "freeing" => Listed = DOMAIN mem \ Word
    BY ChainListed DEF ListInv
  <2>3. phase = "gone" => mem = Empty
    BY DEF ListInv
  <2> QED BY <2>1, <2>2, <2>3 DEF SegmentsListed, RefInv, Types
<1>2. tm_create => ListInv
  BY InitList
<1>3. RefInv /\ ListInv /\ [RefNext]_refVars => ListInv'
  BY ListKept
<1> QED
  BY <1>1, <1>2, <1>3, RefInvariant, PTL DEF RefSpec
-----------------------------------------------------------------------------
(* The refinement.  A thread that enters begins, one that leaves commits;  *)
(* waiting for the lock and tearing the region down are nobody's business. *)
Mapped == <<Db, Open, Base, View, got>>

LEMMA InitMaps == tm_create => Atomic!Init
BY DEF tm_create, Atomic!Init, Atomic!Nothing, Db, Open, Base, View, Running, InWrite, Empty

LEMMA ReaderBegins ==
  ASSUME RefInv, NEW t \in Thread, rdlock(t)
  PROVE  Atomic!Begin(t, "ro")
<1> USE DEF RefInv, Types
<1>1. phase = "up" /\ Db = mem /\ Db' = mem
  BY DEF rdlock, Quiet, Db
<1>2. Open[t] = "no" /\ Open' = [Open EXCEPT ![t] = "ro"]
  BY DEF rdlock, Open, Running
<1>3. View' = [View EXCEPT ![t] = mem]
  BY DEF rdlock, View, Running
<1>4. Base' = [Base EXCEPT ![t] = mem]
  BY DEF rdlock, Base, InWrite, Running
<1> QED
  BY <1>1, <1>2, <1>3, <1>4 DEF rdlock, Atomic!Begin

LEMMA WriterBegins ==
  ASSUME RefInv, NEW t \in Thread, wrlock(t)
  PROVE  Atomic!Begin(t, "rw")
<1> USE DEF RefInv, Types
<1>0. \A u \in Thread : ~Running(u)
  <2>1. Readers = {}
    BY ReadersFinite, FS_EmptySet DEF wrlock, CanWrite, Counted
  <2> QED
    BY <2>1 DEF wrlock, CanWrite, Counted, Readers, InWrite
<1>1. phase = "up" /\ Db = mem /\ Db' = mem
  BY DEF wrlock, CanWrite, Quiet, Db
<1>2. Open[t] = "no" /\ Open' = [Open EXCEPT ![t] = "rw"]
  BY DEF wrlock, Open, Running
<1>3. View' = [View EXCEPT ![t] = mem]
  BY DEF wrlock, View, Running
<1>4. Base' = [Base EXCEPT ![t] = mem]
  BY <1>0 DEF wrlock, Base, InWrite, Running
<1> QED
  BY <1>1, <1>2, <1>3, <1>4 DEF wrlock, Atomic!Begin

LEMMA ReadReads ==
  ASSUME RefInv, NEW t \in Thread, NEW a \in DOMAIN mem, tm_read(t, a)
  PROVE  Atomic!Next
<1>1. UNCHANGED <<Db, Open, Base, View>>
  BY DEF tm_read, lockVars, Db, Open, Base, View, Running, InWrite
<1>2. Open[t] # "no" /\ View[t] = mem
  BY DEF tm_read, Open, View, RefInv, Types
<1>3. Atomic!Read(t, a)
  BY <1>1, <1>2 DEF tm_read, Atomic!Read
<1>4. a \in Word \cup Segment
  BY DEF RefInv, Types
<1> QED
  BY <1>3, <1>4 DEF Atomic!Next

\* A writer is alone, so what it does to the memory it does to its own copy.
LEMMA WriterChanges ==
  ASSUME RefInv, NEW t \in Thread, InWrite(t),
         UNCHANGED <<lockVars, before, threadVars, phase>>
  PROVE  Atomic!Change(t, mem') /\ View[t] = mem
<1> USE DEF RefInv, Types
<1>1. writing /\ \A u \in Thread : Running(u) => u = t
  BY DEF Counted, Exclusive
<1>2. Db' = Db
  BY <1>1 DEF Db, lockVars
<1>3. Open[t] = "rw" /\ Open' = Open
  BY DEF Open, InWrite, threadVars, Running
<1>4. View[t] = mem /\ View' = [View EXCEPT ![t] = mem']
  BY <1>1 DEF View, threadVars, Running, InWrite
<1>5. Base' = Base
  BY <1>1 DEF Base, threadVars, Running, InWrite
<1> QED
  BY <1>2, <1>3, <1>4, <1>5 DEF Atomic!Change, threadVars

LEMMA WriteWrites ==
  ASSUME RefInv, NEW t \in Thread, NEW a \in DOMAIN mem, NEW v \in Val, tm_write(t, a, v)
  PROVE  Atomic!Next
<1>1. Atomic!Change(t, mem') /\ View[t] = mem
  BY WriterChanges DEF tm_write
<1>2. mem' = Atomic!Put(mem, a, v)
  BY DEF tm_write, Atomic!Put, RefInv, Types
<1>3. Atomic!Write(t, a, v)
  BY <1>1, <1>2 DEF Atomic!Write
<1>4. a \in Word \cup Segment
  BY DEF RefInv, Types
<1> QED
  BY <1>3, <1>4 DEF Atomic!Next

LEMMA AllocAllocates ==
  ASSUME RefInv, NEW t \in Thread, NEW s \in Segment, tm_alloc(t, s)
  PROVE  Atomic!Next
<1>1. Atomic!Change(t, mem') /\ View[t] = mem
  BY WriterChanges DEF tm_alloc
<1>2. mem' = Atomic!Put(mem, s, Zero) /\ s \notin DOMAIN mem
  BY DEF tm_alloc, Atomic!Put
<1>3. Atomic!Alloc(t, s)
  BY <1>1, <1>2 DEF Atomic!Alloc
<1> QED
  BY <1>3 DEF Atomic!Next

LEMMA FreeFrees ==
  ASSUME RefInv, NEW t \in Thread, NEW s \in Segment, tm_free(t, s)
  PROVE  Atomic!Next
<1>1. Atomic!Change(t, mem') /\ View[t] = mem
  BY WriterChanges DEF tm_free
<1>2. mem' = Atomic!Drop(mem, s) /\ s \in DOMAIN mem
  BY DEF tm_free, Atomic!Drop
<1>3. Atomic!Free(t, s)
  BY <1>1, <1>2 DEF Atomic!Free
<1> QED
  BY <1>3 DEF Atomic!Next

LEMMA EndCommits ==
  ASSUME RefInv, NEW t \in Thread, tm_end(t)
  PROVE  Atomic!Commit(t)
<1> USE DEF RefInv, Types
<1>1. phase = "up" /\ phase' = "up"
  BY DEF tm_end, Quiet, Running
<1>2. Open' = [Open EXCEPT ![t] = "no"]
  BY DEF tm_end, Open, Running
<1>3. View' = [View EXCEPT ![t] = Atomic!Nothing]
  BY DEF tm_end, View, Running, Empty, Atomic!Nothing
<1>4. Base' = [Base EXCEPT ![t] = Atomic!Nothing]
  BY DEF tm_end, Base, Running, InWrite, Empty, Atomic!Nothing
<1>5. Atomic!Close(t)
  BY <1>2, <1>3, <1>4 DEF tm_end, Atomic!Close
<1>6. ~writing'
  BY TransactionLeaves DEF tm_end, Unlock, Counted
<1>7. Db' = mem
  BY <1>1, <1>6 DEF Db, tm_end
<1>8. View[t] = mem /\ Open[t] = mode[t]
  BY DEF tm_end, View, Open
<1>9. CASE writing
  <2>1. InWrite(t)
    BY <1>9 DEF tm_end, Counted, Exclusive, InWrite
  <2>2. Base[t] = Db
    BY <1>1, <1>9, <2>1 DEF Base, Db
  <2> QED
    BY <1>5, <1>7, <1>8, <2>1, <2>2 DEF Atomic!Commit, InWrite
<1>10. CASE ~writing
  <2>1. mode[t] = "ro" /\ Db = mem
    BY <1>1, <1>10 DEF tm_end, Counted, InWrite, Db
  <2> QED
    BY <1>5, <1>7, <1>8, <2>1 DEF Atomic!Commit
<1> QED
  BY <1>9, <1>10

LEMMA DestroyDestroys ==
  ASSUME RefInv, tm_destroy
  PROVE  Atomic!Destroy
<1>1. \A t \in Thread : ~Running(t) /\ ~Running(t)'
  BY DEF tm_destroy, threadVars, Running
<1>2. \A t \in Thread : Open[t] = "no"
  BY <1>1 DEF Open
<1>3. Open' = Open /\ View' = View /\ Base' = Base
  BY <1>1 DEF Open, View, Base, InWrite
<1>4. Db' = Atomic!Nothing
  BY DEF tm_destroy, Db, Empty, Atomic!Nothing
<1> QED
  BY <1>2, <1>3, <1>4 DEF tm_destroy, threadVars, Atomic!Destroy

\* The rest is done where nobody is looking.
LEMMA OthersStutter ==
  ASSUME RefInv,
         (\E t \in Thread : tm_begin(t)) \/ free_segment \/ free_region \/ UNCHANGED refVars
  PROVE  UNCHANGED Mapped
<1> USE DEF RefInv, Types, Mapped
<1>1. ASSUME NEW t \in Thread, tm_begin(t) PROVE UNCHANGED Mapped
  <2>1. \A u \in Thread : (Running(u)' <=> Running(u)) /\ (Running(u) => mode'[u] = mode[u])
    BY <1>1 DEF tm_begin, Running
  <2>2. Open' = Open /\ View' = View /\ Base' = Base
    BY <1>1, <2>1 DEF tm_begin, Open, View, Base, InWrite
  <2> QED
    BY <1>1, <2>2 DEF tm_begin, lockVars, Db
<1>2. CASE free_segment \/ free_region
  <2>1. phase # "up" /\ phase' # "up" /\ UNCHANGED <<pc, got>>
    BY <1>2 DEF free_segment, free_region, threadVars
  <2>2. \A t \in Thread : ~Running(t) /\ ~Running(t)'
    BY <2>1 DEF Quiet, Running
  <2>3. Open' = Open /\ View' = View /\ Base' = Base
    BY <2>2 DEF Open, View, Base, InWrite
  <2> QED
    BY <2>1, <2>3 DEF Db
<1>3. CASE UNCHANGED refVars
  BY <1>3 DEF refVars, lockVars, threadVars, Db, Open, View, Base, Running, InWrite
<1> QED
  BY <1>1, <1>2, <1>3

LEMMA StepMaps ==
  ASSUME RefInv, [RefNext]_refVars
  PROVE  [Atomic!Next]_Mapped
<1>1. ASSUME NEW t \in Thread, Transaction(t) PROVE Atomic!Next \/ UNCHANGED Mapped
  <2>1. CASE tm_begin(t)
    BY <2>1, OthersStutter
  <2>2. CASE rdlock(t)
    BY <2>2, ReaderBegins DEF Atomic!Next
  <2>3. CASE wrlock(t)
    BY <2>3, WriterBegins DEF Atomic!Next
  <2>4. CASE tm_end(t)
    BY <2>4, EndCommits DEF Atomic!Next
  <2>5. CASE \E a \in DOMAIN mem : tm_read(t, a) \/ \E v \in Val : tm_write(t, a, v)
    BY <2>5, ReadReads, WriteWrites
  <2>6. CASE \E s \in Segment : tm_alloc(t, s) \/ tm_free(t, s)
    BY <2>6, AllocAllocates, FreeFrees
  <2> QED
    BY <1>1, <2>1, <2>2, <2>3, <2>4, <2>5, <2>6 DEF Transaction
<1>2. CASE tm_destroy
  BY <1>2, DestroyDestroys DEF Atomic!Next
<1>3. CASE free_segment \/ free_region \/ UNCHANGED refVars
  BY <1>3, OthersStutter
<1> QED
  BY <1>1, <1>2, <1>3 DEF RefNext

(* One lock makes the region an atomic memory: each transaction of the     *)
(* reference begins, reads, changes its copy and commits as AtomicMemory   *)
(* has it, and none is ever aborted.                                       *)
THEOREM ReferenceIsAtomic == RefSpec => RunsAtomically
BY InitMaps, RefInvariant, StepMaps, PTL
DEF RefSpec, RunsAtomically, Atomic!Spec, Atomic!vars, Mapped
=============================================================================
