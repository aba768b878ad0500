----------------------------- MODULE TL2Proofs ------------------------------
(***************************************************************************)
(* The transactional memory of TL2, for any number of threads: types, the  *)
(* ownership of the spinlocks, the versions, the memory, and what          *)
(* transactions read.                                                      *)
(*                                                                         *)
(* Locks: each step of a thread either keeps what is held and the lock     *)
(* bits, or takes one free spinlock for one more node, or frees the        *)
(* spinlock of one node it gives up (Keeps, Takes, Drops), given where the *)
(* cursors of the loops of tm_end can stand (CursorInv).                   *)
(*                                                                         *)
(* Memory: the version of a spinlock never goes back, a word holds the     *)
(* store of the highest write version, and what a transaction reads is     *)
(* words of the snapshot at rv, and for one that commits, of the snapshot  *)
(* before wv, but for the words it missed.                                 *)
(***************************************************************************)
EXTENDS TL2Inv, SequenceTheorems, TLAPS

(* The write set: what its operations return and preserve.                 *)

WriteList(A, V) == Seq(WriteNode(A, V))

(* A node of a list has an address and a value, at a position >= 1.        *)
LEMMA NodeType ==
  ASSUME NEW A, NEW V, NEW ws \in WriteList(A, V), NEW i \in DOMAIN ws
  PROVE  /\ ws[i] \in WriteNode(A, V)
         /\ ws[i].address \in A
         /\ ws[i].value \in V
         /\ i \in Nat \ {0} /\ i <= Len(ws)
<1>1. ws \in Seq(WriteNode(A, V))
  BY DEF WriteList
<1>2. Len(ws) \in Nat /\ i \in 1 .. Len(ws)
  BY <1>1, LenProperties
<1>3. ws[i] \in WriteNode(A, V)
  BY <1>1, <1>2, ElementOfSeq
<1> QED BY <1>2, <1>3 DEF WriteNode

(* write_node_find returns a node of the address, or NULL if there is none.*)
LEMMA FindReturns ==
  ASSUME NEW A, NEW V, NEW ws \in WriteList(A, V), NEW a
  PROVE  LET i == write_node_find(ws, a)
         IN  /\ i # NULL => i \in DOMAIN ws /\ ws[i].address = a
             /\ i = NULL => \A j \in DOMAIN ws : ws[j].address # a
<1>1. CASE \E j \in DOMAIN ws : ws[j].address = a
  <2>1. write_node_find(ws, a) \in DOMAIN ws /\ ws[write_node_find(ws, a)].address = a
    BY <1>1 DEF write_node_find
  <2>2. write_node_find(ws, a) # NULL
    BY <2>1, NodeType DEF NULL
  <2> QED BY <2>1, <2>2
<1>2. CASE ~ \E j \in DOMAIN ws : ws[j].address = a
  BY <1>2 DEF write_node_find, NULL
<1> QED BY <1>1, <1>2

(* The two branches of WritePut: where it adds, and where it overwrites,   *)
(* which leaves the length and every address alone.                        *)
LEMMA AddReturns ==
  ASSUME NEW A, NEW V, NEW ws \in WriteList(A, V), NEW a \in A, NEW v \in V
  PROVE  LET new == write_set_add(ws, a, v)
         IN  /\ new \in WriteList(A, V)
             /\ Len(new) = Len(ws) + 1
             /\ \A i \in DOMAIN ws : i \in DOMAIN new /\ new[i] = ws[i]
             /\ \A i \in DOMAIN new : i \in DOMAIN ws \/ (new[i].address = a /\ i = Len(new))
<1> DEFINE node == [address |-> a, value |-> v]
<1>1. ws \in Seq(WriteNode(A, V)) /\ node \in WriteNode(A, V)
  BY DEF WriteList, WriteNode
<1>2. write_set_add(ws, a, v) = Append(ws, node)
  BY DEF write_set_add
<1>3. Len(ws) \in Nat /\ DOMAIN ws = 1 .. Len(ws)
  BY <1>1, LenProperties
<1>4. /\ Append(ws, node) \in Seq(WriteNode(A, V))
      /\ Len(Append(ws, node)) = Len(ws) + 1
      /\ DOMAIN Append(ws, node) = 1 .. (Len(ws) + 1)
      /\ \A i \in 1 .. Len(ws) : Append(ws, node)[i] = ws[i]
      /\ Append(ws, node)[Len(ws) + 1] = node
  <2> HIDE DEF node
  <2> QED BY <1>1, <1>3, AppendProperties
<1> QED BY <1>2, <1>3, <1>4 DEF WriteList

\* write_node_overwrite changes no address and no other node.
LEMMA OverwriteReturns ==
  ASSUME NEW A, NEW V, NEW ws \in WriteList(A, V), NEW k \in DOMAIN ws, NEW v \in V
  PROVE  LET new == write_node_overwrite(ws, k, v)
         IN  /\ new \in WriteList(A, V)
             /\ DOMAIN new = DOMAIN ws
             /\ \A i \in DOMAIN ws : new[i].address = ws[i].address
<1> DEFINE node == [address |-> ws[k].address, value |-> v]
<1>1. ws[k] \in WriteNode(A, V) /\ node \in WriteNode(A, V)
  BY NodeType DEF WriteNode
<1>2. [ws[k] EXCEPT !.value = v] = node
  BY <1>1 DEF WriteNode
<1>3. write_node_overwrite(ws, k, v) = [ws EXCEPT ![k] = node]
  BY <1>2 DEF write_node_overwrite
<1>4. ws \in Seq(WriteNode(A, V)) /\ k \in 1 .. Len(ws)
  BY LenProperties DEF WriteList
<1>5. [ws EXCEPT ![k] = node] \in Seq(WriteNode(A, V))
  <2> HIDE DEF node
  <2> QED BY <1>1, <1>4, ExceptSeq
<1> QED BY <1>3, <1>5 DEF WriteList

(* tm_write keeps the list well formed with one node per address.          *)
LEMMA PutReturns ==
  ASSUME NEW A, NEW V, NEW ws \in WriteList(A, V), NEW a \in A, NEW v \in V
  PROVE  /\ WritePut(ws, a, v) \in WriteList(A, V)
         /\ Distinct(ws) => Distinct(WritePut(ws, a, v))
<1> DEFINE k == write_node_find(ws, a)
<1>1. CASE k = NULL
  <2>1. WritePut(ws, a, v) = write_set_add(ws, a, v)
    BY <1>1 DEF WritePut
  <2>2. \A j \in DOMAIN ws : ws[j].address # a
    BY <1>1, FindReturns
  <2> QED BY <2>1, <2>2, AddReturns DEF Distinct
<1>2. CASE k # NULL
  <2>1. WritePut(ws, a, v) = write_node_overwrite(ws, k, v)
    BY <1>2 DEF WritePut
  <2>2. k \in DOMAIN ws
    BY <1>2, FindReturns
  <2> HIDE DEF k
  <2> QED BY <2>1, <2>2, OverwriteReturns DEF Distinct
<1> QED BY <1>1, <1>2
-----------------------------------------------------------------------------
(* The transactions.                                                       *)

\* find_lock always names a spinlock of the table.
LEMMA FindLockType == \A a \in Addr : find_lock(a) \in Stripe
  BY LockAssumption, TL2Assumption DEF find_lock, Stripe

\* The idle value of word has the type of a word.
LEMMA NoWordType == NoWord \in WriteNode(Addr, Val)
  BY TL2Assumption DEF NoWord, WriteNode

\* tm_create leaves every variable in its type.
LEMMA InitType == Init => TypeOK
<1>1. /\ [t \in Thread |-> <<>>] \in [Thread -> Seq(Addr)]
      /\ [t \in Thread |-> <<>>] \in [Thread -> Seq(WriteNode(Addr, Val))]
  OBVIOUS
<1>2. 0 \in Val
  BY TL2Assumption
<1>3. 0 \in 0 .. SpinLimit + 1
  BY LockAssumption
<1> QED BY <1>1, <1>2, <1>3, NoWordType DEF Init, TypeOK, shared_lock_init, Label

\* Taking or releasing a lock keeps the lock bits Boolean.
LEMMA LockBitType ==
  ASSUME locked \in [Stripe -> BOOLEAN], NEW s,
         LockExchange(s) \/ versioned_spinlock_release(s)
  PROVE  locked' \in [Stripe -> BOOLEAN]
  BY DEF LockExchange, versioned_spinlock_release

\* Cleaning a transaction up keeps every type.
LEMMA FreeType ==
  ASSUME TypeOK, NEW t \in Thread, transaction_free(t),
         UNCHANGED <<clock, version, mem>>, locked' \in [Stripe -> BOOLEAN]
  PROVE  TypeOK'
<1>1. /\ <<>> \in Seq(Addr) /\ <<>> \in Seq(WriteNode(Addr, Val))
      /\ 0 \in 0 .. SpinLimit + 1
  BY LockAssumption
<1> QED BY <1>1, NoWordType DEF TypeOK, transaction_free, Goto, Label

\* So does setting the cursor up for unlock_write_set.
LEMMA UnlockAllType ==
  ASSUME TypeOK, NEW t \in Thread, UnlockAll(t)
  PROVE  /\ pc' \in [Thread -> Label]
         /\ cur' \in [Thread -> Nat \ {0}]
         /\ stop' \in [Thread -> Nat \ {0}]
<1>1. Len(wset[t]) + 1 \in Nat \ {0}
  BY LenProperties DEF TypeOK
<1> QED BY <1>1 DEF UnlockAll, TypeOK, Goto, Label

\* Every step of every thread keeps every variable in its type.
LEMMA StepType == TypeOK /\ [Next]_vars => TypeOK'
<1> SUFFICES ASSUME TypeOK, [Next]_vars PROVE TypeOK'
  OBVIOUS
<1>1. CASE UNCHANGED vars
  BY <1>1 DEF TypeOK, vars, lockVars, locals, history
<1>2. ASSUME NEW t \in Thread, Call(t) PROVE TypeOK'
  <2>1. ASSUME NEW ro \in BOOLEAN, tm_begin(t, ro) PROVE TypeOK'
    BY <2>1 DEF TypeOK, tm_begin, Goto, Label, lockVars
  <2>2. ASSUME NEW a \in Addr, tm_read(t, a) PROVE TypeOK'
    <3>1. word' \in [Thread -> WriteNode(Addr, Val)]
      <4> DEFINE i == write_node_find(wset[t], a)
      <4>1. CASE IsOwnWrite(t, a)
        <5>1. wset[t] \in WriteList(Addr, Val)
          BY DEF TypeOK, WriteList
        <5>2. i \in DOMAIN wset[t]
          BY <4>1, <5>1, FindReturns DEF IsOwnWrite
        <5>3. wset[t][i].value \in Val
          BY <5>1, <5>2, NodeType
        <5> HIDE DEF i
        <5>4. [address |-> a, value |-> wset[t][i].value] \in WriteNode(Addr, Val)
          BY <5>3 DEF WriteNode
        <5> QED BY <4>1, <5>4, <2>2 DEF TypeOK, tm_read, read_set_add, i
      <4>2. CASE ~IsOwnWrite(t, a)
        <5>1. [address |-> a, value |-> mem[a]] \in WriteNode(Addr, Val)
          BY DEF TypeOK, WriteNode
        <5>2. word' = [word EXCEPT ![t] = [address |-> a, value |-> mem[a]]]
          BY <4>2, <2>2 DEF tm_read, read_set_add
        <5> QED BY <5>1, <5>2 DEF TypeOK
      <4> QED BY <4>1, <4>2
    <3>2. Append(rset[t], a) \in Seq(Addr)
      BY DEF TypeOK
    <3>3. rset' \in [Thread -> Seq(Addr)]
      <4>1. rset' \in {rset, [rset EXCEPT ![t] = Append(@, a)]}
        BY <2>2 DEF tm_read, read_set_add
      <4>2. rset \in [Thread -> Seq(Addr)]
        BY DEF TypeOK
      <4> QED BY ONLY <3>2, <4>1, <4>2
    <3> QED BY <2>2, <3>1, <3>3 DEF TypeOK, tm_read, read_set_add, Goto, Label, lockVars, history
  <2>3. ASSUME NEW a \in Addr, NEW v \in Val, tm_write(t, a, v) PROVE TypeOK'
    <3>1. WritePut(wset[t], a, v) \in Seq(WriteNode(Addr, Val))
      BY PutReturns DEF TypeOK, WriteList
    <3> QED BY <2>3, <3>1 DEF TypeOK, tm_write, lockVars, history
  <2>4. CASE write_set_add_fails(t)
    BY <2>4, FreeType DEF write_set_add_fails, TypeOK, lockVars
  <2>5. CASE tm_end(t)
    <3>1. CASE is_ro[t]
      BY <2>5, <3>1, FreeType DEF tm_end, TypeOK, lockVars
    <3>2. CASE ~is_ro[t]
      BY <2>5, <3>2 DEF tm_end, TypeOK, lockVars, locals, history, Goto, Label
    <3> QED BY <3>1, <3>2
  <2> QED BY <1>2, <2>1, <2>2, <2>3, <2>4, <2>5 DEF Call
<1>3. ASSUME NEW t \in Thread, Proceed(t) PROVE TypeOK'
  <2>1. CASE read_lock(t)
    <3>1. CASE SeesLocked(find_lock(word[t].address))
      BY <2>1, <3>1, FreeType DEF read_lock, TypeOK, lockVars
    <3>2. CASE ~SeesLocked(find_lock(word[t].address))
      BY <2>1, <3>2 DEF read_lock, TypeOK, lockVars, locals, history, Goto, Label
    <3> QED BY <3>1, <3>2
  <2>2. CASE read_version(t)
    <3>1. CASE SeesNewer(find_lock(word[t].address), rv[t])
      BY <2>2, <3>1, FreeType DEF read_version, TypeOK, lockVars
    <3>2. CASE ~SeesNewer(find_lock(word[t].address), rv[t])
      <4>1. /\ UNCHANGED <<lockVars, mem, is_ro, rv, rset, wset, wv, cur, stop, bound,
                           hist, missed>>
            /\ pc' = [pc EXCEPT ![t] = "running"]
            /\ word' = [word EXCEPT ![t] = NoWord]
            /\ obs' \in {obs, [obs EXCEPT ![t] = @ \cup {word[t]}]}
        BY <2>2, <3>2 DEF read_version, Goto
      <4>2. word[t] \in WriteNode(Addr, Val)
        BY DEF TypeOK
      <4>3. obs' \in [Thread -> SUBSET WriteNode(Addr, Val)]
        <5>1. obs[t] \cup {word[t]} \in SUBSET WriteNode(Addr, Val)
          BY <4>2 DEF TypeOK
        <5> QED BY <4>1, <5>1 DEF TypeOK
      <4> QED BY <4>1, <4>3, NoWordType DEF TypeOK, lockVars, Label
    <3> QED BY <3>1, <3>2
  <2>3. CASE acquire(t)
    <3>1. locked' \in [Stripe -> BOOLEAN]
      BY <2>3, LockBitType DEF acquire, TypeOK
    <3>2. cur[t] + 1 \in Nat \ {0} /\ 0 \in 0 .. SpinLimit + 1
      BY LockAssumption DEF TypeOK
    <3>3. pc' \in [Thread -> Label]
      <4>1. pc' \in {pc, [pc EXCEPT ![t] = "spin"]}
        BY <2>3 DEF acquire, Goto
      <4> QED BY <4>1 DEF TypeOK, Label
    <3>5. cur' \in [Thread -> Nat \ {0}]
      BY <2>3, <3>2 DEF acquire, TypeOK
    <3>4. bound' \in [Thread -> 0 .. SpinLimit + 1]
      BY <2>3, <3>2 DEF acquire, TypeOK
    <3> QED BY <2>3, <3>1, <3>3, <3>4, <3>5 DEF acquire, TypeOK, history
  <2>4. CASE spin(t)
    <3>1. CASE SpinOver(bound[t])
      <4>1. /\ UNCHANGED <<lockVars, mem, is_ro, rv, rset, wset, wv, word, history>>
            /\ pc' = [pc EXCEPT ![t] = "unlock"]
            /\ stop' = [stop EXCEPT ![t] = cur[t]]
            /\ cur' = [cur EXCEPT ![t] = 1]
            /\ bound' = [bound EXCEPT ![t] = 0]
        BY <2>4, <3>1 DEF spin, CountLook, Goto
      <4>2. 0 \in 0 .. SpinLimit + 1 /\ 1 \in Nat \ {0} /\ cur[t] \in Nat \ {0}
        BY LockAssumption DEF TypeOK
      <4> QED BY <4>1, <4>2 DEF TypeOK, lockVars, history, Label
    <3>2. CASE ~SpinOver(bound[t])
      <4>1. bound[t] + 1 \in 0 .. SpinLimit + 1
        BY <3>2, LockAssumption DEF SpinOver, CountLook, TypeOK
      <4>2. /\ UNCHANGED <<lockVars, mem, is_ro, rv, rset, wset, wv, cur, stop, word, history>>
            /\ bound' = [bound EXCEPT ![t] = @ + 1]
            /\ pc' \in {[pc EXCEPT ![t] = "spin"], [pc EXCEPT ![t] = "acquire"]}
        BY <2>4, <3>2 DEF spin, CountLook, Goto
      <4> QED BY <4>1, <4>2 DEF TypeOK, lockVars, history, Label
    <3> QED BY <3>1, <3>2
  <2>5. CASE unlock(t)
    <3>1. CASE cur[t] # stop[t]
      <4>1. locked' \in [Stripe -> BOOLEAN]
        BY <2>5, <3>1, LockBitType DEF unlock, TypeOK
      <4>2. /\ UNCHANGED <<clock, version, mem, pc, is_ro, rv, rset, wset, wv, stop,
                           bound, word, history>>
            /\ cur' = [cur EXCEPT ![t] = @ + 1]
        BY <2>5, <3>1 DEF unlock
      <4> QED BY <4>1, <4>2 DEF TypeOK, history
    <3>2. CASE cur[t] = stop[t]
      BY <2>5, <3>2, FreeType DEF unlock, TypeOK
    <3> QED BY <3>1, <3>2
  <2>6. CASE increment(t)
    BY <2>6 DEF increment, IncrementedClock, ToValidate, TypeOK, history, Goto, Label
  <2>7. CASE validate_lock(t)
    <3>1. CASE UnlockAll(t)
      BY <2>7, <3>1, UnlockAllType DEF validate_lock, TypeOK, lockVars, history
    <3>2. CASE ~UnlockAll(t)
      <4>1. /\ pc' \in {[pc EXCEPT ![t] = "store"], [pc EXCEPT ![t] = "validate_version"]}
            /\ cur' \in {cur, [cur EXCEPT ![t] = 1]}
            /\ UNCHANGED stop
        BY <2>7, <3>2 DEF validate_lock, Goto
      <4>2. pc' \in [Thread -> Label]
        BY <4>1 DEF TypeOK, Label
      <4>4. cur' \in [Thread -> Nat \ {0}]
        BY <4>1 DEF TypeOK
      <4>3. UNCHANGED <<lockVars, mem, is_ro, rv, rset, wset, wv, bound, word, history>>
        BY <2>7 DEF validate_lock
      <4> QED BY <4>1, <4>2, <4>3, <4>4 DEF TypeOK, lockVars, history
    <3> QED BY <3>1, <3>2
  <2>8. CASE validate_version(t)
    <3>1. CASE UnlockAll(t)
      BY <2>8, <3>1, UnlockAllType DEF validate_version, TypeOK, lockVars, history
    <3>2. CASE ~UnlockAll(t)
      <4>1. /\ pc' = [pc EXCEPT ![t] = "validate_lock"]
            /\ cur' = [cur EXCEPT ![t] = @ + 1]
            /\ UNCHANGED stop
        BY <2>8, <3>2 DEF validate_version, Goto
      <4>2. cur[t] + 1 \in Nat \ {0}
        BY DEF TypeOK
      <4>3. UNCHANGED <<lockVars, mem, is_ro, rv, rset, wset, wv, bound, word, history>>
        BY <2>8 DEF validate_version
      <4> QED BY <4>1, <4>2, <4>3 DEF TypeOK, lockVars, history, Label
    <3> QED BY <3>1, <3>2
  <2>9. CASE store(t)
    <3>1. CASE cur[t] <= Len(wset[t])
      <4>1. wset[t][cur[t]] \in WriteNode(Addr, Val)
        BY <3>1 DEF TypeOK
      <4> DEFINE node == wset[t][cur[t]]
      <4>2. node.address \in Addr /\ node.value \in Val
        BY <4>1 DEF WriteNode
      <4> HIDE DEF node
      <4>3. /\ mem' = [mem EXCEPT ![node.address] = node.value]
            /\ hist' = [hist EXCEPT ![node.address] =
                           @ \cup {[wv |-> wv[t], value |-> node.value]}]
            /\ pc' = [pc EXCEPT ![t] = "update"]
            /\ UNCHANGED <<locals, obs, missed, lockVars>>
        BY <2>9, <3>1 DEF store, Goto, node
      <4> QED BY <4>2, <4>3 DEF TypeOK, Label, lockVars, locals
    <3>2. CASE ~(cur[t] <= Len(wset[t]))
      BY <2>9, <3>2, FreeType DEF store, TypeOK, lockVars
    <3> QED BY <3>1, <3>2
  <2>10. CASE update(t)
    BY <2>10 DEF update, versioned_spinlock_update, TypeOK, locals, history, Goto, Label
  <2>11. CASE release(t)
    <3>1. locked' \in [Stripe -> BOOLEAN]
      BY <2>11, LockBitType DEF release, TypeOK
    <3> QED BY <2>11, <3>1 DEF release, TypeOK, history, Goto, Label
  <2> QED BY <1>3, <2>1, <2>2, <2>3, <2>4, <2>5, <2>6, <2>7, <2>8, <2>9, <2>10, <2>11
       DEF Proceed
<1> QED BY <1>1, <1>2, <1>3 DEF Next

\* Every variable has its type in every reachable state: the cursors of
\* tm_end stay positive and the spin counter never passes its limit.
THEOREM TypeCorrect == Spec => []TypeOK
  BY InitType, StepType, PTL DEF Spec
-----------------------------------------------------------------------------
(* Where the cursor of a transaction stands.                               *)
CursorOK(t) ==
    /\ pc[t] \in {"idle", "running", "read_lock", "read_version"} => cur[t] = 1
    /\ pc[t] \in {"acquire", "store"} => cur[t] <= Len(wset[t]) + 1
    /\ pc[t] \in {"spin", "update", "release"} => cur[t] <= Len(wset[t])
    /\ pc[t] = "unlock" => cur[t] <= stop[t] /\ stop[t] <= Len(wset[t]) + 1

CursorInv == \A t \in Thread : CursorOK(t)

(* A step of t leaves the local variables of the other threads alone.      *)
Frame(t) ==
    \A u \in Thread \ {t} :
        /\ pc'[u] = pc[u] /\ is_ro'[u] = is_ro[u] /\ rv'[u] = rv[u] /\ rset'[u] = rset[u]
        /\ wset'[u] = wset[u] /\ wv'[u] = wv[u] /\ cur'[u] = cur[u] /\ stop'[u] = stop[u]
        /\ bound'[u] = bound[u] /\ word'[u] = word[u]
        /\ obs'[u] = obs[u] /\ missed'[u] = missed[u]

\* The frame of a freed transaction: no other thread is touched.
LEMMA FreeFrame ==
  ASSUME TypeOK, NEW t \in Thread, transaction_free(t)
  PROVE  Frame(t)
  BY DEF TypeOK, transaction_free, Goto, Frame

\* The calls of t leave the transactions of other threads alone.
LEMMA CallFrame ==
  ASSUME TypeOK, NEW t \in Thread, Call(t)
  PROVE  Frame(t)
<1>1. ASSUME NEW ro \in BOOLEAN, tm_begin(t, ro) PROVE Frame(t)
  BY <1>1 DEF TypeOK, tm_begin, Goto, Frame
<1>2. ASSUME NEW a \in Addr, tm_read(t, a) PROVE Frame(t)
  BY <1>2 DEF TypeOK, tm_read, read_set_add, Goto, Frame, history
<1>3. ASSUME NEW a \in Addr, NEW v \in Val, tm_write(t, a, v) PROVE Frame(t)
  BY <1>3 DEF TypeOK, tm_write, Frame, history
<1>4. CASE write_set_add_fails(t)
  BY <1>4, FreeFrame DEF write_set_add_fails
<1>5. CASE tm_end(t)
  BY <1>5, FreeFrame DEF tm_end, TypeOK, Goto, Frame, locals, history
<1> QED BY <1>1, <1>2, <1>3, <1>4, <1>5 DEF Call

\* So do the steps t goes on with.
LEMMA ProceedFrame ==
  ASSUME TypeOK, NEW t \in Thread, Proceed(t)
  PROVE  Frame(t)
<1>1. CASE read_lock(t)
  BY <1>1, FreeFrame DEF read_lock, TypeOK, Goto, Frame, locals, history
<1>2. CASE read_version(t)
  BY <1>2, FreeFrame DEF read_version, TypeOK, Goto, Frame
<1>3. CASE acquire(t)
  BY <1>3 DEF acquire, TypeOK, Goto, Frame, history
<1>4. CASE spin(t)
  BY <1>4 DEF spin, TypeOK, Goto, Frame, history
<1>5. CASE unlock(t)
  BY <1>5, FreeFrame DEF unlock, TypeOK, Frame, history
<1>6. CASE increment(t)
  BY <1>6 DEF increment, TypeOK, Goto, Frame, history
<1>7. CASE validate_lock(t)
  BY <1>7 DEF validate_lock, UnlockAll, TypeOK, Goto, Frame, history
<1>8. CASE validate_version(t)
  BY <1>8 DEF validate_version, UnlockAll, TypeOK, Goto, Frame, history
<1>9. CASE store(t)
  BY <1>9, FreeFrame DEF store, TypeOK, Goto, Frame, locals
<1>10. CASE update(t)
  BY <1>10 DEF update, TypeOK, Goto, Frame, locals, history
<1>11. CASE release(t)
  BY <1>11 DEF release, TypeOK, Goto, Frame, history
<1> QED BY <1>1, <1>2, <1>3, <1>4, <1>5, <1>6, <1>7, <1>8, <1>9, <1>10, <1>11 DEF Proceed
-----------------------------------------------------------------------------
\* A freed transaction has its cursor at the head of its lists.
LEMMA FreeCursor ==
  ASSUME TypeOK, NEW t \in Thread, transaction_free(t)
  PROVE  CursorOK(t)' /\ pc'[t] = "idle" /\ cur'[t] = 1
  BY DEF TypeOK, transaction_free, Goto, CursorOK

\* The calls of t keep the cursor inside the write set.
LEMMA CallCursor ==
  ASSUME TypeOK, CursorInv, NEW t \in Thread, Call(t)
  PROVE  CursorOK(t)'
<1> CursorOK(t)
  BY DEF CursorInv
<1>1. ASSUME NEW ro \in BOOLEAN, tm_begin(t, ro) PROVE CursorOK(t)'
  BY <1>1 DEF TypeOK, tm_begin, Goto, CursorOK
<1>2. ASSUME NEW a \in Addr, tm_read(t, a) PROVE CursorOK(t)'
  BY <1>2 DEF TypeOK, tm_read, read_set_add, Goto, CursorOK, history
<1>3. ASSUME NEW a \in Addr, NEW v \in Val, tm_write(t, a, v) PROVE CursorOK(t)'
  BY <1>3 DEF TypeOK, tm_write, CursorOK, history
<1>4. CASE write_set_add_fails(t)
  BY <1>4, FreeCursor DEF write_set_add_fails
<1>5. CASE tm_end(t)
  <2>1. CASE is_ro[t]
    BY <1>5, <2>1, FreeCursor DEF tm_end
  <2>2. CASE ~is_ro[t]
    <3>1. /\ pc[t] = "running" /\ pc'[t] = "acquire" /\ cur'[t] = cur[t] /\ wset'[t] = wset[t]
      BY <1>5, <2>2 DEF tm_end, TypeOK, Goto, locals
    <3>2. Len(wset[t]) \in Nat
      BY LenProperties DEF TypeOK
    <3> QED BY <3>1, <3>2 DEF CursorOK
  <2> QED BY <2>1, <2>2
<1> QED BY <1>1, <1>2, <1>3, <1>4, <1>5 DEF Call

\* So do the steps of tm_end.
LEMMA ProceedCursor ==
  ASSUME TypeOK, CursorInv, NEW t \in Thread, Proceed(t)
  PROVE  CursorOK(t)'
<1> CursorOK(t)
  BY DEF CursorInv
<1> Len(wset[t]) \in Nat /\ cur[t] \in Nat \ {0} /\ stop[t] \in Nat \ {0}
  BY LenProperties DEF TypeOK
<1>1. CASE read_lock(t)
  BY <1>1, FreeCursor DEF read_lock, TypeOK, Goto, CursorOK, locals, history
<1>2. CASE read_version(t)
  BY <1>2, FreeCursor DEF read_version, TypeOK, Goto, CursorOK
<1>3. CASE acquire(t)
  BY <1>3 DEF acquire, TypeOK, Goto, CursorOK, history
<1>4. CASE spin(t)
  BY <1>4 DEF spin, TypeOK, Goto, CursorOK, history
<1>5. CASE unlock(t)
  <2>1. CASE cur[t] # stop[t]
    <3>1. /\ pc[t] = "unlock" /\ pc'[t] = "unlock" /\ cur'[t] = cur[t] + 1
          /\ stop'[t] = stop[t] /\ wset'[t] = wset[t]
      BY <1>5, <2>1 DEF unlock, TypeOK
    <3> QED BY <2>1, <3>1 DEF CursorOK
  <2>2. CASE cur[t] = stop[t]
    BY <1>5, <2>2, FreeCursor DEF unlock
  <2> QED BY <2>1, <2>2
<1>6. CASE increment(t)
  BY <1>6 DEF increment, TypeOK, Goto, CursorOK, history
<1>7. CASE validate_lock(t)
  BY <1>7 DEF validate_lock, UnlockAll, TypeOK, Goto, CursorOK, history
<1>8. CASE validate_version(t)
  BY <1>8 DEF validate_version, UnlockAll, TypeOK, Goto, CursorOK, history
<1>9. CASE store(t)
  BY <1>9, FreeCursor DEF store, TypeOK, Goto, CursorOK, locals
<1>10. CASE update(t)
  BY <1>10 DEF update, TypeOK, Goto, CursorOK, locals, history
<1>11. CASE release(t)
  BY <1>11 DEF release, TypeOK, Goto, CursorOK, history
<1> QED BY <1>1, <1>2, <1>3, <1>4, <1>5, <1>6, <1>7, <1>8, <1>9, <1>10, <1>11 DEF Proceed

\* Every reachable state has its cursors where the code's loops put them.
LEMMA CursorInvariant ==
  /\ Init => CursorInv
  /\ TypeOK /\ CursorInv /\ [Next]_vars => CursorInv'
<1>1. Init => CursorInv
  BY DEF Init, CursorInv, CursorOK
<1>2. ASSUME TypeOK, CursorInv, [Next]_vars PROVE CursorInv'
  <2>1. CASE UNCHANGED vars
    BY <1>2, <2>1 DEF CursorInv, CursorOK, vars, locals
  <2>2. ASSUME NEW t \in Thread, Call(t) \/ Proceed(t) PROVE CursorInv'
    <3>1. Frame(t)
      BY <1>2, <2>2, CallFrame, ProceedFrame
    <3>2. CursorOK(t)'
      BY <1>2, <2>2, CallCursor, ProceedCursor
    <3> QED BY <1>2, <3>1, <3>2 DEF Frame, CursorInv, CursorOK
  <2> QED BY <1>2, <2>1, <2>2 DEF Next
<1> QED BY <1>1, <1>2
-----------------------------------------------------------------------------
(* What a step does to the locks: it keeps them, takes the one of a node   *)
(* that was free, or drops the one of a node that has it.                  *)
SameNodes ==
    \A u \in Thread : \A i : Holds(u, i) => wset'[u][i] = wset[u][i]

Keeps ==
    /\ UNCHANGED locked
    /\ SameNodes
    /\ \A u \in Thread : \A i : Holds(u, i)' <=> Holds(u, i)

Takes(t, k) ==
    /\ k \in DOMAIN wset[t]
    /\ ~locked[NodeStripe(t, k)]
    /\ locked' = [locked EXCEPT ![NodeStripe(t, k)] = TRUE]
    /\ UNCHANGED wset
    /\ \A u \in Thread : \A i : Holds(u, i)' <=> Holds(u, i) \/ (u = t /\ i = k)

Drops(t, k) ==
    /\ Holds(t, k)
    /\ locked' = [locked EXCEPT ![NodeStripe(t, k)] = FALSE]
    /\ UNCHANGED wset
    /\ \A u \in Thread : \A i : Holds(u, i)' <=> Holds(u, i) /\ ~(u = t /\ i = k)

\* Holds speaks of nodes of the write set only.
LEMMA HeldNode ==
  ASSUME TypeOK, NEW t \in Thread, NEW i \in DOMAIN wset[t]
  PROVE  NodeStripe(t, i) \in Stripe
<1>1. wset[t] \in WriteList(Addr, Val)
  BY DEF TypeOK, WriteList
<1> QED BY <1>1, NodeType, FindLockType DEF NodeStripe

\* A step that changes no lock bit and no holder keeps LockOwnership.
LEMMA KeepsOwnership ==
  ASSUME LockOwnership, Keeps
  PROVE  LockOwnership'
<1>1. \A u \in Thread : \A i : Holds(u, i) => i \in DOMAIN wset[u] /\ i \in (DOMAIN wset[u])'
  BY DEF Keeps, Holds
<1>2. \A u \in Thread : \A i : Holds(u, i) => NodeStripe(u, i)' = NodeStripe(u, i)
  BY DEF Keeps, SameNodes, NodeStripe
<1>3. \A u \in Thread : \A i : Holds(u, i)' <=> Holds(u, i)
  BY DEF Keeps
<1> QED BY <1>1, <1>2, <1>3 DEF LockOwnership, TakenIffHeld, OneHolder, Keeps

\* A step by which t takes a free lock for one more node keeps it.
LEMMA TakesOwnership ==
  ASSUME TypeOK, LockOwnership, NEW t \in Thread, NEW k, Takes(t, k)
  PROVE  LockOwnership'
<1>1. \A u \in Thread : \A i : NodeStripe(u, i)' = NodeStripe(u, i)
  BY DEF Takes, NodeStripe
<1>2. \A u \in Thread : \A i : Holds(u, i)' <=> Holds(u, i) \/ (u = t /\ i = k)
  BY DEF Takes
<1>3. NodeStripe(t, k) \in Stripe
  BY HeldNode DEF Takes
<1>4. \A s \in Stripe : locked'[s] = IF s = NodeStripe(t, k) THEN TRUE ELSE locked[s]
  BY DEF TypeOK, Takes
<1>5. wset' = wset /\ k \in DOMAIN wset[t] /\ ~locked[NodeStripe(t, k)]
  BY DEF Takes
<1>6. \A u \in Thread : \A i \in DOMAIN wset[u] :
         Holds(u, i) => NodeStripe(u, i) # NodeStripe(t, k)
  BY <1>3, <1>5 DEF LockOwnership, TakenIffHeld
<1>7. TakenIffHeld'
  <2> SUFFICES ASSUME NEW s \in Stripe
               PROVE  locked'[s] <=> \E u \in Thread : \E i \in DOMAIN wset[u] :
                                        Holds(u, i)' /\ NodeStripe(u, i) = s
    BY <1>1, <1>5 DEF TakenIffHeld
  <2>1. CASE s = NodeStripe(t, k)
    BY <1>2, <1>4, <1>5, <2>1
  <2>2. CASE s # NodeStripe(t, k)
    BY <1>2, <1>4, <2>2 DEF LockOwnership, TakenIffHeld
  <2> QED BY <2>1, <2>2
<1>8. OneHolder'
  BY <1>1, <1>2, <1>5, <1>6 DEF LockOwnership, OneHolder
<1> QED BY <1>7, <1>8 DEF LockOwnership

\* A step by which t gives up one node and frees its lock keeps it.
LEMMA DropsOwnership ==
  ASSUME TypeOK, LockOwnership, NEW t \in Thread, NEW k, Drops(t, k)
  PROVE  LockOwnership'
<1>1. \A u \in Thread : \A i : NodeStripe(u, i)' = NodeStripe(u, i)
  BY DEF Drops, NodeStripe
<1>2. \A u \in Thread : \A i : Holds(u, i)' <=> Holds(u, i) /\ ~(u = t /\ i = k)
  BY DEF Drops
<1>3. Holds(t, k) /\ k \in DOMAIN wset[t] /\ NodeStripe(t, k) \in Stripe
  BY HeldNode DEF Drops, Holds
<1>4. \A s \in Stripe : locked'[s] = IF s = NodeStripe(t, k) THEN FALSE ELSE locked[s]
  BY DEF TypeOK, Drops
<1>5. wset' = wset
  BY DEF Drops
<1>6. TakenIffHeld'
  <2> SUFFICES ASSUME NEW s \in Stripe
               PROVE  locked'[s] <=> \E u \in Thread : \E i \in DOMAIN wset[u] :
                                        Holds(u, i)' /\ NodeStripe(u, i) = s
    BY <1>1, <1>5 DEF TakenIffHeld
  <2>1. CASE s = NodeStripe(t, k)
    <3>1. ~ \E u \in Thread : \E i \in DOMAIN wset[u] :
               Holds(u, i)' /\ NodeStripe(u, i) = s
      BY <1>2, <1>3, <2>1 DEF LockOwnership, OneHolder
    <3> QED BY <1>4, <2>1, <3>1
  <2>2. CASE s # NodeStripe(t, k)
    BY <1>2, <1>4, <2>2 DEF LockOwnership, TakenIffHeld
  <2> QED BY <2>1, <2>2
<1>7. OneHolder'
  BY <1>1, <1>2, <1>5 DEF LockOwnership, OneHolder
<1> QED BY <1>6, <1>7 DEF LockOwnership

(* The same for a step of t, the other threads left out.                   *)
KeepsOwn(t) ==
    \A i : /\ Holds(t, i)' <=> Holds(t, i)
           /\ Holds(t, i) => wset'[t][i] = wset[t][i]

\* For Keeps it is enough to look at t: the others hold what they held.
LEMMA KeepsOwnSuffices ==
  ASSUME NEW t \in Thread, Frame(t), KeepsOwn(t), UNCHANGED locked
  PROVE  Keeps
  BY DEF Frame, KeepsOwn, Keeps, SameNodes, Holds

\* The same for Takes.
LEMMA TakesOwnSuffices ==
  ASSUME NEW t \in Thread, NEW k \in DOMAIN wset[t], Frame(t), UNCHANGED wset,
         ~locked[NodeStripe(t, k)],
         locked' = [locked EXCEPT ![NodeStripe(t, k)] = TRUE],
         \A i : Holds(t, i)' <=> Holds(t, i) \/ i = k
  PROVE  Takes(t, k)
  BY DEF Frame, Takes, Holds

\* The same for Drops.
LEMMA DropsOwnSuffices ==
  ASSUME NEW t \in Thread, NEW k, Holds(t, k), Frame(t), UNCHANGED wset,
         locked' = [locked EXCEPT ![NodeStripe(t, k)] = FALSE],
         \A i : Holds(t, i)' <=> Holds(t, i) /\ i # k
  PROVE  Drops(t, k)
  BY DEF Frame, Drops, Holds

\* A transaction that holds nothing can be freed.
LEMMA FreeKeeps ==
  ASSUME TypeOK, NEW t \in Thread, transaction_free(t), \A i : ~Holds(t, i)
  PROVE  KeepsOwn(t)
  BY DEF TypeOK, transaction_free, Goto, KeepsOwn, Holds

\* No call takes or frees a lock.
LEMMA CallKeeps ==
  ASSUME TypeOK, CursorInv, NEW t \in Thread, Call(t)
  PROVE  Keeps
<1> USE DEF KeepsOwn
<1>1. Frame(t)
  BY CallFrame
<1>2. CursorOK(t)
  BY DEF CursorInv
<1>3. KeepsOwn(t) /\ UNCHANGED locked
  <2>1. ASSUME NEW ro \in BOOLEAN, tm_begin(t, ro) PROVE KeepsOwn(t) /\ UNCHANGED locked
    BY <2>1 DEF TypeOK, tm_begin, Goto, Holds, lockVars
  <2>2. ASSUME NEW a \in Addr, tm_read(t, a) PROVE KeepsOwn(t) /\ UNCHANGED locked
    BY <2>2 DEF TypeOK, tm_read, read_set_add, Goto, Holds, lockVars
  <2>3. ASSUME NEW a \in Addr, NEW v \in Val, tm_write(t, a, v)
        PROVE  KeepsOwn(t) /\ UNCHANGED locked
    BY <2>3 DEF TypeOK, tm_write, Holds, lockVars
  <2>4. CASE write_set_add_fails(t)
    BY <2>4, FreeKeeps DEF write_set_add_fails, Holds, lockVars
  <2>5. CASE tm_end(t)
    <3>1. CASE is_ro[t]
      BY <2>5, <3>1, FreeKeeps DEF tm_end, Holds, lockVars
    <3>2. CASE ~is_ro[t]
      <4>1. wset' = wset /\ cur' = cur /\ stop' = stop /\ locked' = locked
            /\ pc[t] = "running" /\ pc'[t] = "acquire" /\ cur[t] = 1
        BY <2>5, <3>2, <1>2 DEF tm_end, TypeOK, Goto, locals, lockVars, CursorOK
      <4>2. \A i \in DOMAIN wset[t] : ~(i < 1)
        BY LenProperties DEF TypeOK
      <4> QED BY <4>1, <4>2 DEF Holds
    <3> QED BY <3>1, <3>2
  <2> QED BY <2>1, <2>2, <2>3, <2>4, <2>5 DEF Call
<1> QED BY <1>1, <1>3, KeepsOwnSuffices

\* Every step inside a call keeps, takes one, or drops one lock.
LEMMA ProceedLocks ==
  ASSUME TypeOK, CursorInv, NEW t \in Thread, Proceed(t)
  PROVE  Keeps \/ \E k : Takes(t, k) \/ Drops(t, k)
<1> USE DEF KeepsOwn
<1> DEFINE n == Len(wset[t])
<1>1. Frame(t)
  BY ProceedFrame
<1>2. CursorOK(t)
  BY DEF CursorInv
<1>3. /\ n \in Nat /\ DOMAIN wset[t] = 1 .. n
      /\ cur[t] \in Nat \ {0} /\ stop[t] \in Nat \ {0}
  BY LenProperties DEF TypeOK
<1>4. CASE read_lock(t)
  <2>1. KeepsOwn(t) /\ UNCHANGED locked
    BY <1>4, FreeKeeps DEF read_lock, TypeOK, Goto, Holds, lockVars, locals
  <2> QED BY <2>1, <1>1, KeepsOwnSuffices
<1>5. CASE read_version(t)
  <2>1. KeepsOwn(t) /\ UNCHANGED locked
    <3>1. pc[t] = "read_version" /\ locked' = locked
      BY <1>5 DEF read_version, lockVars
    <3>2. \A i : ~Holds(t, i)
      BY <3>1 DEF Holds
    <3>3. CASE transaction_free(t)
      BY <3>1, <3>2, <3>3, FreeKeeps
    <3>4. CASE ~transaction_free(t)
      <4>1. pc'[t] = "running" /\ wset' = wset
        BY <1>5, <3>4 DEF read_version, Goto, TypeOK
      <4> QED BY <3>1, <4>1 DEF Holds
    <3> QED BY <3>1, <3>3, <3>4
  <2> QED BY <2>1, <1>1, KeepsOwnSuffices
<1>6. CASE acquire(t)
  <2>1. /\ pc[t] = "acquire" /\ cur[t] \in DOMAIN wset[t] /\ wset' = wset /\ stop' = stop
        /\ locked' = [locked EXCEPT ![NodeStripe(t, cur[t])] = TRUE]
        /\ IF locked[NodeStripe(t, cur[t])]
           THEN pc'[t] = "spin" /\ cur' = cur
           ELSE pc' = pc /\ cur'[t] = cur[t] + 1
    BY <1>3, <1>6 DEF acquire, LockExchange, SeesLocked, WriteStripe, NodeStripe, Goto, TypeOK
  <2>2. CASE locked[NodeStripe(t, cur[t])]
    <3>1. locked' = locked
      BY <2>1, <2>2 DEF TypeOK
    <3>2. KeepsOwn(t)
      BY <2>1, <2>2 DEF Holds
    <3> QED BY <3>1, <3>2, <1>1, KeepsOwnSuffices
  <2>3. CASE ~locked[NodeStripe(t, cur[t])]
    <3>1. \A i : Holds(t, i)' <=> Holds(t, i) \/ i = cur[t]
      BY <1>3, <2>1, <2>3 DEF Holds
    <3> QED BY <2>1, <2>3, <3>1, <1>1, TakesOwnSuffices
  <2> QED BY <2>2, <2>3
<1>7. CASE spin(t)
  <2>1. KeepsOwn(t) /\ UNCHANGED locked
    BY <1>2, <1>3, <1>7 DEF spin, TypeOK, Goto, Holds, lockVars, CursorOK
  <2> QED BY <2>1, <1>1, KeepsOwnSuffices
<1>8. CASE unlock(t)
  <2>1. CASE cur[t] # stop[t]
    <3>1. /\ pc[t] = "unlock" /\ cur[t] < stop[t] /\ cur[t] \in DOMAIN wset[t]
          /\ wset' = wset /\ stop' = stop /\ pc' = pc /\ cur'[t] = cur[t] + 1
          /\ locked' = [locked EXCEPT ![NodeStripe(t, cur[t])] = FALSE]
      BY <1>2, <1>3, <1>8, <2>1
         DEF unlock, versioned_spinlock_release, WriteStripe, NodeStripe, TypeOK, CursorOK
    <3>2. Holds(t, cur[t])
      BY <3>1, <1>3 DEF Holds
    <3>3. \A i : Holds(t, i)' <=> Holds(t, i) /\ i # cur[t]
      BY <1>3, <3>1 DEF Holds
    <3> QED BY <3>1, <3>2, <3>3, <1>1, DropsOwnSuffices
  <2>2. CASE cur[t] = stop[t]
    <3>1. \A i : ~Holds(t, i)
      BY <1>3, <1>8, <2>2 DEF Holds, unlock
    <3>2. KeepsOwn(t) /\ UNCHANGED locked
      BY <1>8, <2>2, <3>1, FreeKeeps DEF unlock
    <3> QED BY <3>2, <1>1, KeepsOwnSuffices
  <2> QED BY <2>1, <2>2
<1>9. CASE increment(t)
  <2>1. /\ pc[t] = "acquire" /\ cur[t] > n /\ wset' = wset /\ locked' = locked
        /\ cur'[t] = 1 /\ pc'[t] \in {"validate_lock", "store"}
    BY <1>9 DEF increment, TypeOK, Goto
  <2>2. KeepsOwn(t)
    BY <1>3, <2>1 DEF Holds
  <2> QED BY <2>1, <2>2, <1>1, KeepsOwnSuffices
<1>10. CASE validate_lock(t) \/ validate_version(t)
  <2>1. /\ pc[t] \in {"validate_lock", "validate_version"} /\ wset' = wset /\ locked' = locked
        /\ \/ pc'[t] \in {"validate_lock", "validate_version"}
           \/ pc'[t] = "store" /\ cur'[t] = 1
           \/ pc'[t] = "unlock" /\ cur'[t] = 1 /\ stop'[t] = n + 1
    BY <1>10 DEF validate_lock, validate_version, UnlockAll, TypeOK, Goto, lockVars
  <2>2. KeepsOwn(t)
    BY <1>3, <2>1 DEF Holds
  <2> QED BY <2>1, <2>2, <1>1, KeepsOwnSuffices
<1>11. CASE store(t)
  <2>1. CASE cur[t] <= n
    <3>1. /\ pc[t] = "store" /\ pc'[t] = "update" /\ wset' = wset /\ cur' = cur
          /\ locked' = locked
      BY <1>11, <2>1 DEF store, TypeOK, Goto, lockVars, locals
    <3>2. KeepsOwn(t)
      BY <3>1 DEF Holds
    <3> QED BY <3>1, <3>2, <1>1, KeepsOwnSuffices
  <2>2. CASE ~(cur[t] <= n)
    <3>1. \A i : ~Holds(t, i)
      BY <1>3, <1>11, <2>2 DEF Holds, store
    <3>2. KeepsOwn(t) /\ UNCHANGED locked
      BY <1>11, <2>2, <3>1, FreeKeeps DEF store, lockVars
    <3> QED BY <3>2, <1>1, KeepsOwnSuffices
  <2> QED BY <2>1, <2>2
<1>12. CASE update(t)
  <2>1. KeepsOwn(t) /\ UNCHANGED locked
    BY <1>12 DEF update, TypeOK, Goto, Holds, locals
  <2> QED BY <2>1, <1>1, KeepsOwnSuffices
<1>13. CASE release(t)
  <2>1. /\ pc[t] = "release" /\ pc'[t] = "store" /\ cur[t] \in DOMAIN wset[t]
        /\ wset' = wset /\ cur'[t] = cur[t] + 1
        /\ locked' = [locked EXCEPT ![NodeStripe(t, cur[t])] = FALSE]
    BY <1>2, <1>3, <1>13
       DEF release, versioned_spinlock_release, WriteStripe, NodeStripe, TypeOK, Goto, CursorOK
  <2>2. Holds(t, cur[t])
    BY <2>1, <1>3 DEF Holds
  <2>3. \A i : Holds(t, i)' <=> Holds(t, i) /\ i # cur[t]
    BY <1>3, <2>1 DEF Holds
  <2> QED BY <2>1, <2>2, <2>3, <1>1, DropsOwnSuffices
<1> QED BY <1>4, <1>5, <1>6, <1>7, <1>8, <1>9, <1>10, <1>11, <1>12, <1>13 DEF Proceed

\* Every step of every thread keeps LockOwnership.
LEMMA StepOwnership ==
  TypeOK /\ CursorInv /\ LockOwnership /\ [Next]_vars => LockOwnership'
<1> SUFFICES ASSUME TypeOK, CursorInv, LockOwnership, [Next]_vars PROVE LockOwnership'
  OBVIOUS
<1>1. CASE UNCHANGED vars
  <2>1. Keeps
    BY <1>1 DEF Keeps, SameNodes, Holds, vars, lockVars, locals
  <2> QED BY <2>1, KeepsOwnership
<1>2. ASSUME NEW t \in Thread, Call(t) \/ Proceed(t) PROVE LockOwnership'
  <2>1. Keeps \/ \E k : Takes(t, k) \/ Drops(t, k)
    BY <1>2, CallKeeps, ProceedLocks
  <2> QED BY <2>1, KeepsOwnership, TakesOwnership, DropsOwnership
<1> QED BY <1>1, <1>2 DEF Next

(* No spinlock is taken without a transaction that will give it back, and  *)
(* no two nodes of any transactions ever have one spinlock.                *)
THEOREM LocksOwned == Spec => []LockOwnership
<1> DEFINE Inv == TypeOK /\ CursorInv /\ LockOwnership
<1>1. Init => Inv
  <2>1. Init => LockOwnership
    BY DEF Init, shared_lock_init, LockOwnership, TakenIffHeld, OneHolder, Holds
  <2> QED BY <2>1, InitType, CursorInvariant
<1>2. Inv /\ [Next]_vars => Inv'
  BY StepType, CursorInvariant, StepOwnership
<1>3. Inv => LockOwnership
  OBVIOUS
<1> QED BY <1>1, <1>2, <1>3, PTL DEF Spec
-----------------------------------------------------------------------------
(* The versions.  The argument: a transaction takes its write version only *)
(* when it has all its locks, so that it is above every version those locks*)
(* have, and nobody else changes them until it does.                       *)

Committing == {"validate_lock", "validate_version"} \cup Storing

VersionOK(t) ==
    pc[t] \in Committing =>
        /\ wv[t] <= clock
        /\ \A i : Holds(t, i) =>
              IF pc[t] = "release" /\ i = cur[t]
              THEN version[NodeStripe(t, i)] = wv[t]
              ELSE version[NodeStripe(t, i)] < wv[t]

VersionInv ==
    /\ \A s \in Stripe : version[s] <= clock
    /\ \A t \in Thread : VersionOK(t)

LockInv == TypeOK /\ CursorInv /\ LockOwnership
-----------------------------------------------------------------------------
(* A step of t that is not update(t) leaves the versions alone, one that   *)
(* is not increment(t) leaves the clock and the write versions alone.      *)
LEMMA CallVersions ==
  ASSUME TypeOK, NEW t \in Thread, Call(t)
  PROVE  /\ UNCHANGED <<clock, version, mem, hist>>
         /\ pc'[t] \notin Committing
<1> USE DEF Committing, Storing
<1>1. ASSUME NEW ro \in BOOLEAN, tm_begin(t, ro)
      PROVE  UNCHANGED <<clock, version, mem, hist>> /\ pc'[t] \notin Committing
  BY <1>1 DEF TypeOK, tm_begin, Goto, lockVars
<1>2. ASSUME NEW a \in Addr, tm_read(t, a)
      PROVE  UNCHANGED <<clock, version, mem, hist>> /\ pc'[t] \notin Committing
  BY <1>2 DEF TypeOK, tm_read, read_set_add, Goto, lockVars, history
<1>3. ASSUME NEW a \in Addr, NEW v \in Val, tm_write(t, a, v)
      PROVE  UNCHANGED <<clock, version, mem, hist>> /\ pc'[t] \notin Committing
  BY <1>3 DEF TypeOK, tm_write, lockVars, history
<1>4. CASE write_set_add_fails(t)
  BY <1>4 DEF TypeOK, write_set_add_fails, transaction_free, Goto, lockVars
<1>5. CASE tm_end(t)
  BY <1>5 DEF TypeOK, tm_end, transaction_free, Goto, lockVars, locals, history
<1> QED BY <1>1, <1>2, <1>3, <1>4, <1>5 DEF Call

\* The steps of a call that do not move the clock, a version or a word.
Quiet(t) ==
    \/ read_lock(t) \/ read_version(t) \/ acquire(t) \/ spin(t) \/ unlock(t)
    \/ validate_lock(t) \/ validate_version(t) \/ release(t)

\* Every other step that is not increment leaves them alone as well.
LEMMA QuietVersions ==
  ASSUME TypeOK, NEW t \in Thread, Quiet(t)
  PROVE  /\ UNCHANGED <<clock, version, mem, hist>>
         /\ pc'[t] \in Committing =>
               /\ pc[t] \in Committing /\ pc'[t] # "release"
               /\ wv'[t] = wv[t] /\ wset'[t] = wset[t]
               /\ \A i : Holds(t, i)' => Holds(t, i) /\ ~(pc[t] = "release" /\ i = cur[t])
<1> USE DEF Committing, Storing
<1> Len(wset[t]) \in Nat /\ DOMAIN wset[t] = 1 .. Len(wset[t]) /\ cur[t] \in Nat \ {0}
  BY LenProperties DEF TypeOK
<1>1. CASE read_lock(t)
  BY <1>1 DEF TypeOK, read_lock, transaction_free, Goto, lockVars, locals, history
<1>2. CASE read_version(t)
  BY <1>2 DEF TypeOK, read_version, transaction_free, Goto, lockVars
<1>3. CASE acquire(t)
  BY <1>3 DEF TypeOK, acquire, Goto, history
<1>4. CASE spin(t)
  BY <1>4 DEF TypeOK, spin, Goto, lockVars, history
<1>5. CASE unlock(t)
  BY <1>5 DEF TypeOK, unlock, transaction_free, Goto, history
<1>6. CASE validate_lock(t)
  BY <1>6 DEF TypeOK, validate_lock, UnlockAll, Goto, lockVars, history, Holds
<1>7. CASE validate_version(t)
  BY <1>7 DEF TypeOK, validate_version, UnlockAll, Goto, lockVars, history, Holds
<1>8. CASE release(t)
  BY <1>8 DEF TypeOK, release, Goto, history, Holds
<1> QED BY <1>1, <1>2, <1>3, <1>4, <1>5, <1>6, <1>7, <1>8 DEF Quiet

\* Another thread's step at most moves the clock on, or the version of a
\* spinlock that its own node has.
LEMMA OthersVersionOK ==
  ASSUME TypeOK, LockOwnership, NEW t \in Thread, NEW u \in Thread \ {t}, Frame(t),
         VersionOK(u), clock' \in Nat, clock <= clock',
         \/ version' = version
         \/ \E k \in DOMAIN wset[t] :
               /\ Holds(t, k)
               /\ version' = [version EXCEPT ![NodeStripe(t, k)] = wv[t]]
  PROVE  VersionOK(u)'
<1>1. /\ pc'[u] = pc[u] /\ wv'[u] = wv[u] /\ cur'[u] = cur[u] /\ wset'[u] = wset[u]
      /\ \A i : Holds(u, i)' <=> Holds(u, i)
      /\ \A i : NodeStripe(u, i)' = NodeStripe(u, i)
  BY DEF Frame, Holds, NodeStripe
<1>2. ASSUME NEW i, Holds(u, i) PROVE version'[NodeStripe(u, i)] = version[NodeStripe(u, i)]
  <2>1. i \in DOMAIN wset[u] /\ NodeStripe(u, i) \in Stripe
    BY <1>2, HeldNode DEF Holds
  <2>2. \A k \in DOMAIN wset[t] : Holds(t, k) => NodeStripe(t, k) # NodeStripe(u, i)
    BY <1>2, <2>1 DEF LockOwnership, OneHolder
  <2> QED BY <2>1, <2>2 DEF TypeOK
<1>3. wv[u] \in Nat /\ clock \in Nat
  BY DEF TypeOK
<1> QED BY <1>1, <1>2, <1>3 DEF VersionOK

\* Every step keeps the order of clock, write versions and versions.
LEMMA StepVersionInv ==
  ASSUME LockInv, VersionInv, NEW t \in Thread, Call(t) \/ Proceed(t)
  PROVE  VersionInv'
<1> USE DEF Committing, Storing
<1> TypeOK /\ CursorOK(t) /\ LockOwnership /\ VersionOK(t)
  BY DEF LockInv, CursorInv, VersionInv
<1>1. Frame(t)
  BY CallFrame, ProceedFrame
<1>2. /\ Len(wset[t]) \in Nat /\ DOMAIN wset[t] = 1 .. Len(wset[t])
      /\ cur[t] \in Nat \ {0} /\ wv[t] \in Nat /\ clock \in Nat
      /\ \A s \in Stripe : version[s] \in Nat /\ version[s] <= clock
  BY LenProperties DEF TypeOK, VersionInv
<1>3. ASSUME clock' = clock, version' = version, VersionOK(t)' PROVE VersionInv'
  BY <1>1, <1>2, <1>3, OthersVersionOK DEF VersionInv
<1>4. CASE Call(t)
  <2>1. VersionOK(t)'
    BY <1>4, CallVersions DEF VersionOK
  <2> QED BY <1>3, <1>4, <2>1, CallVersions
<1>5. CASE Quiet(t)
  <2>1. /\ UNCHANGED <<clock, version>>
        /\ pc'[t] \in Committing =>
               /\ pc[t] \in Committing /\ pc'[t] # "release"
               /\ wv'[t] = wv[t] /\ wset'[t] = wset[t]
               /\ \A i : Holds(t, i)' => Holds(t, i) /\ ~(pc[t] = "release" /\ i = cur[t])
    BY <1>5, QuietVersions
  <2>2. VersionOK(t)'
    BY <2>1 DEF VersionOK, NodeStripe
  <2> QED BY <1>3, <2>1, <2>2
<1>6. CASE increment(t)
  <2>1. /\ clock' = clock + 1 /\ wv'[t] = clock + 1 /\ version' = version
        /\ wset' = wset /\ pc'[t] \in {"validate_lock", "store"}
    BY <1>6 DEF increment, IncrementedClock, ToValidate, TypeOK, Goto
  <2>2. ASSUME NEW i, Holds(t, i)' PROVE version'[NodeStripe(t, i)] < wv'[t]
    <3>1. NodeStripe(t, i) \in Stripe
      BY <2>1, <2>2, HeldNode DEF Holds
    <3> QED BY <1>2, <2>1, <3>1
  <2>3. VersionOK(t)'
    BY <1>2, <2>1, <2>2 DEF VersionOK, NodeStripe
  <2>4. \A u \in Thread \ {t} : VersionOK(u)'
    BY <1>1, <1>2, <2>1, OthersVersionOK DEF VersionInv
  <2> QED BY <1>2, <2>1, <2>3, <2>4 DEF VersionInv
<1>7. CASE store(t)
  <2>1. UNCHANGED <<clock, version>>
    BY <1>7 DEF store, lockVars
  <2>2. CASE cur[t] <= Len(wset[t])
    <3>1. pc[t] = "store" /\ pc'[t] = "update" /\ wset' = wset /\ cur' = cur /\ wv' = wv
      BY <1>7, <2>2 DEF store, TypeOK, Goto, locals
    <3>2. VersionOK(t)'
      BY <2>1, <3>1 DEF VersionOK, NodeStripe, Holds
    <3> QED BY <1>3, <2>1, <3>2
  <2>3. CASE ~(cur[t] <= Len(wset[t]))
    <3>1. pc'[t] = "idle"
      BY <1>7, <2>3 DEF store, transaction_free, TypeOK, Goto
    <3>2. VersionOK(t)'
      BY <3>1 DEF VersionOK
    <3> QED BY <1>3, <2>1, <3>2
  <2> QED BY <2>2, <2>3
<1>8. CASE update(t)
  <2>1. /\ pc[t] = "update" /\ pc'[t] = "release" /\ clock' = clock
        /\ wset' = wset /\ cur' = cur /\ wv' = wv
        /\ version' = [version EXCEPT ![NodeStripe(t, cur[t])] = wv[t]]
    BY <1>8 DEF update, versioned_spinlock_update, WriteStripe, NodeStripe, TypeOK, Goto, locals
  <2>2. cur[t] \in DOMAIN wset[t] /\ Holds(t, cur[t]) /\ wv[t] <= clock
    BY <1>2, <2>1 DEF CursorOK, Holds, VersionOK
  <2>3. ASSUME NEW i, Holds(t, i), i # cur[t] PROVE NodeStripe(t, i) # NodeStripe(t, cur[t])
    BY <2>2, <2>3 DEF LockOwnership, OneHolder, Holds
  <2>4. \A i : Holds(t, i) => NodeStripe(t, i) \in Stripe
    BY HeldNode DEF Holds
  <2>5. VersionOK(t)'
    <3>1. \A i : Holds(t, i)' <=> Holds(t, i)
      BY <2>1 DEF Holds
    <3>2. \A i : NodeStripe(t, i)' = NodeStripe(t, i)
      BY <2>1 DEF NodeStripe
    <3>3. \A i : Holds(t, i) =>
             version'[NodeStripe(t, i)] =
                IF i = cur[t] THEN wv[t] ELSE version[NodeStripe(t, i)]
      BY <2>1, <2>2, <2>3, <2>4 DEF TypeOK
    <3> QED BY <2>1, <2>2, <3>1, <3>2, <3>3 DEF VersionOK
  <2>6. \A u \in Thread \ {t} : VersionOK(u)'
    <3> SUFFICES ASSUME NEW u \in Thread \ {t} PROVE VersionOK(u)'
      OBVIOUS
    <3>1. \E k \in DOMAIN wset[t] :
             /\ Holds(t, k)
             /\ version' = [version EXCEPT ![NodeStripe(t, k)] = wv[t]]
      BY <2>1, <2>2
    <3>2. VersionOK(u) /\ clock' \in Nat /\ clock <= clock'
      BY <1>2, <2>1 DEF VersionInv
    <3> QED BY <1>1, <3>1, <3>2, OthersVersionOK
  <2>7. \A s \in Stripe : version'[s] <= clock'
    BY <1>2, <2>1, <2>2 DEF TypeOK
  <2> QED BY <2>5, <2>6, <2>7 DEF VersionInv
<1> QED BY <1>4, <1>5, <1>6, <1>7, <1>8 DEF Proceed, Quiet

\* A step moves the version of a spinlock up, or not at all.
LEMMA StepMonotone ==
  ASSUME LockInv, VersionInv, NEW t \in Thread, Call(t) \/ Proceed(t), NEW s \in Stripe
  PROVE  version'[s] >= version[s]
<1> TypeOK /\ CursorOK(t) /\ VersionOK(t)
  BY DEF LockInv, CursorInv, VersionInv
<1>1. version[s] \in Nat
  BY DEF TypeOK
<1>2. CASE Call(t) \/ Quiet(t) \/ increment(t) \/ store(t)
  <2>1. version' = version
    BY <1>2, CallVersions, QuietVersions DEF increment, store, lockVars
  <2> QED BY <1>1, <2>1
<1>3. CASE update(t)
  <2>1. /\ pc[t] = "update"
        /\ version' = [version EXCEPT ![NodeStripe(t, cur[t])] = wv[t]]
    BY <1>3 DEF update, versioned_spinlock_update, WriteStripe, NodeStripe
  <2>2. cur[t] \in DOMAIN wset[t] /\ Holds(t, cur[t])
    BY <2>1, LenProperties DEF CursorOK, Holds, TypeOK
  <2>3. version[NodeStripe(t, cur[t])] < wv[t]
    BY <2>1, <2>2 DEF VersionOK, Committing, Storing
  <2>4. wv[t] \in Nat
    BY DEF TypeOK
  <2> QED BY <1>1, <2>1, <2>3, <2>4 DEF TypeOK
<1> QED BY <1>2, <1>3 DEF Proceed, Quiet

\* The invariants of TL2Proofs together.
LEMMA LockInvariant ==
  /\ Init => LockInv
  /\ LockInv /\ [Next]_vars => LockInv'
<1>1. Init => LockOwnership
  BY DEF Init, shared_lock_init, LockOwnership, TakenIffHeld, OneHolder, Holds
<1> QED BY <1>1, InitType, StepType, CursorInvariant, StepOwnership DEF LockInv

\* Every reachable state has its versions in order.
LEMMA VersionInvariant ==
  /\ Init => VersionInv
  /\ LockInv /\ VersionInv /\ [Next]_vars => VersionInv'
<1>1. Init => VersionInv
  BY DEF Init, shared_lock_init, VersionInv, VersionOK, Committing, Storing
<1>2. ASSUME LockInv, VersionInv, [Next]_vars PROVE VersionInv'
  <2>1. CASE UNCHANGED vars
    BY <1>2, <2>1 DEF VersionInv, VersionOK, Holds, NodeStripe, vars, lockVars, locals
  <2>2. ASSUME NEW t \in Thread, Call(t) \/ Proceed(t) PROVE VersionInv'
    BY <1>2, <2>2, StepVersionInv
  <2> QED BY <1>2, <2>1, <2>2 DEF Next
<1> QED BY <1>1, <1>2

(* No step of any thread takes the version of a spinlock back.             *)
THEOREM VersionsNeverGoBack == Spec => VersionsMonotone
<1>1. LockInv /\ VersionInv /\ [Next]_vars => [\A s \in Stripe : version'[s] >= version[s]]_vars
  BY StepMonotone DEF Next
<1> QED BY <1>1, LockInvariant, VersionInvariant, PTL DEF Spec, VersionsMonotone
-----------------------------------------------------------------------------
(* A recorded store is covered by the version of its spinlock, or is the   *)
(* one whose transaction is about to write that version.                   *)
Covered(a, r) ==
    \/ r.wv <= version[find_lock(a)]
    \/ \E u \in Thread :
          /\ pc[u] = "update" /\ cur[u] \in DOMAIN wset[u]
          /\ wset[u][cur[u]].address = a /\ wv[u] = r.wv

AllCovered == \A a \in Addr : \A r \in hist[a] : Covered(a, r)

\* A step that is neither a store nor an update keeps what is covered.
LEMMA KeepsCovered ==
  ASSUME NEW t \in Thread, Frame(t), pc[t] # "update", UNCHANGED <<version, hist>>, AllCovered
  PROVE  AllCovered'
  BY DEF Frame, AllCovered, Covered

\* What the store of t does to the memory and its history.
LEMMA StoreEffect ==
  ASSUME TypeOK, NEW t \in Thread, store(t), cur[t] <= Len(wset[t])
  PROVE  LET node == wset[t][cur[t]]
         IN  /\ pc[t] = "store" /\ pc'[t] = "update" /\ cur[t] \in DOMAIN wset[t]
             /\ node.address \in Addr /\ node.value \in Val
             /\ mem' = [mem EXCEPT ![node.address] = node.value]
             /\ hist' = [hist EXCEPT ![node.address] =
                            @ \cup {[wv |-> wv[t], value |-> node.value]}]
             /\ UNCHANGED <<clock, locked, version, wset, cur, wv, rv, obs, missed>>
<1>1. cur[t] \in DOMAIN wset[t]
  BY LenProperties DEF TypeOK
<1>2. wset[t][cur[t]].address \in Addr /\ wset[t][cur[t]].value \in Val
  BY <1>1, NodeType DEF TypeOK, WriteList
<1> QED BY <1>1, <1>2 DEF store, Goto, TypeOK, lockVars, locals

\* A store is newer than everything stored at its address before.
LEMMA StoreIsNewest ==
  ASSUME LockInv, VersionInv, AllCovered, NEW t \in Thread, NEW k \in DOMAIN wset[t],
         pc[t] \in Committing \ {"update", "release"}, Holds(t, k),
         NEW r \in hist[wset[t][k].address]
  PROVE  r.wv < wv[t]
<1> DEFINE a == wset[t][k].address
<1> TypeOK /\ LockOwnership /\ VersionOK(t)
  BY DEF LockInv, VersionInv
<1>1. a \in Addr
  BY NodeType DEF TypeOK, WriteList
<1>2. r.wv \in Nat /\ wv[t] \in Nat /\ version[find_lock(a)] \in Nat
  BY <1>1, FindLockType DEF TypeOK
<1>3. version[find_lock(a)] < wv[t]
  BY DEF VersionOK, NodeStripe
<1>4. ASSUME NEW u \in Thread, pc[u] = "update", cur[u] \in DOMAIN wset[u],
             wset[u][cur[u]].address = a
      PROVE  FALSE
  <2>1. Holds(u, cur[u]) /\ NodeStripe(u, cur[u]) = NodeStripe(t, k)
    BY <1>4 DEF Holds, NodeStripe, TypeOK
  <2>2. u = t
    BY <1>4, <2>1 DEF LockOwnership, OneHolder
  <2> QED BY <1>4, <2>2
<1>5. Covered(a, r)
  BY <1>1 DEF AllCovered
<1> QED BY <1>2, <1>3, <1>4, <1>5 DEF Covered

HistInv == AllCovered /\ MemoryIsNewestStore

\* Every step keeps memory and its history in agreement.
LEMMA StepHistInv ==
  ASSUME LockInv, VersionInv, HistInv, NEW t \in Thread, Call(t) \/ Proceed(t)
  PROVE  HistInv'
<1> TypeOK /\ CursorOK(t) /\ LockOwnership /\ VersionOK(t) /\ AllCovered
  BY DEF LockInv, CursorInv, VersionInv, HistInv
<1>1. Frame(t)
  BY CallFrame, ProceedFrame
<1>2. CASE Call(t) \/ Quiet(t) \/ increment(t) \/ (store(t) /\ ~(cur[t] <= Len(wset[t])))
  <2>1. UNCHANGED <<mem, version, hist>>
    BY <1>2, CallVersions, QuietVersions DEF increment, store, transaction_free, lockVars, history
  <2>2. pc[t] # "update"
    BY <1>2 DEF Call, tm_begin, tm_read, read_set_add, tm_write, write_set_add_fails, tm_end, Quiet, read_lock,
       read_version, acquire, spin, unlock, validate_lock, validate_version, release,
       increment, store
  <2> QED BY <1>1, <2>1, <2>2, KeepsCovered DEF HistInv, MemoryIsNewestStore
<1>3. CASE store(t) /\ cur[t] <= Len(wset[t])
  <2> DEFINE node == wset[t][cur[t]]
             new  == [wv |-> wv[t], value |-> node.value]
  <2>1. /\ pc[t] = "store" /\ pc'[t] = "update" /\ cur[t] \in DOMAIN wset[t]
        /\ node.address \in Addr
        /\ mem' = [mem EXCEPT ![node.address] = node.value]
        /\ hist' = [hist EXCEPT ![node.address] = @ \cup {new}]
        /\ UNCHANGED <<version, wset, cur, wv>>
    BY <1>3, StoreEffect
  <2>2. \A r \in hist[node.address] : r.wv < wv[t]
    <3>1. Holds(t, cur[t]) /\ pc[t] \in Committing \ {"update", "release"}
      BY <2>1, LenProperties DEF Holds, Committing, Storing, TypeOK
    <3> QED BY <2>1, <3>1, StoreIsNewest
  <2>3. \A a \in Addr : /\ mem'[a] = IF a = node.address THEN node.value ELSE mem[a]
                       /\ hist'[a] = IF a = node.address THEN hist[a] \cup {new} ELSE hist[a]
    BY <2>1 DEF TypeOK
  <2>4. new.wv = wv[t] /\ new.value = node.value
    OBVIOUS
  <2> HIDE DEF node, new
  <2>5. AllCovered'
    <3> SUFFICES ASSUME NEW a \in Addr, NEW r \in hist'[a] PROVE Covered(a, r)'
      BY DEF AllCovered
    <3>1. CASE r \in hist[a]
      BY <1>1, <2>1, <3>1 DEF AllCovered, Covered, Frame
    <3>2. CASE r \notin hist[a]
      <4>1. a = node.address /\ r = new
        BY <2>3, <3>2
      <4> QED BY <2>1, <2>4, <4>1 DEF Covered, node
    <3> QED BY <3>1, <3>2
  <2>6. MemoryIsNewestStore'
    <3> SUFFICES ASSUME NEW a \in Addr
                 PROVE  \E r \in hist'[a] : /\ r.value = mem'[a]
                                           /\ \A q \in hist'[a] : q # r => q.wv < r.wv
      BY DEF MemoryIsNewestStore
    <3>1. CASE a = node.address
      <4>1. hist'[a] = hist[a] \cup {new} /\ mem'[a] = new.value
        BY <2>3, <2>4, <3>1
      <4>2. \A q \in hist'[a] : q # new => q.wv < new.wv
        BY <2>2, <2>4, <3>1, <4>1
      <4> QED BY <4>1, <4>2
    <3>2. CASE a # node.address
      <4>1. hist'[a] = hist[a] /\ mem'[a] = mem[a]
        BY <2>3, <3>2
      <4> QED BY <4>1 DEF HistInv, MemoryIsNewestStore
    <3> QED BY <3>1, <3>2
  <2> QED BY <2>5, <2>6 DEF HistInv
<1>4. CASE update(t)
  <2>1. /\ pc[t] = "update" /\ UNCHANGED <<mem, hist>>
        /\ version' = [version EXCEPT ![NodeStripe(t, cur[t])] = wv[t]]
    BY <1>4 DEF update, versioned_spinlock_update, WriteStripe, NodeStripe, history
  <2>2. AllCovered'
    <3> SUFFICES ASSUME NEW a \in Addr, NEW r \in hist[a] PROVE Covered(a, r)'
      BY <2>1 DEF AllCovered
    <3>1. /\ find_lock(a) \in Stripe /\ r.wv \in Nat /\ wv[t] \in Nat
          /\ version[find_lock(a)] \in Nat /\ version'[find_lock(a)] \in Nat
      BY <2>1, FindLockType DEF TypeOK
    <3>2. version'[find_lock(a)] >= version[find_lock(a)]
      BY <3>1, StepMonotone
    <3>3. CASE r.wv <= version[find_lock(a)]
      BY <3>1, <3>2, <3>3 DEF Covered
    <3>4. CASE \E u \in Thread :
                 /\ pc[u] = "update" /\ cur[u] \in DOMAIN wset[u]
                 /\ wset[u][cur[u]].address = a /\ wv[u] = r.wv
      <4>1. PICK u \in Thread :
                   /\ pc[u] = "update" /\ cur[u] \in DOMAIN wset[u]
                   /\ wset[u][cur[u]].address = a /\ wv[u] = r.wv
        BY <3>4
      <4>2. CASE u = t
        BY <2>1, <3>1, <4>1, <4>2 DEF Covered, NodeStripe, TypeOK
      <4>3. CASE u # t
        BY <1>1, <4>1, <4>3 DEF Covered, Frame
      <4> QED BY <4>2, <4>3
    <3> QED BY <3>3, <3>4 DEF AllCovered, Covered
  <2> QED BY <2>1, <2>2 DEF HistInv, MemoryIsNewestStore
<1> QED BY <1>2, <1>3, <1>4 DEF Proceed, Quiet

\* Every reachable state has them in agreement.
LEMMA HistInvariant ==
  /\ Init => HistInv
  /\ LockInv /\ VersionInv /\ HistInv /\ [Next]_vars => HistInv'
<1>1. ASSUME Init PROVE HistInv
  <2>1. \A a \in Addr : hist[a] = {[wv |-> 0, value |-> 0]} /\ mem[a] = 0
    BY <1>1 DEF Init
  <2>2. \A a \in Addr : version[find_lock(a)] = 0
    BY <1>1, FindLockType DEF Init, shared_lock_init
  <2>3. AllCovered
    BY <2>1, <2>2 DEF AllCovered, Covered
  <2>4. MemoryIsNewestStore
    <3> SUFFICES ASSUME NEW a \in Addr
                 PROVE  \E r \in hist[a] : /\ r.value = mem[a]
                                          /\ \A q \in hist[a] : q # r => q.wv < r.wv
      BY DEF MemoryIsNewestStore
    <3> DEFINE r0 == [wv |-> 0, value |-> 0]
    <3>1. hist[a] = {r0} /\ mem[a] = r0.value
      BY <2>1
    <3> HIDE DEF r0
    <3> QED BY <3>1
  <2> QED BY <2>3, <2>4 DEF HistInv
<1>2. ASSUME LockInv, VersionInv, HistInv, [Next]_vars PROVE HistInv'
  <2>1. CASE UNCHANGED vars
    BY <1>2, <2>1 DEF HistInv, AllCovered, Covered, MemoryIsNewestStore, vars, lockVars, locals,
       history
  <2>2. ASSUME NEW t \in Thread, Call(t) \/ Proceed(t) PROVE HistInv'
    BY <1>2, <2>2, StepHistInv
  <2> QED BY <1>2, <2>1, <2>2 DEF Next
<1> QED BY <1>1, <1>2

(* The value of a word is the one stored under its highest write version.  *)
THEOREM MemoryNewest == Spec => []MemoryIsNewestStore
<1>1. LockInv /\ VersionInv /\ HistInv => MemoryIsNewestStore
  BY DEF HistInv
<1> QED BY <1>1, LockInvariant, VersionInvariant, HistInvariant, PTL DEF Spec
-----------------------------------------------------------------------------
(* A read node that has passed validation is on no spinlock of the write   *)
(* set: those all have their lock bits set by the transaction itself.      *)
Apart(t, i) == \A j \in DOMAIN wset[t] : find_lock(rset[t][i]) # NodeStripe(t, j)

ApartOK(t) ==
    /\ pc[t] \in {"validate_lock", "validate_version"} =>
          \A i \in DOMAIN rset[t] : i < cur[t] => Apart(t, i)
    /\ pc[t] = "validate_version" => Apart(t, cur[t])
    /\ pc[t] \in Storing =>
          wv[t] = rv[t] + 1 \/ \A i \in DOMAIN rset[t] : Apart(t, i)

ApartInv == \A t \in Thread : ApartOK(t)

\* A transaction that found its lock free did not set it itself.
LEMMA FreeLockApart ==
  ASSUME LockInv, NEW t \in Thread, pc[t] = "validate_lock", NEW i,
         ~locked[find_lock(rset[t][i])]
  PROVE  Apart(t, i)
<1>1. \A j \in DOMAIN wset[t] : Holds(t, j) /\ NodeStripe(t, j) \in Stripe
  BY HeldNode DEF LockInv, Holds
<1>2. \A j \in DOMAIN wset[t] : locked[NodeStripe(t, j)]
  BY <1>1 DEF LockInv, LockOwnership, TakenIffHeld
<1> QED BY <1>2 DEF Apart

\* The steps of t keep what it knows about its own locks.
LEMMA OwnApartOK ==
  ASSUME LockInv, NEW t \in Thread, ApartOK(t), Call(t) \/ Proceed(t)
  PROVE  ApartOK(t)'
<1> TypeOK
  BY DEF LockInv
<1> USE DEF Storing
<1> /\ DOMAIN rset[t] = 1 .. Len(rset[t]) /\ cur[t] \in Nat \ {0} /\ rv[t] \in Nat
  BY LenProperties DEF TypeOK
<1>1. ASSUME pc'[t] \notin Committing PROVE ApartOK(t)'
  BY <1>1 DEF ApartOK, Committing
<1>2. CASE Call(t)
  BY <1>1, <1>2, CallVersions
<1>3. CASE read_lock(t) \/ read_version(t) \/ acquire(t) \/ spin(t) \/ unlock(t)
  <2>1. pc'[t] \notin Committing
    <3>1. pc[t] \notin Committing
      BY <1>3 DEF read_lock, read_version, acquire, spin, unlock, Committing
    <3> QED BY <1>3, <3>1, QuietVersions DEF Quiet
  <2> QED BY <1>1, <2>1
<1>4. CASE increment(t)
  <2>1. /\ cur'[t] = 1 /\ wv'[t] = clock + 1 /\ UNCHANGED <<rset, wset, rv>>
        /\ pc'[t] = IF clock + 1 # rv[t] + 1 THEN "validate_lock" ELSE "store"
    BY <1>4 DEF increment, IncrementedClock, ToValidate, Goto, TypeOK
  <2> QED BY <2>1 DEF ApartOK
<1>5. CASE validate_lock(t)
  <2>1. pc[t] = "validate_lock" /\ UNCHANGED <<rset, wset, rv, wv>>
    BY <1>5 DEF validate_lock
  <2>2. \/ pc'[t] = "store" /\ cur[t] > Len(rset[t])
        \/ pc'[t] = "unlock"
        \/ pc'[t] = "validate_version" /\ cur' = cur /\ ~locked[find_lock(rset[t][cur[t]])]
    BY <1>5 DEF validate_lock, UnlockAll, Goto, TypeOK, SeesLocked, ReadStripe
  <2>3. CASE pc'[t] = "store" /\ cur[t] > Len(rset[t])
    BY <2>1, <2>3 DEF ApartOK, Apart, NodeStripe
  <2>4. CASE pc'[t] = "unlock"
    BY <1>1, <2>4 DEF Committing
  <2>5. CASE pc'[t] = "validate_version" /\ cur' = cur /\ ~locked[find_lock(rset[t][cur[t]])]
    <3>1. Apart(t, cur[t])
      BY <2>1, <2>5, FreeLockApart
    <3> QED BY <2>1, <2>5, <3>1 DEF ApartOK, Apart, NodeStripe
  <2> QED BY <2>2, <2>3, <2>4, <2>5
<1>6. CASE validate_version(t)
  <2>1. pc[t] = "validate_version" /\ UNCHANGED <<rset, wset, rv, wv>>
    BY <1>6 DEF validate_version
  <2>2. pc'[t] = "unlock" \/ (pc'[t] = "validate_lock" /\ cur'[t] = cur[t] + 1)
    BY <1>6 DEF validate_version, UnlockAll, Goto, TypeOK
  <2>3. \A i \in DOMAIN rset[t] : i < cur[t] + 1 => Apart(t, i)
    <3>1. \A i \in DOMAIN rset[t] : i < cur[t] + 1 => i < cur[t] \/ i = cur[t]
      OBVIOUS
    <3> QED BY <2>1, <3>1 DEF ApartOK
  <2> QED BY <2>1, <2>2, <2>3 DEF ApartOK, Apart, NodeStripe
<1>7. CASE store(t) \/ update(t) \/ release(t)
  <2>1. pc[t] \in Storing
    BY <1>7 DEF store, update, release
  <2>2. \/ pc'[t] = "idle"
        \/ pc'[t] \in Storing /\ UNCHANGED <<rset, wset, rv, wv>>
    BY <1>7 DEF store, update, release, transaction_free, Goto, TypeOK, locals
  <2> QED BY <2>1, <2>2 DEF ApartOK, Apart, NodeStripe
<1> QED BY <1>2, <1>3, <1>4, <1>5, <1>6, <1>7 DEF Proceed

\* A validated read is on no lock of the transaction's own.
LEMMA ApartInvariant ==
  /\ Init => ApartInv
  /\ LockInv /\ ApartInv /\ [Next]_vars => ApartInv'
<1>1. Init => ApartInv
  BY DEF Init, ApartInv, ApartOK, Storing
<1>2. ASSUME LockInv, ApartInv, [Next]_vars PROVE ApartInv'
  <2>1. CASE UNCHANGED vars
    BY <1>2, <2>1 DEF ApartInv, ApartOK, Apart, NodeStripe, vars, locals
  <2>2. ASSUME NEW t \in Thread, Call(t) \/ Proceed(t) PROVE ApartInv'
    <3>1. Frame(t)
      BY <1>2, <2>2, CallFrame, ProceedFrame DEF LockInv
    <3>2. ApartOK(t)'
      BY <1>2, <2>2, OwnApartOK DEF ApartInv
    <3> QED BY <1>2, <3>1, <3>2 DEF ApartInv, ApartOK, Apart, NodeStripe, Frame
  <2> QED BY <1>2, <2>1, <2>2 DEF Next
<1> QED BY <1>1, <1>2

(* A transaction that writes on a spinlock it read needs the clock to stay *)
(* where its tm_begin found it.                                            *)
THEOREM OwnLocksFail == Spec => []OwnLocksFailValidation
<1>1. ApartInv => OwnLocksFailValidation
  BY DEF ApartInv, ApartOK, Apart, OwnLocksFailValidation
<1> QED BY <1>1, LockInvariant, ApartInvariant, PTL DEF Spec
-----------------------------------------------------------------------------
(* Only tm_write adds to a write set, and only what write_node_find does   *)
(* not find there.                                                         *)
LEMMA StepWriteSet ==
  ASSUME TypeOK, NEW t \in Thread, Call(t) \/ Proceed(t)
  PROVE  \/ wset'[t] = wset[t]
         \/ wset'[t] = <<>>
         \/ \E a \in Addr, v \in Val : wset'[t] = WritePut(wset[t], a, v)
<1>1. CASE Call(t)
  BY <1>1 DEF Call, tm_begin, tm_read, read_set_add, tm_write, write_set_add_fails, tm_end, transaction_free, TypeOK,
     locals
<1>2. CASE Proceed(t)
  <2>1. CASE read_lock(t) \/ read_version(t)
    BY <2>1 DEF read_lock, read_version, transaction_free, TypeOK, locals
  <2>2. CASE acquire(t) \/ spin(t) \/ increment(t)
    BY <2>2 DEF acquire, spin, increment
  <2>3. CASE unlock(t)
    BY <2>3 DEF unlock, transaction_free, TypeOK
  <2>4. CASE validate_lock(t) \/ validate_version(t)
    BY <2>4 DEF validate_lock, validate_version
  <2>5. CASE store(t) \/ update(t) \/ release(t)
    BY <2>5 DEF store, update, release, transaction_free, TypeOK, locals
  <2> QED BY <1>2, <2>1, <2>2, <2>3, <2>4, <2>5 DEF Proceed
<1> QED BY <1>1, <1>2

\* No write set gets a second node for an address.
LEMMA DistinctInvariant ==
  /\ Init => OneNodePerAddress
  /\ TypeOK /\ OneNodePerAddress /\ [Next]_vars => OneNodePerAddress'
<1>1. Init => OneNodePerAddress
  BY DEF Init, OneNodePerAddress, Distinct
<1>2. TypeOK /\ OneNodePerAddress /\ [Next]_vars => OneNodePerAddress'
  <2> SUFFICES ASSUME TypeOK, OneNodePerAddress, [Next]_vars PROVE OneNodePerAddress'
    OBVIOUS
  <2>1. CASE UNCHANGED vars
    BY <2>1 DEF OneNodePerAddress, vars, locals
  <2>2. ASSUME NEW t \in Thread, Call(t) \/ Proceed(t) PROVE OneNodePerAddress'
    <3>1. Frame(t)
      BY <2>2, CallFrame, ProceedFrame
    <3>2. wset[t] \in WriteList(Addr, Val) /\ Distinct(wset[t])
      BY DEF TypeOK, WriteList, OneNodePerAddress
    <3>3. Distinct(<<>>)
      BY DEF Distinct
    <3>4. Distinct(wset'[t])
      BY <2>2, <3>2, <3>3, StepWriteSet, PutReturns
    <3>5. \A u \in Thread : Distinct(wset'[u])
      BY <3>1, <3>4 DEF Frame, OneNodePerAddress
    <3> QED BY <3>5 DEF OneNodePerAddress
  <2> QED BY <2>1, <2>2 DEF Next
<1> QED BY <1>1, <1>2

(* No transaction ever has two write nodes for one address, so that        *)
(* lock_write_set never waits for the lock of a node it has just locked,   *)
(* and the value stored is the one written last.                           *)
THEOREM WriteSetsDistinct == Spec => []OneNodePerAddress
BY DistinctInvariant, InitType, StepType, PTL DEF Spec
-----------------------------------------------------------------------------
(* The reads.  The argument: a store still to come has a write version     *)
(* above the clock of every tm_begin that did not miss it, so it leaves the*)
(* snapshots of those transactions alone; a word that was newer than rv    *)
(* when tm_read copied it has its lock taken or its version above rv until *)
(* the end of the validation.                                              *)

CoreInv == LockInv /\ VersionInv /\ HistInv

\* The invariants so far together.
LEMMA CoreInvariant ==
  /\ Init => CoreInv
  /\ CoreInv /\ [Next]_vars => CoreInv'
  BY LockInvariant, VersionInvariant, HistInvariant DEF CoreInv
-----------------------------------------------------------------------------
(* What a step does to the stores: those to come and those recorded.       *)
PendingShrinks ==
    \A u \in Thread, a \in Addr : PendingStore(u, a)' =>
        \/ PendingStore(u, a) /\ wv'[u] = wv[u]
        \/ wv'[u] = clock + 1

HistGrows ==
    \A a \in Addr :
        /\ hist[a] \subseteq hist'[a]
        /\ \A r \in hist'[a] :
              r \in hist[a] \/ \E u \in Thread : PendingStore(u, a) /\ r.wv = wv[u]

Moves ==
    /\ PendingShrinks
    /\ HistGrows
    /\ \A s \in Stripe : version'[s] >= version[s]

\* A transaction with a store to come has the lock of that word.
LEMMA PendingHolds ==
  ASSUME TypeOK, CursorInv, NEW t \in Thread, NEW a \in Addr, PendingStore(t, a)
  PROVE  \E i \in DOMAIN wset[t] :
            Holds(t, i) /\ wset[t][i].address = a /\ pc[t] \in Committing
<1>1. DOMAIN wset[t] = 1 .. Len(wset[t]) /\ cur[t] \in Nat \ {0}
  BY LenProperties DEF TypeOK
<1> QED BY <1>1 DEF PendingStore, Holds, Committing, Storing

\* The stores t still owes only become fewer, until it takes a version.
LEMMA OwnPending ==
  ASSUME TypeOK, NEW t \in Thread, Quiet(t), NEW a \in Addr, PendingStore(t, a)'
  PROVE  PendingStore(t, a) /\ wv'[t] = wv[t]
<1> DOMAIN wset[t] = 1 .. Len(wset[t]) /\ cur[t] \in Nat \ {0}
  BY LenProperties DEF TypeOK
<1>1. CASE read_lock(t)
  BY <1>1 DEF TypeOK, read_lock, transaction_free, Goto, locals, PendingStore
<1>2. CASE read_version(t)
  BY <1>2 DEF TypeOK, read_version, transaction_free, Goto, PendingStore
<1>3. CASE acquire(t)
  BY <1>3 DEF TypeOK, acquire, Goto, PendingStore
<1>4. CASE spin(t)
  BY <1>4 DEF TypeOK, spin, Goto, PendingStore
<1>5. CASE unlock(t)
  BY <1>5 DEF TypeOK, unlock, transaction_free, Goto, PendingStore
<1>6. CASE validate_lock(t)
  BY <1>6 DEF TypeOK, validate_lock, UnlockAll, Goto, PendingStore
<1>7. CASE validate_version(t)
  BY <1>7 DEF TypeOK, validate_version, UnlockAll, Goto, PendingStore
<1>8. CASE release(t)
  BY <1>8 DEF TypeOK, release, Goto, PendingStore
<1> QED BY <1>1, <1>2, <1>3, <1>4, <1>5, <1>6, <1>7, <1>8 DEF Quiet

\* What a step can do to the history and the pending stores.
LEMMA StepMoves ==
  ASSUME CoreInv, NEW t \in Thread, Call(t) \/ Proceed(t)
  PROVE  Moves
<1> TypeOK /\ CursorOK(t) /\ LockInv /\ VersionInv
  BY DEF CoreInv, LockInv, CursorInv
<1>1. Frame(t)
  BY CallFrame, ProceedFrame
<1>2. DOMAIN wset[t] = 1 .. Len(wset[t]) /\ cur[t] \in Nat \ {0}
  BY LenProperties DEF TypeOK
<1>3. PendingShrinks
  <2> SUFFICES ASSUME NEW u \in Thread, NEW a \in Addr, PendingStore(u, a)'
               PROVE  \/ PendingStore(u, a) /\ wv'[u] = wv[u]
                      \/ wv'[u] = clock + 1
    BY DEF PendingShrinks
  <2>1. CASE u # t
    BY <1>1, <2>1 DEF Frame, PendingStore
  <2>2. CASE u = t /\ Call(t)
    BY <2>2, CallVersions DEF PendingStore, Committing, Storing
  <2>3. CASE u = t /\ Quiet(t)
    BY <2>3, OwnPending
  <2>4. CASE u = t /\ increment(t)
    BY <2>4 DEF increment, IncrementedClock, ToValidate, TypeOK
  <2>5. CASE u = t /\ store(t)
    BY <1>2, <2>5 DEF store, transaction_free, Goto, TypeOK, PendingStore, locals
  <2>6. CASE u = t /\ update(t)
    BY <1>2, <2>6 DEF update, Goto, TypeOK, PendingStore, locals
  <2> QED BY <2>1, <2>2, <2>3, <2>4, <2>5, <2>6 DEF Proceed, Quiet
<1>4. HistGrows
  <2>1. CASE store(t) /\ cur[t] <= Len(wset[t])
    <3> DEFINE node == wset[t][cur[t]]
               new  == [wv |-> wv[t], value |-> node.value]
    <3>1. /\ pc[t] = "store" /\ cur[t] \in DOMAIN wset[t] /\ node.address \in Addr
          /\ hist' = [hist EXCEPT ![node.address] = @ \cup {new}]
      BY <2>1, StoreEffect
    <3>2. PendingStore(t, node.address) /\ new.wv = wv[t]
      BY <1>2, <3>1 DEF PendingStore
    <3> HIDE DEF node, new
    <3> QED BY <3>1, <3>2 DEF HistGrows, TypeOK
  <2>2. CASE ~(store(t) /\ cur[t] <= Len(wset[t]))
    <3>1. hist' = hist
      BY <2>2, CallVersions, QuietVersions
         DEF Proceed, Quiet, increment, store, update, transaction_free, history
    <3> QED BY <3>1 DEF HistGrows
  <2> QED BY <2>1, <2>2
<1>5. \A s \in Stripe : version'[s] >= version[s]
  BY StepMonotone
<1> QED BY <1>3, <1>4, <1>5 DEF Moves
-----------------------------------------------------------------------------
(* What a transaction has read, and the word it is reading.                *)
SnapOK(t, w) == w.address \in missed[t] \/ IsSnapshot(w.address, rv[t], w.value)

MissedOK(t) ==
    \A u \in Thread, a \in Addr :
        PendingStore(u, a) /\ wv[u] <= rv[t] => a \in missed[t]

FromMemory(t) == ~IsOwnWrite(t, word[t].address)

NewerStore(t) == \E r \in hist[word[t].address] : r.wv > rv[t]

ReadOK(t) ==
    /\ rv[t] <= clock
    /\ pc[t] = "idle" => obs[t] = {}
    /\ pc[t] # "idle" => MissedOK(t)
    /\ \A w \in obs[t] : SnapOK(t, w)
    /\ pc[t] = "read_lock" /\ FromMemory(t) => SnapOK(t, word[t]) \/ NewerStore(t)
    /\ pc[t] = "read_version" /\ FromMemory(t) =>
          SnapOK(t, word[t]) \/ SeesNewer(find_lock(word[t].address), rv[t])

ReadInv == \A t \in Thread : ReadOK(t)

\* A transaction goes on, with the same read version.
SameStart(t) == pc[t] # "idle" /\ rv'[t] = rv[t] /\ missed'[t] = missed[t]

\* What t missed does not change while its transaction lasts.
LEMMA MissedStable ==
  ASSUME TypeOK, PendingShrinks, NEW t \in Thread, SameStart(t), MissedOK(t), rv[t] <= clock
  PROVE  MissedOK(t)'
<1>1. clock \in Nat /\ rv[t] \in Nat /\ \A u \in Thread : wv[u] \in Nat
  BY DEF TypeOK
<1>2. ASSUME NEW u \in Thread, NEW a \in Addr, PendingStore(u, a)', wv'[u] <= rv[t]
      PROVE  a \in missed[t]
  BY <1>1, <1>2 DEF PendingShrinks, MissedOK
<1> QED BY <1>2 DEF MissedOK, SameStart

\* A snapshot of the past stays one: later stores have newer versions.
LEMMA SnapStable ==
  ASSUME TypeOK, HistGrows, NEW t \in Thread, SameStart(t), MissedOK(t),
         NEW w, w.address \in Addr, SnapOK(t, w)
  PROVE  SnapOK(t, w)'
<1>1. CASE w.address \in missed[t]
  BY <1>1 DEF SnapOK, SameStart
<1>2. CASE w.address \notin missed[t]
  <2> DEFINE a == w.address
  <2>1. PICK r \in hist[a] : /\ r.wv <= rv[t] /\ r.value = w.value
                             /\ \A q \in hist[a] : q.wv <= rv[t] => q.wv <= r.wv
    BY <1>2 DEF SnapOK, IsSnapshot
  <2>2. r \in hist'[a]
    BY DEF HistGrows
  <2>3. ASSUME NEW q \in hist'[a], q.wv <= rv[t] PROVE q.wv <= r.wv
    <3>1. CASE q \in hist[a]
      BY <2>1, <2>3, <3>1
    <3>2. CASE q \notin hist[a]
      BY <1>2, <2>3, <3>2 DEF HistGrows, MissedOK
    <3> QED BY <3>1, <3>2
  <2> QED BY <2>1, <2>2, <2>3 DEF SnapOK, IsSnapshot, SameStart
<1> QED BY <1>1, <1>2

\* Whatever step is taken, a transaction that goes on keeps what it has read.
LEMMA ReadStable ==
  ASSUME TypeOK, Moves, clock' \in Nat, clock <= clock', NEW t \in Thread, ReadOK(t),
         SameStart(t), obs'[t] = obs[t]
  PROVE  /\ rv'[t] <= clock'
         /\ MissedOK(t)'
         /\ \A w \in obs'[t] : SnapOK(t, w)'
<1>1. clock \in Nat /\ rv[t] \in Nat
  BY DEF TypeOK
<1>2. \A w \in obs[t] : w.address \in Addr
  BY DEF TypeOK, WriteNode
<1>3. rv'[t] <= clock'
  BY <1>1 DEF ReadOK, SameStart
<1>4. MissedOK(t)'
  BY MissedStable DEF ReadOK, SameStart, Moves
<1>5. ASSUME NEW w \in obs[t] PROVE SnapOK(t, w)'
  BY <1>2, SnapStable DEF ReadOK, SameStart, Moves
<1> QED BY <1>3, <1>4, <1>5

\* Nor does the word it is reading become one that the validation lets by.
LEMMA CopyStable ==
  ASSUME TypeOK, TypeOK', Moves, NEW t \in Thread, ReadOK(t), SameStart(t), word'[t] = word[t],
         FromMemory(t)
  PROVE  /\ pc[t] = "read_lock" => (SnapOK(t, word[t]) \/ NewerStore(t))'
         /\ pc[t] = "read_version" =>
               (SnapOK(t, word[t]) \/ SeesNewer(find_lock(word[t].address), rv[t]))'
<1> DEFINE a == word[t].address
<1>1. a \in Addr /\ find_lock(a) \in Stripe
  BY FindLockType DEF TypeOK, WriteNode
<1>2. SnapOK(t, word[t]) => SnapOK(t, word[t])'
  <2>1. \A w : w.address \in Addr /\ SnapOK(t, w) => SnapOK(t, w)'
    BY SnapStable DEF ReadOK, SameStart, Moves
  <2> QED BY <1>1, <2>1 DEF SnapOK, IsSnapshot
<1>3. NewerStore(t) => NewerStore(t)'
  BY <1>1 DEF NewerStore, Moves, HistGrows, SameStart
<1>4. SeesNewer(find_lock(a), rv[t]) => SeesNewer(find_lock(a), rv[t])'
  <2>1. version'[find_lock(a)] >= version[find_lock(a)]
    BY <1>1 DEF Moves
  <2>2. version[find_lock(a)] \in Nat /\ version'[find_lock(a)] \in Nat /\ rv[t] \in Nat
    BY <1>1 DEF TypeOK
  <2> QED BY <2>1, <2>2 DEF SeesNewer, SameStart
<1> QED BY <1>2, <1>3, <1>4 DEF ReadOK
-----------------------------------------------------------------------------
\* A freed transaction has read nothing.
LEMMA FreeReadOK ==
  ASSUME TypeOK, TypeOK', NEW t \in Thread, transaction_free(t)
  PROVE  ReadOK(t)'
<1>1. pc'[t] = "idle" /\ rv'[t] = 0 /\ obs'[t] = {}
  BY DEF TypeOK, transaction_free, Goto
<1> QED BY <1>1 DEF ReadOK, TypeOK

\* The word tm_read copies is the snapshot's, or newer than the snapshot.
LEMMA CopyOK ==
  ASSUME CoreInv, NEW t \in Thread, NEW a \in Addr
  PROVE  \/ IsSnapshot(a, rv[t], mem[a])
         \/ \E r \in hist[a] : r.wv > rv[t]
<1>1. PICK r \in hist[a] : r.value = mem[a] /\ \A q \in hist[a] : q # r => q.wv < r.wv
  BY DEF CoreInv, HistInv, MemoryIsNewestStore
<1>2. rv[t] \in Nat /\ \A q \in hist[a] : q.wv \in Nat
  BY DEF CoreInv, LockInv, TypeOK
<1>3. CASE r.wv <= rv[t]
  BY <1>1, <1>2, <1>3 DEF IsSnapshot
<1>4. CASE r.wv > rv[t]
  BY <1>4
<1> QED BY <1>2, <1>3, <1>4

\* With its lock free, a word with a newer store has a newer version.
LEMMA FreeLockCovers ==
  ASSUME CoreInv, NEW a \in Addr, ~locked[find_lock(a)]
  PROVE  /\ \A r \in hist[a] : r.wv <= version[find_lock(a)]
         /\ \A u \in Thread : ~PendingStore(u, a)
<1> TypeOK /\ CursorInv /\ LockOwnership
  BY DEF CoreInv, LockInv
<1>1. \A u \in Thread : \A i \in DOMAIN wset[u] : wset[u][i].address = a => ~Holds(u, i)
  BY FindLockType DEF LockOwnership, TakenIffHeld, NodeStripe
<1>2. \A u \in Thread : ~PendingStore(u, a)
  BY <1>1, PendingHolds
<1>3. ASSUME NEW u \in Thread, pc[u] = "update", cur[u] \in DOMAIN wset[u],
             wset[u][cur[u]].address = a
      PROVE  FALSE
  BY <1>1, <1>3 DEF Holds, TypeOK
<1> QED BY <1>2, <1>3 DEF CoreInv, HistInv, AllCovered, Covered

\* The steps of t keep its reads in the snapshot at rv.
LEMMA OwnReadOK ==
  ASSUME CoreInv, ReadInv, TypeOK', Moves, clock <= clock', NEW t \in Thread,
         Call(t) \/ Proceed(t)
  PROVE  ReadOK(t)'
<1> TypeOK /\ ReadOK(t) /\ clock' \in Nat
  BY DEF CoreInv, LockInv, ReadInv, TypeOK
<1>1. ASSUME transaction_free(t) PROVE ReadOK(t)'
  BY <1>1, FreeReadOK
<1>2. ASSUME SameStart(t), obs'[t] = obs[t], pc'[t] \notin {"idle", "read_lock", "read_version"}
      PROVE  ReadOK(t)'
  BY <1>2, ReadStable DEF ReadOK
<1>3. ASSUME NEW ro \in BOOLEAN, tm_begin(t, ro) PROVE ReadOK(t)'
  <2>1. /\ pc[t] = "idle" /\ pc'[t] = "running" /\ rv'[t] = clock /\ obs' = obs
        /\ clock' = clock
        /\ missed'[t] = {a \in Addr : \E u \in Thread : PendingStore(u, a)}
    BY <1>3 DEF tm_begin, Goto, TypeOK, lockVars
  <2>2. ASSUME NEW u \in Thread, NEW a \in Addr, PendingStore(u, a)', wv'[u] <= clock
        PROVE  PendingStore(u, a)
    BY <2>2 DEF Moves, PendingShrinks, TypeOK
  <2>3. MissedOK(t)'
    BY <2>1, <2>2 DEF MissedOK
  <2> QED BY <2>1, <2>3 DEF ReadOK, TypeOK
<1>4. ASSUME NEW a \in Addr, tm_read(t, a) PROVE ReadOK(t)'
  <2>1. /\ pc[t] = "running" /\ pc'[t] = "read_lock"
        /\ UNCHANGED <<mem, hist, is_ro, rv, wset, wv, obs, missed, clock>>
        /\ word'[t].address = a
        /\ ~IsOwnWrite(t, a) => word'[t].value = mem[a]
    BY <1>4 DEF tm_read, read_set_add, Goto, TypeOK, history, lockVars
  <2>2. SameStart(t) /\ obs'[t] = obs[t]
    BY <2>1 DEF SameStart
  <2>3. FromMemory(t)' => (SnapOK(t, word[t]) \/ NewerStore(t))'
    BY <2>1, CopyOK DEF FromMemory, IsOwnWrite, SnapOK, IsSnapshot, NewerStore
  <2> QED BY <2>1, <2>2, <2>3, ReadStable DEF ReadOK
<1>5. ASSUME NEW a \in Addr, NEW v \in Val, tm_write(t, a, v) PROVE ReadOK(t)'
  BY <1>2, <1>5 DEF tm_write, SameStart, history
<1>6. CASE write_set_add_fails(t)
  BY <1>1, <1>6 DEF write_set_add_fails
<1>7. CASE tm_end(t)
  BY <1>1, <1>2, <1>7 DEF tm_end, SameStart, Goto, TypeOK, locals, history
<1>8. CASE read_lock(t)
  <2>1. CASE SeesLocked(find_lock(word[t].address))
    BY <1>1, <1>8, <2>1 DEF read_lock
  <2>2. CASE ~SeesLocked(find_lock(word[t].address))
    <3> DEFINE a == word[t].address
    <3>1. /\ pc[t] = "read_lock" /\ pc'[t] = "read_version"
          /\ UNCHANGED <<lockVars, mem, locals, history>>
      BY <1>8, <2>2 DEF read_lock, Goto, TypeOK
    <3>2. SameStart(t) /\ obs'[t] = obs[t]
      BY <3>1 DEF SameStart, locals, history
    <3>3. a \in Addr /\ find_lock(a) \in Stripe
      BY FindLockType DEF TypeOK, WriteNode
    <3>4. NewerStore(t) => SeesNewer(find_lock(a), rv[t])
      <4>1. \A r \in hist[a] : r.wv <= version[find_lock(a)]
        BY <2>2, <3>3, FreeLockCovers DEF SeesLocked
      <4> HIDE DEF a
      <4>2. version[find_lock(a)] \in Nat /\ rv[t] \in Nat /\ \A r \in hist[a] : r.wv \in Nat
        <5>1. /\ version \in [Stripe -> Nat] /\ rv \in [Thread -> Nat]
              /\ hist \in [Addr -> SUBSET [wv : Nat, value : Val]]
          BY DEF TypeOK
        <5> QED BY <3>3, <5>1
      <4>3. \A r \in hist[a] : r.wv > rv[t] => version[find_lock(a)] > rv[t]
        BY ONLY <4>1, <4>2
      <4> QED BY <4>3 DEF SeesNewer, NewerStore, a
    <3>5. FromMemory(t) => SnapOK(t, word[t]) \/ SeesNewer(find_lock(a), rv[t])
      BY <3>1, <3>4 DEF ReadOK
    <3>6. FromMemory(t)' =>
            (SnapOK(t, word[t]) \/ SeesNewer(find_lock(word[t].address), rv[t]))'
      BY <3>1, <3>5
         DEF FromMemory, IsOwnWrite, SnapOK, IsSnapshot, SeesNewer, lockVars, locals, history
    <3> QED BY <3>1, <3>2, <3>6, ReadStable DEF ReadOK
  <2> QED BY <2>1, <2>2
<1>9. CASE read_version(t)
  <2>1. CASE SeesNewer(find_lock(word[t].address), rv[t])
    BY <1>1, <1>9, <2>1 DEF read_version
  <2>2. CASE ~SeesNewer(find_lock(word[t].address), rv[t])
    <3>1. /\ pc[t] = "read_version" /\ pc'[t] = "running"
          /\ UNCHANGED <<clock, hist, rv, wset, wv, missed, is_ro>>
          /\ obs'[t] \subseteq obs[t] \cup (IF FromMemory(t) THEN {word[t]} ELSE {})
      BY <1>9, <2>2 DEF read_version, Goto, TypeOK, lockVars, FromMemory
    <3>2. FromMemory(t) => SnapOK(t, word[t])
      BY <2>2, <3>1 DEF ReadOK
    <3>3. SameStart(t)
      BY <3>1 DEF SameStart
    <3>4. \A w \in obs'[t] : SnapOK(t, w)'
      BY <3>1, <3>2 DEF ReadOK, SnapOK, IsSnapshot
    <3>5. MissedOK(t)' /\ rv'[t] <= clock'
      BY <3>1, <3>3, MissedStable DEF ReadOK, Moves
    <3> QED BY <3>1, <3>4, <3>5 DEF ReadOK
  <2> QED BY <2>1, <2>2
<1>10. CASE acquire(t)
  BY <1>2, <1>10 DEF acquire, SameStart, Goto, TypeOK, history
<1>11. CASE spin(t)
  BY <1>2, <1>11 DEF spin, SameStart, Goto, TypeOK, history
<1>12. CASE unlock(t)
  BY <1>1, <1>2, <1>12 DEF unlock, SameStart, history
<1>13. CASE increment(t)
  BY <1>2, <1>13 DEF increment, SameStart, Goto, TypeOK, history
<1>14. CASE validate_lock(t)
  BY <1>2, <1>14 DEF validate_lock, UnlockAll, SameStart, Goto, TypeOK, history
<1>15. CASE validate_version(t)
  BY <1>2, <1>15 DEF validate_version, UnlockAll, SameStart, Goto, TypeOK, history
<1>16. CASE store(t)
  BY <1>1, <1>2, <1>16 DEF store, SameStart, Goto, TypeOK, locals
<1>17. CASE update(t)
  BY <1>2, <1>17 DEF update, SameStart, Goto, TypeOK, locals, history
<1>18. CASE release(t)
  BY <1>2, <1>18 DEF release, SameStart, Goto, TypeOK, history
<1> QED BY <1>3, <1>4, <1>5, <1>6, <1>7, <1>8, <1>9, <1>10, <1>11, <1>12, <1>13, <1>14, <1>15,
           <1>16, <1>17, <1>18 DEF Call, Proceed

\* The steps of another thread do too.
LEMMA OthersReadOK ==
  ASSUME TypeOK, TypeOK', Moves, clock <= clock', ReadInv, NEW t \in Thread, Frame(t),
         NEW u \in Thread \ {t}
  PROVE  ReadOK(u)'
<1> ReadOK(u)
  BY DEF ReadInv
<1>1. /\ pc'[u] = pc[u] /\ rv'[u] = rv[u] /\ missed'[u] = missed[u] /\ obs'[u] = obs[u]
      /\ word'[u] = word[u] /\ (FromMemory(u)' <=> FromMemory(u))
  BY DEF Frame, FromMemory, IsOwnWrite
<1>2. CASE pc[u] = "idle"
  <2>1. rv'[u] <= clock'
    <3>1. rv[u] \in Nat /\ clock \in Nat /\ clock' \in Nat /\ rv[u] <= clock
      BY DEF ReadOK, TypeOK
    <3> QED BY <1>1, <3>1
  <2> QED BY <1>1, <1>2, <2>1 DEF ReadOK
<1>3. CASE pc[u] # "idle"
  <2>1. SameStart(u) /\ clock' \in Nat
    BY <1>1, <1>3 DEF SameStart, TypeOK
  <2> QED BY <1>1, <1>3, <2>1, ReadStable, CopyStable DEF ReadOK
<1> QED BY <1>2, <1>3

\* The clock never goes back.
LEMMA ClockGrows ==
  ASSUME TypeOK, NEW t \in Thread, Call(t) \/ Proceed(t)
  PROVE  clock <= clock'
<1>1. CASE Call(t) \/ Quiet(t) \/ store(t) \/ update(t)
  <2>1. clock' = clock
    BY <1>1, CallVersions, QuietVersions DEF store, update, lockVars
  <2> QED BY <2>1 DEF TypeOK
<1>2. CASE increment(t)
  BY <1>2 DEF increment, IncrementedClock, ToValidate, TypeOK
<1> QED BY <1>1, <1>2 DEF Proceed, Quiet

\* Every reachable state has the reads in the snapshot at rv.
LEMMA ReadInvariant ==
  /\ Init => ReadInv
  /\ CoreInv /\ ReadInv /\ [Next]_vars => ReadInv'
<1>1. Init => ReadInv
  BY DEF Init, shared_lock_init, ReadInv, ReadOK
<1>2. ASSUME CoreInv, ReadInv, [Next]_vars PROVE ReadInv'
  <2> TypeOK /\ TypeOK'
    BY <1>2, StepType DEF CoreInv, LockInv
  <2>1. CASE UNCHANGED vars
    BY <1>2, <2>1 DEF ReadInv, ReadOK, SnapOK, IsSnapshot, MissedOK, FromMemory, IsOwnWrite,
       NewerStore, SeesNewer, PendingStore, vars, lockVars, locals, history
  <2>2. ASSUME NEW t \in Thread, Call(t) \/ Proceed(t) PROVE ReadInv'
    <3>1. Frame(t) /\ Moves /\ clock <= clock'
      BY <1>2, <2>2, CallFrame, ProceedFrame, StepMoves, ClockGrows
    <3>2. ReadOK(t)'
      BY <1>2, <2>2, <3>1, OwnReadOK
    <3>3. \A u \in Thread \ {t} : ReadOK(u)'
      BY <1>2, <3>1, OthersReadOK
    <3> QED BY <3>2, <3>3 DEF ReadInv
  <2> QED BY <1>2, <2>1, <2>2 DEF Next
<1> QED BY <1>1, <1>2

(* What tm_read returns is the word at the read version, or one whose      *)
(* store of an older version was still to come at tm_begin.                *)
THEOREM ReadsFromSnapshot == Spec => []ReadsAtSnapshot
<1>1. CoreInv /\ ReadInv => ReadsAtSnapshot
  BY DEF ReadInv, ReadOK, SnapOK, ReadsAtSnapshot
<1> QED BY <1>1, CoreInvariant, ReadInvariant, PTL DEF Spec
-----------------------------------------------------------------------------
(* What a committing transaction knows of a word it has read: no store     *)
(* between its read version and its write version is there or to come.     *)
NoOlderPending(t, a) ==
    \A u \in Thread : PendingStore(u, a) => wv[u] >= wv[t]

Clean(t, a) ==
    /\ NoOlderPending(t, a)
    /\ \A r \in hist[a] : r.wv <= rv[t] \/ r.wv >= wv[t]

\* Between the look at the lock and the look at the version.
HalfClean(t, a) ==
    /\ NoOlderPending(t, a)
    /\ \A r \in hist[a] : r.wv <= version[find_lock(a)] \/ r.wv >= wv[t]

InReadSet(t, a) == \E i \in DOMAIN rset[t] : rset[t][i] = a

CommitOK(t) ==
    /\ ~is_ro[t] => \A w \in obs[t] : InReadSet(t, w.address)
    /\ ~is_ro[t] /\ pc[t] \in {"read_lock", "read_version"} /\ FromMemory(t) =>
          InReadSet(t, word[t].address)
    /\ pc[t] \in {"acquire", "spin"} \cup Committing => ~is_ro[t]
    /\ pc[t] \in Committing => rv[t] < wv[t]
    /\ pc[t] \in {"validate_lock", "validate_version"} =>
          \A i \in DOMAIN rset[t] : i < cur[t] => Clean(t, rset[t][i])
    /\ pc[t] = "validate_version" =>
          cur[t] \in DOMAIN rset[t] /\ HalfClean(t, rset[t][cur[t]])
    /\ pc[t] \in Storing => \A w \in obs[t] : w.address \in missed[t] \/ Clean(t, w.address)

CommitInv == \A t \in Thread : CommitOK(t)

\* A commit goes on, with the same versions.
SameCommit(t) == pc[t] \in Committing /\ rv'[t] = rv[t] /\ wv'[t] = wv[t]

\* A read set entry that no later store touched stays clean.
LEMMA CleanStable ==
  ASSUME TypeOK, Moves, NEW t \in Thread, SameCommit(t), wv[t] <= clock, NEW a \in Addr
  PROVE  /\ NoOlderPending(t, a) => NoOlderPending(t, a)'
         /\ Clean(t, a) => Clean(t, a)'
<1>1. clock \in Nat /\ wv[t] \in Nat
  BY DEF TypeOK
<1>2. NoOlderPending(t, a) => NoOlderPending(t, a)'
  BY <1>1 DEF NoOlderPending, Moves, PendingShrinks, SameCommit
<1>3. Clean(t, a) => Clean(t, a)'
  BY <1>2 DEF Clean, NoOlderPending, Moves, HistGrows, SameCommit
<1> QED BY <1>2, <1>3

\* So does one whose lock bit has just been seen free.
LEMMA HalfCleanStable ==
  ASSUME TypeOK, TypeOK', Moves, NEW t \in Thread, SameCommit(t), wv[t] <= clock,
         NEW a \in Addr, HalfClean(t, a)
  PROVE  HalfClean(t, a)'
<1>1. NoOlderPending(t, a)'
  BY CleanStable DEF HalfClean
<1>2. /\ find_lock(a) \in Stripe /\ version[find_lock(a)] \in Nat
      /\ version'[find_lock(a)] \in Nat /\ version'[find_lock(a)] >= version[find_lock(a)]
  BY FindLockType DEF TypeOK, Moves
<1>3. ASSUME NEW r \in hist'[a]
      PROVE  r.wv <= version'[find_lock(a)] \/ r.wv >= wv[t]
  <2>1. CASE r \in hist[a]
    <3>1. r.wv \in Nat
      BY <2>1 DEF TypeOK
    <3> QED BY <1>2, <2>1, <3>1 DEF HalfClean
  <2>2. CASE r \notin hist[a]
    BY <1>3, <2>2 DEF HalfClean, NoOlderPending, Moves, HistGrows
  <2> QED BY <2>1, <2>2
<1> QED BY <1>1, <1>3 DEF HalfClean, SameCommit

\* The read set holds addresses.
LEMMA ReadSetType ==
  ASSUME TypeOK, NEW t \in Thread, NEW i \in DOMAIN rset[t]
  PROVE  rset[t][i] \in Addr
<1>1. rset[t] \in Seq(Addr)
  BY DEF TypeOK
<1> QED BY <1>1

\* The steps of another thread keep what a commit has validated.
LEMMA OthersCommitOK ==
  ASSUME CoreInv, TypeOK', Moves, CommitInv, NEW t \in Thread, Frame(t), NEW u \in Thread \ {t}
  PROVE  CommitOK(u)'
<1> TypeOK /\ CommitOK(u) /\ VersionOK(u)
  BY DEF CoreInv, LockInv, VersionInv, CommitInv
<1>1. /\ pc'[u] = pc[u] /\ is_ro'[u] = is_ro[u] /\ rv'[u] = rv[u] /\ wv'[u] = wv[u]
      /\ missed'[u] = missed[u] /\ obs'[u] = obs[u] /\ rset'[u] = rset[u] /\ cur'[u] = cur[u]
      /\ word'[u] = word[u] /\ (FromMemory(u)' <=> FromMemory(u))
      /\ \A a : InReadSet(u, a)' <=> InReadSet(u, a)
  BY DEF Frame, FromMemory, IsOwnWrite, InReadSet
<1>2. CASE pc[u] \notin Committing
  BY <1>1, <1>2 DEF CommitOK, Committing, InReadSet
<1>3. CASE pc[u] \in Committing
  <2>1. SameCommit(u) /\ wv[u] <= clock
    BY <1>1, <1>3 DEF SameCommit, VersionOK
  <2>2. \A a \in Addr : Clean(u, a) => Clean(u, a)'
    BY <2>1, CleanStable
  <2>3. \A a \in Addr : HalfClean(u, a) => HalfClean(u, a)'
    BY <2>1, HalfCleanStable
  <2>4. \A i \in DOMAIN rset[u] : rset[u][i] \in Addr
    BY ReadSetType
  <2>5. \A w \in obs[u] : w.address \in Addr
    BY DEF TypeOK, WriteNode
  <2>6. pc[u] \in {"validate_lock", "validate_version"} =>
          \A i \in DOMAIN rset[u] : i < cur[u] => Clean(u, rset[u][i])'
    <3> SUFFICES ASSUME pc[u] \in {"validate_lock", "validate_version"},
                        NEW i \in DOMAIN rset[u], i < cur[u]
                 PROVE  Clean(u, rset[u][i])'
      OBVIOUS
    <3> DEFINE a == rset[u][i]
    <3>1. Clean(u, a) /\ a \in Addr /\ a' = a
      BY <1>1, <2>4 DEF CommitOK
    <3>2. \A b \in Addr : b = a => Clean(u, b)'
      BY <2>2, <3>1
    <3> QED BY <3>1, <3>2 DEF Clean, NoOlderPending
  <2>7. pc[u] = "validate_version" =>
          cur[u] \in DOMAIN rset[u] /\ HalfClean(u, rset[u][cur[u]])'
    BY <1>1, <2>3, <2>4 DEF CommitOK, HalfClean, NoOlderPending
  <2>8. pc[u] \in Storing =>
          \A w \in obs[u] : w.address \in missed[u] \/ Clean(u, w.address)'
    BY <2>2, <2>5 DEF CommitOK
  <2> QED BY <1>1, <1>3, <2>6, <2>7, <2>8
          DEF CommitOK, Committing, Storing, Clean, HalfClean, NoOlderPending
<1> QED BY <1>2, <1>3

\* Outside the commit only the read set matters.
LEMMA NotCommitting ==
  ASSUME TypeOK, NEW t \in Thread, CommitOK(t), pc'[t] \notin Committing,
         pc'[t] \notin {"read_lock", "read_version"}, UNCHANGED <<is_ro, rset, obs>>,
         pc'[t] \in {"acquire", "spin"} => ~is_ro[t]
  PROVE  CommitOK(t)'
  BY DEF CommitOK, InReadSet, Committing, Storing

\* A freed transaction has nothing to validate.
LEMMA FreeCommitOK ==
  ASSUME TypeOK, NEW t \in Thread, transaction_free(t)
  PROVE  CommitOK(t)'
<1>1. pc'[t] = "idle" /\ obs'[t] = {}
  BY DEF TypeOK, transaction_free, Goto
<1> QED BY <1>1 DEF CommitOK, Committing, Storing

\* The calls of t keep the read set and what was read in agreement.
LEMMA CallCommitOK ==
  ASSUME CoreInv, CommitInv, NEW t \in Thread, ReadOK(t), Call(t)
  PROVE  CommitOK(t)'
<1> TypeOK /\ CommitOK(t)
  BY DEF CoreInv, LockInv, CommitInv
<1> USE DEF Committing, Storing
<1>1. ASSUME NEW ro \in BOOLEAN, tm_begin(t, ro) PROVE CommitOK(t)'
  <2>1. pc'[t] = "running" /\ obs'[t] = {}
    BY <1>1 DEF tm_begin, Goto, TypeOK, ReadOK
  <2> QED BY <2>1 DEF CommitOK
<1>2. ASSUME NEW a \in Addr, tm_read(t, a) PROVE CommitOK(t)'
  <2>1. /\ pc'[t] = "read_lock" /\ UNCHANGED <<is_ro, wset, obs>>
        /\ word'[t].address = a
        /\ IF IsOwnWrite(t, a) \/ is_ro[t] THEN rset' = rset
           ELSE rset'[t] = Append(rset[t], a)
    BY <1>2 DEF tm_read, read_set_add, Goto, TypeOK, history
  <2>2. rset[t] \in Seq(Addr)
    BY DEF TypeOK
  <2>3. ASSUME ~is_ro[t], ~IsOwnWrite(t, a)
        PROVE  InReadSet(t, a)' /\ \A b : InReadSet(t, b) => InReadSet(t, b)'
    <3>1. /\ rset'[t] = Append(rset[t], a) /\ Len(rset[t]) \in Nat
          /\ DOMAIN rset[t] = 1 .. Len(rset[t])
      BY <2>1, <2>2, <2>3, LenProperties
    <3>2. /\ DOMAIN rset'[t] = 1 .. Len(rset[t]) + 1 /\ rset'[t][Len(rset[t]) + 1] = a
          /\ \A i \in 1 .. Len(rset[t]) : rset'[t][i] = rset[t][i]
      BY <2>2, <3>1, AppendProperties
    <3> QED BY <3>1, <3>2 DEF InReadSet
  <2>4. FromMemory(t)' <=> ~IsOwnWrite(t, a)
    BY <2>1 DEF FromMemory, IsOwnWrite
  <2> QED BY <2>1, <2>3, <2>4 DEF CommitOK, InReadSet
<1>3. ASSUME NEW a \in Addr, NEW v \in Val, tm_write(t, a, v) PROVE CommitOK(t)'
  BY <1>3, NotCommitting DEF tm_write, history
<1>4. CASE write_set_add_fails(t)
  BY <1>4, FreeCommitOK DEF write_set_add_fails
<1>5. CASE tm_end(t)
  BY <1>5, FreeCommitOK, NotCommitting DEF tm_end, Goto, TypeOK, locals, history
<1> QED BY <1>1, <1>2, <1>3, <1>4, <1>5 DEF Call

\* The write version rv + 1: every store of an older version was there or
\* missed at tm_begin, so there is nothing to validate.
LEMMA ShortcutClean ==
  ASSUME CoreInv, ReadInv, Moves, NEW t \in Thread, increment(t), clock + 1 = rv[t] + 1,
         NEW a \in Addr, a \notin missed[t]
  PROVE  Clean(t, a)'
<1> TypeOK /\ ReadOK(t)
  BY DEF CoreInv, LockInv, ReadInv
<1>1. /\ clock \in Nat /\ rv[t] \in Nat /\ clock = rv[t] /\ pc[t] = "acquire"
      /\ wv'[t] = clock + 1 /\ rv' = rv /\ hist' = hist
  BY DEF increment, IncrementedClock, ToValidate, TypeOK, history
<1>2. ASSUME NEW u \in Thread, PendingStore(u, a)' PROVE wv'[u] >= wv'[t]
  <2>1. CASE PendingStore(u, a) /\ wv'[u] = wv[u]
    <3>1. wv[u] \in Nat /\ ~(wv[u] <= rv[t])
      BY <1>1, <2>1 DEF ReadOK, MissedOK, TypeOK
    <3> QED BY <1>1, <2>1, <3>1
  <2>2. CASE wv'[u] = clock + 1
    BY <1>1, <2>2
  <2> QED BY <1>2, <2>1, <2>2 DEF Moves, PendingShrinks
<1>3. \A r \in hist[a] : r.wv <= rv[t] \/ r.wv >= clock + 1
  BY <1>1 DEF TypeOK
<1> QED BY <1>1, <1>2, <1>3 DEF Clean, NoOlderPending

\* Every step of tm_end keeps what it has validated so far.
LEMMA ProceedCommitOK ==
  ASSUME CoreInv, TypeOK', ReadInv, CommitInv, Moves, NEW t \in Thread, Proceed(t)
  PROVE  CommitOK(t)'
<1> TypeOK /\ CommitOK(t) /\ ReadOK(t) /\ VersionOK(t)
  BY DEF CoreInv, LockInv, VersionInv, ReadInv, CommitInv
<1> USE DEF Committing, Storing
<1>1. \A w \in obs[t] : w.address \in Addr
  BY DEF TypeOK, WriteNode
<1>2. ASSUME transaction_free(t) PROVE CommitOK(t)'
  BY <1>2, FreeCommitOK
<1>3. CASE read_lock(t)
  <2>1. CASE SeesLocked(find_lock(word[t].address))
    BY <1>2, <1>3, <2>1 DEF read_lock
  <2>2. CASE ~SeesLocked(find_lock(word[t].address))
    <3>1. /\ pc[t] = "read_lock" /\ pc'[t] = "read_version"
          /\ UNCHANGED <<is_ro, rset, wset, obs, word>>
      BY <1>3, <2>2 DEF read_lock, Goto, TypeOK, locals, history
    <3> QED BY <3>1 DEF CommitOK, InReadSet, FromMemory, IsOwnWrite
  <2> QED BY <2>1, <2>2
<1>4. CASE read_version(t)
  <2>1. CASE SeesNewer(find_lock(word[t].address), rv[t])
    BY <1>2, <1>4, <2>1 DEF read_version
  <2>2. CASE ~SeesNewer(find_lock(word[t].address), rv[t])
    <3>1. /\ pc[t] = "read_version" /\ pc'[t] = "running" /\ UNCHANGED <<is_ro, rset>>
          /\ obs'[t] \subseteq obs[t] \cup (IF FromMemory(t) THEN {word[t]} ELSE {})
      BY <1>4, <2>2 DEF read_version, Goto, TypeOK, FromMemory
    <3> QED BY <3>1 DEF CommitOK, InReadSet
  <2> QED BY <2>1, <2>2
<1>5. CASE acquire(t)
  <2>1. /\ pc[t] = "acquire" /\ pc'[t] \in {"acquire", "spin"}
        /\ UNCHANGED <<is_ro, rset, obs>>
    BY <1>5 DEF acquire, Goto, TypeOK, history
  <2> QED BY <2>1, NotCommitting DEF CommitOK
<1>6. CASE spin(t)
  <2>1. /\ pc[t] = "spin" /\ pc'[t] \in {"acquire", "spin", "unlock"}
        /\ UNCHANGED <<is_ro, rset, obs>>
    BY <1>6 DEF spin, Goto, TypeOK, history
  <2> QED BY <2>1, NotCommitting DEF CommitOK
<1>7. CASE unlock(t)
  <2>1. CASE cur[t] # stop[t]
    BY <1>7, <2>1, NotCommitting DEF unlock, history
  <2>2. CASE cur[t] = stop[t]
    BY <1>2, <1>7, <2>2 DEF unlock
  <2> QED BY <2>1, <2>2
<1>8. CASE increment(t)
  <2>1. /\ pc[t] = "acquire" /\ UNCHANGED <<is_ro, rv, rset, obs, missed>>
        /\ wv'[t] = clock + 1 /\ cur'[t] = 1
        /\ pc'[t] = IF clock + 1 # rv[t] + 1 THEN "validate_lock" ELSE "store"
    BY <1>8 DEF increment, IncrementedClock, ToValidate, Goto, TypeOK, history
  <2>2. rv[t] < wv'[t]
    BY <2>1 DEF ReadOK, TypeOK
  <2>3. \A i \in DOMAIN rset[t] : ~(i < cur'[t])
    BY <2>1, LenProperties DEF TypeOK
  <2>4. pc'[t] = "store" => \A w \in obs[t] : w.address \in missed[t] \/ Clean(t, w.address)'
    BY <1>1, <1>8, <2>1, ShortcutClean
  <2> QED BY <2>1, <2>2, <2>3, <2>4 DEF CommitOK, InReadSet, Clean, NoOlderPending
<1>9. ASSUME pc[t] \in Committing, UNCHANGED <<is_ro, rv, rset, wv, obs, missed>>,
             pc'[t] \in Storing,
             \A w \in obs[t] : w.address \in missed[t] \/ Clean(t, w.address)
      PROVE  CommitOK(t)'
  <2>1. \A a \in Addr : Clean(t, a) => Clean(t, a)'
    BY <1>9, CleanStable DEF SameCommit, VersionOK
  <2>2. \A w \in obs[t] : w.address \in missed[t] \/ Clean(t, w.address)'
    BY <1>1, <1>9, <2>1
  <2> QED BY <1>9, <2>2 DEF CommitOK, InReadSet, Clean, NoOlderPending
<1>10. ASSUME pc[t] \in Committing, UNCHANGED <<is_ro, rv, rset, wv, obs, clock>>,
              UnlockAll(t)
       PROVE  CommitOK(t)'
  <2>1. pc'[t] = "unlock"
    BY <1>10 DEF UnlockAll, Goto, TypeOK
  <2> QED BY <1>10, <2>1, NotCommitting
<1>11. CASE validate_lock(t)
  <2>1. /\ pc[t] = "validate_lock"
        /\ UNCHANGED <<lockVars, is_ro, rv, rset, wset, wv, history>>
    BY <1>11 DEF validate_lock
  <2>2. CASE cur[t] > Len(rset[t])
    <3>1. pc'[t] = "store"
      <4>1. cur[t] \in Nat /\ Len(rset[t]) \in Nat /\ pc \in [Thread -> Label]
        BY LenProperties DEF TypeOK
      <4>2. ~ cur[t] <= Len(rset[t])
        BY <2>2, <4>1
      <4>3. Goto(t, "store")
        BY <1>11, <4>2 DEF validate_lock
      <4> QED BY <4>1, <4>3 DEF Goto
    <3>2. \A i \in DOMAIN rset[t] : i < cur[t]
      BY <2>2, LenProperties DEF TypeOK
    <3>3. \A w \in obs[t] : Clean(t, w.address)
      BY <2>1, <3>2 DEF CommitOK, InReadSet
    <3> QED BY <1>9, <2>1, <3>1, <3>3 DEF history
  <2>3. CASE cur[t] <= Len(rset[t]) /\ SeesLocked(ReadStripe(t))
    BY <1>10, <1>11, <2>1, <2>3, LenProperties DEF validate_lock, TypeOK, lockVars, history
  <2>4. CASE cur[t] <= Len(rset[t]) /\ ~SeesLocked(ReadStripe(t))
    <3> DEFINE a == rset[t][cur[t]]
    <3>1. pc'[t] = "validate_version" /\ cur' = cur /\ hist' = hist
      BY <1>11, <2>4, LenProperties DEF validate_lock, Goto, TypeOK, history
    <3>2. cur[t] \in DOMAIN rset[t] /\ a \in Addr
      <4>1. DOMAIN rset[t] = 1 .. Len(rset[t]) /\ cur[t] \in Nat \ {0}
        BY LenProperties DEF TypeOK
      <4> QED BY <2>4, <4>1, ReadSetType
    <3>3. HalfClean(t, a)
      BY <2>4, <3>2, FreeLockCovers DEF HalfClean, NoOlderPending, SeesLocked, ReadStripe
    <3>4. SameCommit(t) /\ wv[t] <= clock
      BY <2>1 DEF SameCommit, VersionOK
    <3>5. \A b \in Addr : HalfClean(t, b) => HalfClean(t, b)'
      BY <3>4, HalfCleanStable
    <3>8. \A b \in Addr : Clean(t, b) => Clean(t, b)'
      BY <3>4, CleanStable
    <3>6. HalfClean(t, a)'
      <4>1. \A b \in Addr : b = a => HalfClean(t, b)'
        BY <3>2, <3>3, <3>5
      <4> QED BY <2>1, <3>1, <3>2, <4>1 DEF HalfClean, NoOlderPending
    <3>7. ASSUME NEW i \in DOMAIN rset[t], i < cur[t] PROVE Clean(t, rset[t][i])'
      <4>1. rset[t][i] \in Addr /\ Clean(t, rset[t][i])
        BY <2>1, <3>7, ReadSetType DEF CommitOK
      <4>2. \A b \in Addr : b = rset[t][i] => Clean(t, b)'
        BY <3>8, <4>1
      <4> QED BY <2>1, <4>1, <4>2 DEF Clean, NoOlderPending
    <3> QED BY <2>1, <3>1, <3>2, <3>6, <3>7 DEF CommitOK, InReadSet, history
  <2> QED BY <1>11, <2>2, <2>3, <2>4 DEF validate_lock
<1>12. CASE validate_version(t)
  <2>1. /\ pc[t] = "validate_version"
        /\ UNCHANGED <<lockVars, is_ro, rv, rset, wset, wv, history>>
    BY <1>12 DEF validate_version
  <2>2. CASE SeesNewer(ReadStripe(t), rv[t])
    BY <1>10, <1>12, <2>1, <2>2 DEF validate_version, lockVars, history
  <2>3. CASE ~SeesNewer(ReadStripe(t), rv[t])
    <3> DEFINE a == rset[t][cur[t]]
    <3>1. pc'[t] = "validate_lock" /\ cur'[t] = cur[t] + 1
      BY <1>12, <2>3 DEF validate_version, Goto, TypeOK
    <3>2. cur[t] \in DOMAIN rset[t] /\ a \in Addr /\ cur[t] \in Nat
      BY <2>1, ReadSetType DEF CommitOK, TypeOK
    <3>3. Clean(t, a)
      <4>1. version[find_lock(a)] \in Nat /\ rv[t] \in Nat /\ version[find_lock(a)] <= rv[t]
        <5>1. find_lock(a) \in Stripe
          BY <3>2, FindLockType
        <5>2. version[find_lock(a)] \in Nat /\ rv[t] \in Nat
          BY <5>1 DEF TypeOK
        <5>3. ~(version[find_lock(a)] > rv[t])
          BY <2>3, Zenon DEF SeesNewer, ReadStripe
        <5> QED BY ONLY <5>2, <5>3
      <4>2. \A r \in hist[a] : r.wv \in Nat
        BY <3>2 DEF TypeOK
      <4> QED BY <2>1, <4>1, <4>2 DEF Clean, CommitOK, HalfClean
    <3>4. \A b \in Addr : Clean(t, b) => Clean(t, b)'
      BY <2>1, CleanStable DEF SameCommit, VersionOK
    <3>5. ASSUME NEW i \in DOMAIN rset[t], i < cur[t] + 1 PROVE Clean(t, rset[t][i])'
      <4>1. i < cur[t] \/ i = cur[t]
        <5>1. DOMAIN rset[t] = 1 .. Len(rset[t])
          BY LenProperties DEF TypeOK
        <5> QED BY ONLY <3>2, <3>5, <5>1
      <4>2. rset[t][i] \in Addr /\ Clean(t, rset[t][i])
        BY <2>1, <3>3, <4>1, ReadSetType DEF CommitOK
      <4>3. \A b \in Addr : b = rset[t][i] => Clean(t, b)'
        BY <3>4, <4>2
      <4> QED BY <2>1, <4>2, <4>3 DEF Clean, NoOlderPending
    <3> QED BY <2>1, <3>1, <3>5 DEF CommitOK, InReadSet, history
  <2> QED BY <2>2, <2>3
<1>13. CASE store(t)
  <2>1. CASE cur[t] <= Len(wset[t])
    <3>1. /\ pc[t] = "store" /\ pc'[t] = "update"
          /\ UNCHANGED <<is_ro, rv, rset, wv, obs, missed>>
      BY <1>13, <2>1 DEF store, Goto, TypeOK, locals
    <3> QED BY <1>9, <3>1 DEF CommitOK
  <2>2. CASE ~(cur[t] <= Len(wset[t]))
    BY <1>2, <1>13, <2>2 DEF store
  <2> QED BY <2>1, <2>2
<1>14. CASE update(t) \/ release(t)
  <2>1. /\ pc[t] \in Storing /\ pc'[t] \in Storing
        /\ UNCHANGED <<is_ro, rv, rset, wv, obs, missed>>
    BY <1>14 DEF update, release, Goto, TypeOK, locals, history
  <2> QED BY <1>9, <2>1 DEF CommitOK
<1> QED BY <1>3, <1>4, <1>5, <1>6, <1>7, <1>8, <1>11, <1>12, <1>13, <1>14 DEF Proceed

\* Every reachable state has its validated reads current.
LEMMA CommitInvariant ==
  /\ Init => CommitInv
  /\ CoreInv /\ ReadInv /\ CommitInv /\ [Next]_vars => CommitInv'
<1>1. Init => CommitInv
  BY DEF Init, CommitInv, CommitOK, Committing, Storing
<1>2. ASSUME CoreInv, ReadInv, CommitInv, [Next]_vars PROVE CommitInv'
  <2> TypeOK /\ TypeOK'
    BY <1>2, StepType DEF CoreInv, LockInv
  <2>1. CASE UNCHANGED vars
    BY <1>2, <2>1 DEF CommitInv, CommitOK, InReadSet, Clean, HalfClean, NoOlderPending,
       FromMemory, IsOwnWrite, PendingStore, vars, lockVars, locals, history
  <2>2. ASSUME NEW t \in Thread, Call(t) \/ Proceed(t) PROVE CommitInv'
    <3>1. Frame(t) /\ Moves
      BY <1>2, <2>2, CallFrame, ProceedFrame, StepMoves
    <3>2. CommitOK(t)'
      BY <1>2, <2>2, <3>1, CallCommitOK, ProceedCommitOK DEF ReadInv
    <3>3. \A u \in Thread \ {t} : CommitOK(u)'
      BY <1>2, <3>1, OthersCommitOK
    <3> QED BY <3>2, <3>3 DEF CommitInv
  <2> QED BY <1>2, <2>1, <2>2 DEF Next
<1> QED BY <1>1, <1>2

\* Validated reads that are current are of the snapshot before wv.
LEMMA ValidatedIsSerial == CoreInv /\ ReadInv /\ CommitInv => CommitsSerializable
<1> SUFFICES ASSUME CoreInv, ReadInv, CommitInv, NEW t \in Thread, pc[t] \in Storing,
                    NEW w \in obs[t], w.address \notin missed[t]
             PROVE  IsSnapshot(w.address, wv[t] - 1, w.value)
  BY DEF CommitsSerializable
<1> DEFINE a == w.address
<1>1. /\ rv[t] \in Nat /\ wv[t] \in Nat /\ rv[t] < wv[t] /\ a \in Addr
      /\ \A r \in hist[a] : r.wv \in Nat
  BY DEF CoreInv, LockInv, TypeOK, CommitInv, CommitOK, Committing, Storing, WriteNode
<1>2. Clean(t, a)
  BY DEF CommitInv, CommitOK
<1>3. PICK r \in hist[a] : /\ r.wv <= rv[t] /\ r.value = w.value
                           /\ \A q \in hist[a] : q.wv <= rv[t] => q.wv <= r.wv
  BY DEF ReadInv, ReadOK, SnapOK, IsSnapshot
<1>4. \A q \in hist[a] : q.wv <= wv[t] - 1 => q.wv <= r.wv
  BY <1>1, <1>2, <1>3 DEF Clean
<1> QED BY <1>1, <1>3, <1>4 DEF IsSnapshot

(* A transaction that stores read the words of the snapshot just before    *)
(* its write version, whether it validated or took the rv + 1 shortcut,    *)
(* but for the words it missed.                                            *)
THEOREM CommitsSerialize == Spec => []CommitsSerializable
BY ValidatedIsSerial, CoreInvariant, ReadInvariant, CommitInvariant, PTL DEF Spec
=============================================================================
