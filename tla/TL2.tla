-------------------------------- MODULE TL2 ---------------------------------
(***************************************************************************)
(* The transactional memory of 335740/tm.c over its shared lock, read sets *)
(* and write sets, for any number of threads that each run one transaction *)
(* at a time.                                                              *)
(*                                                                         *)
(* One action is one access to shared memory, with the thread-local code   *)
(* up to the next one.  The sources target x86 (emmintrin.h): stores of a  *)
(* thread become visible in program order, loads are done in program       *)
(* order, and atomic_exchange, the atomic add and atomic_store are full    *)
(* barriers, so interleaving these accesses gives the outcomes a build of  *)
(* the code can produce for words that memcpy moves in one access.         *)
(***************************************************************************)
EXTENDS SharedLock, WriteSet, FiniteSets

CONSTANTS
    Thread,      \* the threads that run transactions
    Addr,        \* the addresses of the words of the region
    Val,         \* the values of a word
    MaxClock,    \* bound: transactions stop starting so that clock <= MaxClock
    MaxReads     \* bound: entries of a read set

ASSUME TL2Assumption ==
    /\ Addr # {} /\ Addr \subseteq Nat
    /\ 0 \in Val
    /\ MaxClock \in Nat /\ MaxReads \in Nat

VARIABLES
    mem,         \* the words of the region
    pc,          \* where each thread is (see Label)
    is_ro, rv,   \* struct transaction: read-only flag and read version,
    rset, wset,  \* addresses read, nodes written
    wv,          \* write version, a local of tm_end
    cur, stop,   \* list cursor of the loops of tm_end, and where unlock_write_set stops
    bound,       \* failed looks at a taken lock in versioned_spinlock_acquire
    word,        \* the word tm_read has copied and not yet validated
    \* History variables: they record, no action reads them.
    hist,        \* hist[a]: every value stored at a, with its write version
    obs,         \* obs[t]: what tm_read returned to t from shared memory
    missed       \* missed[t]: words that had a store still to come, from a
                 \* transaction with a write version, when t began

locals == <<is_ro, rv, rset, wset, wv, cur, stop, bound, word>>
history == <<hist, obs, missed>>
vars == <<lockVars, mem, pc, locals, history>>

Label == {"idle",                \* outside any transaction
          "running",             \* in a transaction, between two calls
          "read_lock", "read_version",          \* tm_read, validating
          "acquire", "spin",                    \* lock_write_set
          "unlock",                             \* unlock_write_set
          "validate_lock", "validate_version",  \* validate_read_set
          "store", "update", "release"}         \* store_write_set

NoWord == [address |-> CHOOSE a \in Addr : TRUE, value |-> 0]

\* The spinlock of the write node, or of the read node, under the cursor.
WriteStripe(t) == find_lock(wset[t][cur[t]].address)
ReadStripe(t)  == find_lock(rset[t][cur[t]])

\* tm_read answers from the write set.
IsOwnWrite(t, a) == ~is_ro[t] /\ write_node_find(wset[t], a) # NULL

Goto(t, label) == pc' = [pc EXCEPT ![t] = label]

\* t has a write version and may still store into address a.
PendingStore(t, a) ==
    \E i \in DOMAIN wset[t] :
        /\ wset[t][i].address = a
        /\ \/ pc[t] \in {"validate_lock", "validate_version"}
           \/ pc[t] = "store" /\ i >= cur[t]
           \/ pc[t] \in {"update", "release"} /\ i > cur[t]

\* Read-write transactions that have not incremented the clock so far.
ToIncrement ==
    {t \in Thread : ~is_ro[t] /\ pc[t] \in {"running", "read_lock", "read_version",
                                           "acquire", "spin"}}
-----------------------------------------------------------------------------
(* tm_create: the region and its words, all zero, no transaction.          *)
Init ==
    /\ shared_lock_init
    /\ mem    = [a \in Addr |-> 0]
    /\ pc     = [t \in Thread |-> "idle"]
    /\ is_ro  = [t \in Thread |-> FALSE]
    /\ rv     = [t \in Thread |-> 0]
    /\ rset   = [t \in Thread |-> <<>>]
    /\ wset   = [t \in Thread |-> <<>>]
    /\ wv     = [t \in Thread |-> 0]
    /\ cur    = [t \in Thread |-> 1]
    /\ stop   = [t \in Thread |-> 1]
    /\ bound  = [t \in Thread |-> 0]
    /\ word   = [t \in Thread |-> NoWord]
    /\ hist   = [a \in Addr |-> {[wv |-> 0, value |-> 0]}]
    /\ obs    = [t \in Thread |-> {}]
    /\ missed = [t \in Thread |-> {}]

(* transaction_cleanup and free: every field is back to what a fresh       *)
(* transaction has, and the thread is outside any transaction.             *)
transaction_free(t) ==
    /\ Goto(t, "idle")
    /\ is_ro'  = [is_ro EXCEPT ![t] = FALSE]
    /\ rv'     = [rv EXCEPT ![t] = 0]
    /\ rset'   = [rset EXCEPT ![t] = <<>>]
    /\ wset'   = [wset EXCEPT ![t] = <<>>]
    /\ wv'     = [wv EXCEPT ![t] = 0]
    /\ cur'    = [cur EXCEPT ![t] = 1]
    /\ stop'   = [stop EXCEPT ![t] = 1]
    /\ bound'  = [bound EXCEPT ![t] = 0]
    /\ word'   = [word EXCEPT ![t] = NoWord]
    /\ obs'    = [obs EXCEPT ![t] = {}]
    /\ missed' = [missed EXCEPT ![t] = {}]
    /\ UNCHANGED hist

(* tm_begin samples the clock.  A read-write transaction increments it at  *)
(* most once, so the guard keeps clock <= MaxClock.                        *)
tm_begin(t, ro) ==
    /\ pc[t] = "idle"
    /\ ro \/ clock + Cardinality(ToIncrement) < MaxClock
    /\ Goto(t, "running")
    /\ is_ro'  = [is_ro EXCEPT ![t] = ro]
    /\ rv'     = [rv EXCEPT ![t] = clock]
    /\ missed' = [missed EXCEPT ![t] = {a \in Addr : \E u \in Thread : PendingStore(u, a)}]
    /\ UNCHANGED <<lockVars, mem, rset, wset, wv, cur, stop, bound, word, hist, obs>>

\* The new read node is the last one, and an address may have several.
read_set_add(rs, a) == Append(rs, a)

(* tm_read, one word: the copy.  A word of the write set is copied from    *)
(* there; any other enters the read set of a read-write transaction.       *)
tm_read(t, a) ==
    /\ pc[t] = "running"
    /\ Goto(t, "read_lock")
    /\ IF IsOwnWrite(t, a)
       THEN /\ word' = [word EXCEPT ![t] =
                           [address |-> a,
                            value   |-> wset[t][write_node_find(wset[t], a)].value]]
            /\ UNCHANGED rset
       ELSE /\ Len(rset[t]) < MaxReads
            /\ word' = [word EXCEPT ![t] = [address |-> a, value |-> mem[a]]]
            /\ rset' = IF is_ro[t] THEN rset
                       ELSE [rset EXCEPT ![t] = read_set_add(@, a)]
    /\ UNCHANGED <<lockVars, mem, is_ro, rv, wset, wv, cur, stop, bound, history>>

(* tm_read: the word just copied is validated, lock bit then version, even *)
(* when it came from the write set.  Failing, the transaction is freed.    *)
read_lock(t) ==
    /\ pc[t] = "read_lock"
    /\ UNCHANGED <<lockVars, mem>>
    /\ IF SeesLocked(find_lock(word[t].address))
       THEN transaction_free(t)
       ELSE Goto(t, "read_version") /\ UNCHANGED <<locals, history>>

read_version(t) ==
    /\ pc[t] = "read_version"
    /\ UNCHANGED <<lockVars, mem>>
    /\ IF SeesNewer(find_lock(word[t].address), rv[t])
       THEN transaction_free(t)
       ELSE /\ Goto(t, "running")
            /\ word' = [word EXCEPT ![t] = NoWord]
            /\ obs'  = IF IsOwnWrite(t, word[t].address) THEN obs
                       ELSE [obs EXCEPT ![t] = @ \cup {word[t]}]
            /\ UNCHANGED <<is_ro, rv, rset, wset, wv, cur, stop, bound, hist, missed>>

(* tm_write, one word: the write set only.                                 *)
tm_write(t, a, v) ==
    /\ pc[t] = "running"
    /\ ~is_ro[t]
    /\ wset' = [wset EXCEPT ![t] = WritePut(@, a, v)]
    /\ UNCHANGED <<lockVars, mem, pc, is_ro, rv, rset, wv, cur, stop, bound, word, history>>

(* write_set_add finds no memory for the value of a new node: tm_write     *)
(* cleans the transaction up and returns false.  The nodes themselves are  *)
(* not seen to fail, as the test in write_node_create and read_node_create *)
(* is of the pointer to the new node and not of the node; and a tm_begin   *)
(* without memory returns invalid_tx and changes nothing.                  *)
write_set_add_fails(t) ==
    /\ pc[t] = "running"
    /\ ~is_ro[t]
    /\ \E a \in Addr : ~IsOwnWrite(t, a)
    /\ transaction_free(t)
    /\ UNCHANGED <<lockVars, mem>>
-----------------------------------------------------------------------------
(* tm_end.  A read-only transaction is over; a read-write one goes on to   *)
(* lock its write set, in the order of the list.                           *)
tm_end(t) ==
    /\ pc[t] = "running"
    /\ UNCHANGED <<lockVars, mem>>
    /\ IF is_ro[t] THEN transaction_free(t)
       ELSE Goto(t, "acquire") /\ UNCHANGED <<locals, history>>

(* lock_write_set: the atomic exchange of versioned_spinlock_acquire.      *)
acquire(t) ==
    /\ pc[t] = "acquire"
    /\ cur[t] <= Len(wset[t])
    /\ LockExchange(WriteStripe(t))
    /\ IF SeesLocked(WriteStripe(t))
       THEN Goto(t, "spin") /\ UNCHANGED <<cur, bound>>
       ELSE /\ cur'   = [cur EXCEPT ![t] = @ + 1]
            /\ bound' = [bound EXCEPT ![t] = 0]
            /\ UNCHANGED pc
    /\ UNCHANGED <<clock, version, mem, is_ro, rv, rset, wset, wv, stop, word, history>>

(* The spin: give up after SpinLimit + 1 looks, and unlock what was locked *)
(* before this node; or look again, and retry the exchange once it is free.*)
spin(t) ==
    /\ pc[t] = "spin"
    /\ IF SpinOver(bound[t])
       THEN /\ Goto(t, "unlock")
            /\ stop'  = [stop EXCEPT ![t] = cur[t]]
            /\ cur'   = [cur EXCEPT ![t] = 1]
            /\ bound' = [bound EXCEPT ![t] = 0]
       ELSE /\ bound' = [bound EXCEPT ![t] = CountLook(@)]
            /\ Goto(t, IF SeesLocked(WriteStripe(t)) THEN "spin" ELSE "acquire")
            /\ UNCHANGED <<cur, stop>>
    /\ UNCHANGED <<lockVars, mem, is_ro, rv, rset, wset, wv, word, history>>

(* unlock_write_set, then the cleanup of the failed tm_end.                *)
unlock(t) ==
    /\ pc[t] = "unlock"
    /\ UNCHANGED <<clock, version, mem>>
    /\ IF cur[t] # stop[t]
       THEN /\ versioned_spinlock_release(WriteStripe(t))
            /\ cur' = [cur EXCEPT ![t] = @ + 1]
            /\ UNCHANGED <<pc, is_ro, rv, rset, wset, wv, stop, bound, word, history>>
       ELSE transaction_free(t) /\ UNCHANGED locked

\* A bug: the clock before the increment stands in for wv.
ToValidate_OldClock(t) == clock # rv[t] + 1

\* With no commit since tm_begin the read set need not be validated.
ToValidate(t) == IncrementedClock # rv[t] + 1

(* Every node is locked: take a write version.                             *)
increment(t) ==
    /\ pc[t] = "acquire"
    /\ cur[t] > Len(wset[t])
    /\ clock' = IncrementedClock
    /\ wv'    = [wv EXCEPT ![t] = IncrementedClock]
    /\ cur'   = [cur EXCEPT ![t] = 1]
    /\ Goto(t, IF ToValidate(t) THEN "validate_lock" ELSE "store")
    /\ UNCHANGED <<locked, version, mem, is_ro, rv, rset, wset, stop, bound, word, history>>

\* A bug: the walk stops at the last node instead of after it.
UnlockAll_OffByOne(t) ==
    /\ Goto(t, "unlock")
    /\ cur'  = [cur EXCEPT ![t] = 1]
    /\ stop' = [stop EXCEPT ![t] = Len(wset[t])]

\* unlock_write_set from the first node to the NULL after the last.
UnlockAll(t) ==
    /\ Goto(t, "unlock")
    /\ cur'  = [cur EXCEPT ![t] = 1]
    /\ stop' = [stop EXCEPT ![t] = Len(wset[t]) + 1]

(* validate_read_set: per node the lock bit, then the version; at the end  *)
(* of the list the transaction is committed to its stores.  A lock bit the *)
(* transaction set itself fails the validation like any other.             *)
validate_lock(t) ==
    /\ pc[t] = "validate_lock"
    /\ \/ /\ cur[t] > Len(rset[t])
          /\ Goto(t, "store")
          /\ cur' = [cur EXCEPT ![t] = 1]
          /\ UNCHANGED stop
       \/ /\ cur[t] <= Len(rset[t])
          /\ IF SeesLocked(ReadStripe(t)) THEN UnlockAll(t)
             ELSE Goto(t, "validate_version") /\ UNCHANGED <<cur, stop>>
    /\ UNCHANGED <<lockVars, mem, is_ro, rv, rset, wset, wv, bound, word, history>>

validate_version(t) ==
    /\ pc[t] = "validate_version"
    /\ IF SeesNewer(ReadStripe(t), rv[t]) THEN UnlockAll(t)
       ELSE /\ Goto(t, "validate_lock")
            /\ cur' = [cur EXCEPT ![t] = @ + 1]
            /\ UNCHANGED stop
    /\ UNCHANGED <<lockVars, mem, is_ro, rv, rset, wset, wv, bound, word, history>>

(* store_write_set: per node the memcpy, the version, the release; then    *)
(* the transaction is freed and tm_end returns true.                       *)
store(t) ==
    /\ pc[t] = "store"
    /\ UNCHANGED lockVars
    /\ IF cur[t] <= Len(wset[t])
       THEN LET node == wset[t][cur[t]]
            IN  /\ mem'  = [mem EXCEPT ![node.address] = node.value]
                /\ hist' = [hist EXCEPT ![node.address] =
                               @ \cup {[wv |-> wv[t], value |-> node.value]}]
                /\ Goto(t, "update")
                /\ UNCHANGED <<locals, obs, missed>>
       ELSE transaction_free(t) /\ UNCHANGED mem

update(t) ==
    /\ pc[t] = "update"
    /\ versioned_spinlock_update(WriteStripe(t), wv[t])
    /\ Goto(t, "release")
    /\ UNCHANGED <<clock, locked, mem, locals, history>>

release(t) ==
    /\ pc[t] = "release"
    /\ versioned_spinlock_release(WriteStripe(t))
    /\ cur' = [cur EXCEPT ![t] = @ + 1]
    /\ Goto(t, "store")
    /\ UNCHANGED <<clock, version, mem, is_ro, rv, rset, wset, wv, stop, bound, word, history>>
-----------------------------------------------------------------------------
(* What a client calls, and the steps a call goes on with until it returns.*)
Call(t) ==
    \/ \E ro \in BOOLEAN : tm_begin(t, ro)
    \/ \E a \in Addr : tm_read(t, a)
    \/ \E a \in Addr, v \in Val : tm_write(t, a, v)
    \/ write_set_add_fails(t)
    \/ tm_end(t)

Proceed(t) ==
    \/ read_lock(t) \/ read_version(t)
    \/ acquire(t) \/ spin(t) \/ unlock(t) \/ increment(t)
    \/ validate_lock(t) \/ validate_version(t)
    \/ store(t) \/ update(t) \/ release(t)

Next == \E t \in Thread : Call(t) \/ Proceed(t)

Spec == Init /\ [][Next]_vars
=============================================================================
