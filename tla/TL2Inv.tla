------------------------------- MODULE TL2Inv -------------------------------
(***************************************************************************)
(* What the transactional memory of TL2 keeps true.                        *)
(***************************************************************************)
EXTENDS TL2

NodeStripe(t, i) == find_lock(wset[t][i].address)

\* Transaction t has the spinlock of the i-th node of its write set.
Holds(t, i) ==
    /\ i \in DOMAIN wset[t]
    /\ \/ pc[t] \in {"acquire", "spin"} /\ i < cur[t]
       \/ pc[t] = "unlock" /\ cur[t] <= i /\ i < stop[t]
       \/ pc[t] \in {"validate_lock", "validate_version"}
       \/ pc[t] \in {"store", "update", "release"} /\ cur[t] <= i

TakenIffHeld ==
    \A s \in Stripe :
        locked[s] <=> \E t \in Thread : \E i \in DOMAIN wset[t] :
                          Holds(t, i) /\ NodeStripe(t, i) = s

OneHolder ==
    \A t, u \in Thread : \A i \in DOMAIN wset[t], j \in DOMAIN wset[u] :
        Holds(t, i) /\ Holds(u, j) /\ NodeStripe(t, i) = NodeStripe(u, j)
           => t = u /\ i = j

\* v is what address a holds once every store of a version up to n is done.
IsSnapshot(a, n, v) ==
    \E r \in hist[a] :
        /\ r.wv <= n /\ r.value = v
        /\ \A q \in hist[a] : q.wv <= n => q.wv <= r.wv

Storing == {"store", "update", "release"}
-----------------------------------------------------------------------------
(* Every variable has its type: cursors stay inside the lists they walk    *)
(* and the spin counter inside its limit.                                  *)
TypeOK ==
    /\ clock \in Nat
    /\ locked \in [Stripe -> BOOLEAN]
    /\ version \in [Stripe -> Nat]
    /\ mem \in [Addr -> Val]
    /\ pc \in [Thread -> Label]
    /\ is_ro \in [Thread -> BOOLEAN]
    /\ rv \in [Thread -> Nat]
    /\ rset \in [Thread -> Seq(Addr)]
    /\ wset \in [Thread -> Seq(WriteNode(Addr, Val))]
    /\ wv \in [Thread -> Nat]
    /\ cur \in [Thread -> Nat \ {0}]
    /\ stop \in [Thread -> Nat \ {0}]
    /\ bound \in [Thread -> 0 .. SpinLimit + 1]
    /\ word \in [Thread -> WriteNode(Addr, Val)]
    /\ hist \in [Addr -> SUBSET [wv : Nat, value : Val]]
    /\ obs \in [Thread -> SUBSET WriteNode(Addr, Val)]
    /\ missed \in [Thread -> SUBSET Addr]

(* The lock bits and the progress of the committing transactions agree: a  *)
(* spinlock is taken exactly when one node of one transaction in tm_end    *)
(* has it, over every acquisition, failure and release path.  The code     *)
(* keeps no owner, so nothing else stops a release of another's lock, a    *)
(* lock left behind by an abort, or two committers on one word.            *)
LockOwnership == TakenIffHeld /\ OneHolder

(* write_node_find keeps one node per address: a second one would make     *)
(* lock_write_set wait for a lock the transaction itself holds.            *)
OneNodePerAddress == \A t \in Thread : Distinct(wset[t])

(* The version of a spinlock never goes back, although write versions are  *)
(* handed out by one counter and written by any thread at any later time:  *)
(* validation compares with rv and would trust a word it must refuse.      *)
VersionsMonotone == [][\A s \in Stripe : version'[s] >= version[s]]_vars

(* A word holds the value stored under its highest write version, and no   *)
(* two transactions stored at it under one version: store_write_set never  *)
(* lets a slow committer bury the store of a later one.                    *)
MemoryIsNewestStore ==
    \A a \in Addr : \E r \in hist[a] :
        /\ r.value = mem[a]
        /\ \A q \in hist[a] : q # r => q.wv < r.wv

(* Whatever tm_read returned is the value of the snapshot at rv, unless    *)
(* the word still awaited a store of an older version when the transaction *)
(* began: with no commit between its increment and its stores at tm_begin, *)
(* all reads of a transaction, aborted ones too, are of one snapshot.      *)
ReadsAtSnapshot ==
    \A t \in Thread : \A w \in obs[t] :
        w.address \in missed[t] \/ IsSnapshot(w.address, rv[t], w.value)

(* A read-write transaction that reaches its stores read, up to the same   *)
(* exception, the values of the snapshot just before its write version:    *)
(* the committed transactions are serializable in the order of wv, the     *)
(* rv + 1 shortcut that skips validation included.                         *)
CommitsSerializable ==
    \A t \in Thread : pc[t] \in Storing =>
        \A w \in obs[t] :
            w.address \in missed[t] \/ IsSnapshot(w.address, wv[t] - 1, w.value)

(* A transaction that also writes a spinlock it read commits only when no  *)
(* other has incremented the clock since it began, be it on unrelated      *)
(* words: validate_read_set takes its own lock bits for another's, and the *)
(* rv + 1 shortcut around validate_read_set is the only way through.       *)
OwnLocksFailValidation ==
    \A t \in Thread :
        /\ pc[t] \in Storing
        /\ \E i \in DOMAIN rset[t], j \in DOMAIN wset[t] :
              find_lock(rset[t][i]) = NodeStripe(t, j)
        => wv[t] = rv[t] + 1

(* Every call returns: write sets are locked in program order, not in a    *)
(* global one, so only the bounded spin keeps two committers that wait for *)
(* each other from waiting forever.                                        *)
CallsReturn ==
    \A t \in Thread : pc[t] \notin {"idle", "running"} ~> pc[t] \in {"idle", "running"}
=============================================================================
