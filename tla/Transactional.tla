--------------------------- MODULE Transactional ----------------------------
(***************************************************************************)
(* Workers that run transaction closures over the transactional memory of  *)
(* TL2, as transactional() and class Transaction of transactional.hpp do:  *)
(* a closure whose read or commit is refused is run again from its start,  *)
(* in a new transaction, until it commits.  Memory does not run out here:  *)
(* no write is refused for want of a node (TL2 models that), and tm_begin  *)
(* never returns invalid_tx, which would be thrown as TransactionBegin and *)
(* end the worker between two transactions, as one that takes no more      *)
(* steps.                                                                  *)
(***************************************************************************)
EXTENDS TL2Inv

CONSTANT
    Calls        \* Calls[t]: the closures worker t runs, one after the other

VARIABLES
    call,        \* call[t]: the call of transactional() worker t is in
    op,          \* op[t]: the operation its closure does next
    got,         \* got[t]: the values read since the closure was started
    tainted      \* history: a transaction that had read a word it missed
                 \* has gone on to its stores

workerVars == <<call, op, got, tainted>>
allVars == <<vars, workerVars>>

\* An operation of a closure: a Shared<> that is read, or one that is assigned
\* the value read last plus an amount.
Read(a)    == [kind |-> "read", address |-> a, amount |-> 0]
Add(a, by) == [kind |-> "add", address |-> a, amount |-> by]

Finished(t) == call[t] > Len(Calls[t])
Closure(t)  == Calls[t][call[t]]
AtEnd(t)    == ~Finished(t) /\ pc[t] = "running" /\ op[t] > Len(Closure(t).ops)
Current(t, kind) ==
    /\ ~Finished(t) /\ op[t] <= Len(Closure(t).ops)
    /\ Closure(t).ops[op[t]].kind = kind

Missed(t) == \E w \in obs[t] : w.address \in missed[t]

WorkerInit ==
    /\ Init
    /\ call    = [t \in Thread |-> 1]
    /\ op      = [t \in Thread |-> 1]
    /\ got     = [t \in Thread |-> <<>>]
    /\ tainted = FALSE

(* The constructor of Transaction.                                         *)
begin(t) ==
    /\ ~Finished(t)
    /\ tm_begin(t, Closure(t).ro)
    /\ UNCHANGED workerVars

(* Transaction::read; its value is there when tm_read returns.             *)
read(t) ==
    /\ Current(t, "read")
    /\ tm_read(t, Closure(t).ops[op[t]].address)
    /\ UNCHANGED workerVars

(* Transaction::write.                                                     *)
write(t) ==
    /\ Current(t, "add")
    /\ LET o == Closure(t).ops[op[t]]
       IN  tm_write(t, o.address, got[t][Len(got[t])] + o.amount)
    /\ op' = [op EXCEPT ![t] = @ + 1]
    /\ UNCHANGED <<call, got, tainted>>

(* A bug: the call is counted done when its commit is refused.             *)
MovesOn_Always(t) == TRUE

\* The transaction has ended: from its stores or, read-only, from tm_end.
MovesOn(t) == pc[t] \in {"store", "running"}

(* The transaction is over: the loop goes on to the next call if it has    *)
(* committed, and otherwise catches TransactionRetry and starts it again.  *)
over(t) ==
    /\ call'    = IF MovesOn(t) THEN [call EXCEPT ![t] = @ + 1] ELSE call
    /\ op'      = [op EXCEPT ![t] = 1]
    /\ got'     = [got EXCEPT ![t] = <<>>]

(* The destructor of Transaction, the closure having returned.             *)
end(t) ==
    /\ AtEnd(t)
    /\ tm_end(t)
    /\ IF pc'[t] = "idle" THEN over(t) ELSE UNCHANGED <<call, op, got>>
    /\ UNCHANGED tainted

(* The transactional memory goes on with the call the worker is in.        *)
proceed(t) ==
    /\ Proceed(t)
    /\ IF pc'[t] = "idle" THEN over(t)
       ELSE IF pc[t] = "read_version"
       THEN /\ got' = [got EXCEPT ![t] = Append(@, word[t].value)]
            /\ op'  = [op EXCEPT ![t] = @ + 1]
            /\ UNCHANGED call
       ELSE UNCHANGED <<call, op, got>>
    /\ tainted' = (tainted \/ (pc'[t] = "store" /\ Missed(t)))

Worker(t) == begin(t) \/ read(t) \/ write(t) \/ end(t) \/ proceed(t)

WorkerNext == \E t \in Thread : Worker(t)

WorkerSpec == WorkerInit /\ [][WorkerNext]_allVars

\* The scheduler lets every worker that can run go on.
FairWorkerSpec == WorkerSpec /\ \A t \in Thread : WF_allVars(Worker(t))
-----------------------------------------------------------------------------
\* The read-write closures worker t has still to commit.
ToCommit(t) == {k \in call[t] .. Len(Calls[t]) : ~Calls[t][k].ro}

LastOne(t) == \A u \in Thread \ {t} : Finished(u)

(* A worker that is the last one left, and is between two transactions,    *)
(* finishes its calls, whatever locks and versions the others left behind: *)
(* no commit that was refused keeps a lock, and a closure that nobody      *)
(* disturbs is not refused again and again.  The bound on the clock is no  *)
(* way out: where it has room for one increment for each closure to come,  *)
(* one is enough.                                                          *)
LastWorkerFinishes ==
    \A t \in Thread :
        (/\ LastOne(t) /\ pc[t] = "idle"
         /\ clock + Cardinality(ToCommit(t)) <= MaxClock) ~> Finished(t)

(* "Repeat a given transaction until it commits" (transactional.hpp:605).  *)
EveryCallCommits == \A t \in Thread : <>Finished(t)
=============================================================================
