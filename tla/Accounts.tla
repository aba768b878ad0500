------------------------------ MODULE Accounts ------------------------------
(***************************************************************************)
(* WorkloadBank (workload.hpp): the bank of accounts in linked segments,   *)
(* and the workers that initialize it, run random transactions over it and *)
(* check a counter in its place, round after round.  Transactions take     *)
(* effect at once, as AtomicMemory promises, and may be refused any number *)
(* of times before; a refused one leaves nothing but what its closure has  *)
(* changed outside of the memory.                                          *)
(***************************************************************************)
EXTENDS Integers, SequencesExt, FiniteSetsExt

CONSTANTS
    Worker, First,   \* the threads, and the one with uid 0
    NbAccounts,      \* nbaccounts: of the first segment, and at most of each
    InitBalance,     \* init_balance
    NbTx, NbCheck,   \* nbtxperwrk, of run and of check (100 in the code)
    NbRepeats,       \* nbrepeats: the rounds of run, 7 in the code
    MaxTrigger       \* bound: the triggers drawn for alloc_tx

ASSUME AccountsAssumption ==
    /\ IsFiniteSet(Worker) /\ First \in Worker
    /\ NbAccounts \in Nat \ {0} /\ InitBalance \in Nat
    /\ NbTx \in Nat /\ NbCheck \in Nat \ {0} /\ NbRepeats \in Nat /\ MaxTrigger \in Nat

VARIABLES
    bank,            \* the segments: parity, and balances (count is their number)
    counter,         \* what check makes of the first word
    round, repeats,  \* "init", "run" or "check"; rounds of run to come
    pc, left,        \* each worker: where it is, transactions to come
    count,           \* ... the "loosely updated" number of accounts
    asked, ids,      \* ... the arguments of short_tx; what they are by now
    last             \* ... the counter it has fetched

workerVars == <<pc, left, count, asked, ids, last>>
vars == <<bank, counter, round, repeats, workerVars>>

Goto(w, label) == pc' = [pc EXCEPT ![w] = label]

\* The first segment is zero when tm_create returns.
Init ==
    /\ bank = <<[parity |-> 0, accounts |-> <<>>]>>
    /\ counter = 0 /\ round = "init" /\ repeats = NbRepeats
    /\ pc    = [w \in Worker |-> "fill"]
    /\ left  = [w \in Worker |-> NbTx]
    /\ count = [w \in Worker |-> NbAccounts]
    /\ asked = [w \in Worker |-> <<0, 0>>]
    /\ ids   = [w \in Worker |-> <<0, 0>>]
    /\ last  = [w \in Worker |-> 0]

\* The number of accounts in the first k segments.
Sizes     == [m \in DOMAIN bank |-> Len(bank[m].accounts)]
Before(k) == SumFunctionOnSet(Sizes, 1 .. k)
Total     == Before(Len(bank))

Held(segment) == segment.parity + SumFunction(segment.accounts)
Money         == SumFunction([m \in DOMAIN bank |-> Held(bank[m])])
-----------------------------------------------------------------------------
(* WorkloadBank::init, which every worker runs: two transactions.          *)
init_fill(w) ==
    /\ pc[w] = "fill"
    /\ bank' = [bank EXCEPT ![1].accounts = [i \in 1 .. NbAccounts |-> InitBalance]]
    /\ Goto(w, "verify")
    /\ UNCHANGED <<counter, round, repeats, left, count, asked, ids, last>>

init_verify(w) ==
    /\ pc[w] = "verify"
    /\ Goto(w, IF bank[1].accounts[1] = InitBalance THEN "done" ELSE "bad")
    /\ UNCHANGED <<bank, counter, round, repeats, left, count, asked, ids, last>>
-----------------------------------------------------------------------------
(* WorkloadBank::run: NbTx transactions at random, and a last audit.       *)
Running(w) == round = "run" /\ pc[w] = "loop"

Done(w) == left' = [left EXCEPT ![w] = @ - 1]

\* long_tx: no account is overdrawn, and the money adds up.
Sound ==
    /\ \A m \in DOMAIN bank : \A i \in DOMAIN bank[m].accounts : bank[m].accounts[i] >= 0
    /\ Money = InitBalance * Total

long_tx(w) ==
    /\ Running(w) /\ left[w] > 0
    /\ IF Sound THEN count' = [count EXCEPT ![w] = Total] /\ Done(w) /\ UNCHANGED pc
                ELSE Goto(w, "bad") /\ UNCHANGED <<count, left>>
    /\ UNCHANGED <<bank, counter, round, repeats, asked, ids, last>>

last_long_tx(w) ==
    /\ Running(w) /\ left[w] = 0
    /\ Goto(w, IF Sound THEN "done" ELSE "bad")
    /\ UNCHANGED <<bank, counter, round, repeats, left, count, asked, ids, last>>

\* alloc_tx takes the last account away; what it held beyond the initial
\* balance is kept as parity, by the segment before if this one goes too.
\* A bug: the parity goes with the segment.
Correction(segment) == segment.parity + Last(segment.accounts) - InitBalance

Removed_ParityLost ==
    IF Len(Last(bank).accounts) > 1
    THEN [bank EXCEPT ![Len(bank)] = [parity |-> Correction(@), accounts |-> Front(@.accounts)]]
    ELSE Front(bank)

Removed ==
    IF Len(Last(bank).accounts) > 1
    THEN [bank EXCEPT ![Len(bank)] = [parity |-> Correction(@), accounts |-> Front(@.accounts)]]
    ELSE [Front(bank) EXCEPT ![Len(bank) - 1].parity = @ + Correction(Last(bank))]

HasRoom == Len(Last(bank).accounts) < NbAccounts

Added ==
    IF HasRoom
    THEN [bank EXCEPT ![Len(bank)].accounts = Append(@, InitBalance)]
    ELSE Append(bank, [parity |-> 0, accounts |-> <<InitBalance>>])

\* A bug: nothing keeps the last accounts.
TooMany_Any(trigger) == Total > trigger
TooMany(trigger) == Total > trigger /\ Total > 2

alloc_tx(w) ==
    /\ Running(w) /\ left[w] > 0
    /\ \E trigger \in 0 .. MaxTrigger : bank' = IF TooMany(trigger) THEN Removed ELSE Added
    /\ Done(w)
    /\ UNCHANGED <<counter, round, repeats, pc, count, asked, ids, last>>

\* TransactionAlloc leaves the closure, which has written nothing, and the run.
alloc_tx_throws(w) ==
    /\ Running(w) /\ left[w] > 0 /\ ~HasRoom
    /\ \E trigger \in 0 .. MaxTrigger : ~TooMany(trigger)
    /\ Goto(w, "thrown")
    /\ UNCHANGED <<bank, counter, round, repeats, left, count, asked, ids, last>>

\* The segment an index is in when counted from the first one (one past the
\* last, if none), and what is left of it when k segments have been looked at.
Home(i) == Min({m \in DOMAIN bank : i < Before(m)} \cup {Len(bank) + 1})
Looked(i, k) == i - Before(Min({k, Home(i) - 1}))

short_tx(w) ==
    /\ Running(w) /\ left[w] > 0
    /\ \E s, r \in 0 .. count[w] - 1 : asked' = [asked EXCEPT ![w] = <<s, r>>]
    /\ ids' = asked'
    /\ Goto(w, "short")
    /\ UNCHANGED <<bank, counter, round, repeats, left, count, last>>

\* The closure has captured send_id and recv_id by reference.
short_tx_refused(w) ==
    /\ pc[w] = "short"
    /\ \E k \in DOMAIN bank :
          ids' = [ids EXCEPT ![w] = <<Looked(@[1], k), Looked(@[2], k)>>]
    /\ UNCHANGED <<bank, counter, round, repeats, pc, left, count, asked, last>>

Back(w) ==
    /\ Goto(w, "loop")
    /\ asked' = [asked EXCEPT ![w] = <<0, 0>>]
    /\ ids'   = [ids EXCEPT ![w] = <<0, 0>>]
    /\ UNCHANGED <<counter, round, repeats, count, last>>

Exists(i) == i < Total

\* It returns false, and is called again with other indices.
short_tx_missing(w) ==
    /\ pc[w] = "short" /\ ~(Exists(ids[w][1]) /\ Exists(ids[w][2]))
    /\ Back(w) /\ UNCHANGED <<bank, left>>

Balance(b, i) == b[Home(i)].accounts[Looked(i, Len(bank)) + 1]
Pay(b, i, amount) ==
    [b EXCEPT ![Home(i)].accounts[Looked(i, Len(bank)) + 1] = @ + amount]

\* A bug: an account is overdrawn.
Solvent_Always(i) == TRUE
Solvent(i) == Balance(bank, i) > 0

short_tx_commits(w) ==
    /\ pc[w] = "short" /\ Exists(ids[w][1]) /\ Exists(ids[w][2])
    /\ bank' = IF Solvent(ids[w][1]) THEN Pay(Pay(bank, ids[w][1], -1), ids[w][2], 1) ELSE bank
    /\ Back(w) /\ Done(w)

run(w) ==
    \/ long_tx(w) \/ last_long_tx(w) \/ alloc_tx(w) \/ alloc_tx_throws(w) \/ short_tx(w)
    \/ short_tx_refused(w) \/ short_tx_missing(w) \/ short_tx_commits(w)
-----------------------------------------------------------------------------
(* WorkloadBank::check: uid 0 sets the counter, and looks; ...             *)
check_set(w) ==
    /\ pc[w] = "set"
    /\ counter' = NbCheck * Cardinality(Worker)
    /\ bank' = <<>>
    /\ Goto(w, "see")
    /\ UNCHANGED <<round, repeats, left, count, asked, ids, last>>

check_see(w) ==
    /\ pc[w] = "see"
    /\ Goto(w, IF counter = NbCheck * Cardinality(Worker) THEN "fetch" ELSE "bad")
    /\ UNCHANGED <<bank, counter, round, repeats, left, count, asked, ids, last>>

\* ... everybody counts down, in two transactions each time, whatever uid 0
\* has seen, ...
check_fetch(w) ==
    /\ pc[w] = "fetch" /\ pc[First] \notin {"set", "see"}
    /\ last' = [last EXCEPT ![w] = counter]
    /\ Goto(w, "decrease")
    /\ UNCHANGED <<bank, counter, round, repeats, left, count, asked, ids>>

\* A bug: what was fetched is decreased, not what is read in the transaction.
Decreased_Fetched(w) == last[w] - 1
Decreased(w) == counter - 1

check_decrease(w) ==
    /\ pc[w] = "decrease"
    /\ IF counter > last[w]
       THEN Goto(w, "bad") /\ UNCHANGED <<counter, left>>
       ELSE /\ counter' = Decreased(w)
            /\ Done(w)
            /\ Goto(w, IF left[w] > 1 THEN "fetch" ELSE IF w = First THEN "zero" ELSE "done")
    /\ UNCHANGED <<bank, round, repeats, count, asked, ids, last>>

\* ... and uid 0 looks again when all are through.
check_zero(w) ==
    /\ pc[w] = "zero" /\ \A v \in Worker \ {w} : pc[v] \in {"done", "bad"}
    /\ Goto(w, IF counter = 0 THEN "done" ELSE "bad")
    /\ UNCHANGED <<bank, counter, round, repeats, left, count, asked, ids, last>>

check(w) ==
    \/ check_set(w) \/ check_see(w) \/ check_fetch(w) \/ check_decrease(w) \/ check_zero(w)
-----------------------------------------------------------------------------
(* The rounds of measure: init, run again and again, by whatever bank the  *)
(* last one has left and by the first number of accounts, and check.  A    *)
(* worker that has failed is in no later one.                              *)
next_round ==
    /\ \A w \in Worker : pc[w] = "done"
    /\ \/ /\ round # "check" /\ repeats > 0
          /\ round' = "run" /\ repeats' = repeats - 1
          /\ pc' = [w \in Worker |-> "loop"]
          /\ left'  = [w \in Worker |-> NbTx]
          /\ count' = [w \in Worker |-> NbAccounts]
       \/ /\ round # "check" /\ repeats = 0
          /\ round' = "check"
          /\ pc' = [w \in Worker |-> IF w = First THEN "set" ELSE "fetch"]
          /\ left' = [w \in Worker |-> NbCheck]
          /\ UNCHANGED <<repeats, count>>
    /\ UNCHANGED <<bank, counter, asked, ids, last>>

Next ==
    \/ next_round
    \/ \E w \in Worker : init_fill(w) \/ init_verify(w) \/ run(w) \/ check(w)

Spec == Init /\ [][Next]_vars
-----------------------------------------------------------------------------
(* Every variable has its type.                                            *)
AccountsTypeOK ==
    /\ bank \in Seq([parity : Int, accounts : Seq(Nat)])
    /\ counter \in Nat
    /\ round \in {"init", "run", "check"} /\ repeats \in Nat
    /\ pc \in [Worker -> {"fill", "verify", "loop", "short", "set", "see", "fetch",
                          "decrease", "zero", "done", "bad", "thrown"}]
    /\ left \in [Worker -> 0 .. NbTx + NbCheck]
    /\ count \in [Worker -> Nat \ {0}]
    /\ asked \in [Worker -> Nat \X Nat] /\ ids \in [Worker -> Nat \X Nat]
    /\ last \in [Worker -> Nat]

(* No money appears or vanishes, whatever accounts and segments are added  *)
(* and removed by whom: the parity of what is left makes up for what an    *)
(* account held when it was removed, also when its segment goes with it.   *)
BankAddsUp == Money = InitBalance * Total

(* The segments are full but for the last one, which is never empty, and   *)
(* at least two accounts stay: alloc_tx never has to free the first        *)
(* segment (TransactionNotLastSegment), and a worker that goes by an old   *)
(* number of accounts can still draw two that exist.                       *)
SegmentsFilled ==
    round = "run" =>
        /\ \A m \in 1 .. Len(bank) - 1 : Len(bank[m].accounts) = NbAccounts
        /\ Len(Last(bank).accounts) \in 1 .. NbAccounts
        /\ Total >= Min({NbAccounts, 2})

(* "False negative-free check" (workload.hpp:74): over a memory that is    *)
(* atomic no worker ever reports an error, whatever is refused or retried, *)
(* and in whatever order the workers run.  Out of memory is no such error: *)
(* it is an exception ("thrown"), which measure reports as what it is.     *)
NoFalseAlarm == \A w \in Worker : pc[w] # "bad"
-----------------------------------------------------------------------------
(* "send_id: Index of the sender account, recv_id: Index of the receiver   *)
(* account" (workload.hpp:228-229): a transfer is between those two.       *)
TransfersAsAsked ==
    [][\A w \in Worker :
          pc[w] = "short" /\ left'[w] < left[w] =>
              LET send == asked[w][1]  recv == asked[w][2]
              IN  /\ Exists(send) /\ Exists(recv)
                  /\ Solvent(send) => bank' = Pay(Pay(bank, send, -1), recv, 1)]_vars
=============================================================================
