-------------------------------- MODULE Bank --------------------------------
(***************************************************************************)
(* The transfers and audits of WorkloadBank (workload.hpp) between the     *)
(* accounts of one segment.  A word holds a balance relative to the        *)
(* initial one, so the balances add up to 0; the reads of the count and of *)
(* the next pointer of the segment, which no transfer writes, are left out.*)
(***************************************************************************)
EXTENDS Transactional, Functions

\* What a closure of the bank does: it assigns a Shared<> only what it has just
\* read from it plus an amount, and one account gets what the others lose; a
\* read-only closure assigns none and reads every account once.
Closures ==
    {c \in [ro : BOOLEAN,
            ops : Seq([kind : {"read", "add"}, address : Addr, amount : Int])] :
        /\ \A i \in DOMAIN c.ops :
              /\ c.ops[i].kind = "read" => c.ops[i].amount = 0
              /\ c.ops[i].kind = "add" =>
                    /\ ~c.ro /\ i > 1
                    /\ c.ops[i - 1].kind = "read" /\ c.ops[i - 1].address = c.ops[i].address
        /\ SumFunction([i \in DOMAIN c.ops |-> c.ops[i].amount]) = 0
        /\ c.ro => /\ \A a \in Addr : \E i \in DOMAIN c.ops : c.ops[i].address = a
                   /\ \A i, j \in DOMAIN c.ops : c.ops[i].address = c.ops[j].address => i = j}

ASSUME BankAssumption ==
    /\ IsFiniteSet(Thread) /\ IsFiniteSet(Addr) /\ Val = Int
    /\ Calls \in [Thread -> Seq(Closures)]

\* short_tx with enough money: one unit from account s to account r.
short_tx(s, r) ==
    [ro |-> FALSE, ops |-> <<Read(s), Add(s, -1), Read(r), Add(r, 1)>>]

\* long_tx over two accounts: the sum of what they hold.
long_tx(s, r) == [ro |-> TRUE, ops |-> <<Read(s), Read(r)>>]

\* What the calls that workers have finished add to account a.
Amounts(closure, a) ==
    [i \in DOMAIN closure.ops |->
        IF closure.ops[i].address = a THEN closure.ops[i].amount ELSE 0]
Effect(closure, a) == SumFunction(Amounts(closure, a))
Returned(t, a) == SumFunction([k \in 1 .. call[t] - 1 |-> Effect(Calls[t][k], a)])
Applied(a) == SumFunction([t \in Thread |-> Returned(t, a)])

Total(balance) == SumFunctionOnSet(balance, Addr)

\* No transaction is between its first store and its return.
Settled == \A t \in Thread : pc[t] \notin Storing
-----------------------------------------------------------------------------
(* An audit adds up, unless it, or a transfer before it, read a word that  *)
(* was still to be stored by an older commit when it began: every other    *)
(* interleaving with transfers gives it one snapshot.                      *)
AuditsAddUp ==
    \A t \in Thread :
        AtEnd(t) /\ Closure(t).ro /\ ~Missed(t) /\ ~tainted => SumFunction(got[t]) = 0

(* Every transfer that has returned is in the accounts once, and nothing   *)
(* else is, as long as no transaction stores after reading a word it       *)
(* missed: a retry, an abort half way, a commit counted as refused or a    *)
(* concurrent transfer over the same accounts would show in one of them.   *)
TransfersApplyOnce == Settled /\ ~tainted => \A a \in Addr : mem[a] = Applied(a)
-----------------------------------------------------------------------------
(* "Consistency check: no money should ever be destroyed or created out of *)
(* thin air" (workload.hpp:180), in what the transfers leave in memory.    *)
NoMoneyLost == Settled => Total(mem) = 0
=============================================================================
