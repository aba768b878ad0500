----------------------------- MODULE Rendezvous -----------------------------
(***************************************************************************)
(* What a reusable barrier promises its processes: the n-th call of sync   *)
(* returns only when every process has made its n-th call.                 *)
(***************************************************************************)
EXTENDS Naturals

CONSTANT Process

VARIABLES arrived, returned    \* calls of sync made, and returned from

Init ==
    /\ arrived  = [p \in Process |-> 0]
    /\ returned = [p \in Process |-> 0]

Arrive(p) ==
    /\ arrived[p] = returned[p]
    /\ arrived' = [arrived EXCEPT ![p] = @ + 1]
    /\ UNCHANGED returned

Return(p) ==
    /\ returned[p] < arrived[p]
    /\ \A q \in Process : arrived[p] <= arrived[q]
    /\ returned' = [returned EXCEPT ![p] = @ + 1]
    /\ UNCHANGED arrived

Next == \E p \in Process : Arrive(p) \/ Return(p)

Spec == Init /\ [][Next]_<<arrived, returned>>
=============================================================================
