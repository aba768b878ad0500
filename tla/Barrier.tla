------------------------------- MODULE Barrier ------------------------------
(***************************************************************************)
(* The spin barrier of grading/common.hpp, by which the workers of the     *)
(* correctness check wait for each other.  sync counts its callers up in   *)
(* mode enter; the last one switches to mode leave, in which they count    *)
(* themselves down; the last one out switches back, and only then does     *)
(* anybody return.  One action is one access to step or mode.              *)
(***************************************************************************)
EXTENDS Naturals, FiniteSets

CONSTANTS
    Process,     \* the threads that synchronize
    MaxSyncs     \* bound: the calls of sync each of them makes

ASSUME BarrierAssumption ==
    IsFiniteSet(Process) /\ Process # {} /\ MaxSyncs \in Nat

VARIABLES
    step,        \* number of processes inside
    mode,        \* "enter" or "leave"
    place,       \* where each process is in sync (see Place)
    arrived,     \* calls of sync each process has made
    returned     \* ... and returned from

barrierVars == <<step, mode, place, arrived, returned>>

Place == {"out",             \* not in sync
          "set_leave",       \* the last to enter
          "await_leave",     \* another one
          "leaving",         \* through, and still counted
          "set_enter",       \* the last to leave
          "await_enter"}     \* another one

cardinal == Cardinality(Process)

Move(p, to) == place' = [place EXCEPT ![p] = to]

BarrierInit ==
    /\ step = 0 /\ mode = "enter"
    /\ place    = [p \in Process |-> "out"]
    /\ arrived  = [p \in Process |-> 0]
    /\ returned = [p \in Process |-> 0]

\* step.fetch_add(1) + 1 == cardinal.
LastIn == step + 1 = cardinal

enter(p) ==
    /\ place[p] = "out" /\ arrived[p] < MaxSyncs
    /\ step' = step + 1
    /\ arrived' = [arrived EXCEPT ![p] = @ + 1]
    /\ Move(p, IF LastIn THEN "set_leave" ELSE "await_leave")
    /\ UNCHANGED <<mode, returned>>

set_leave(p) ==
    /\ place[p] = "set_leave"
    /\ mode' = "leave"
    /\ Move(p, "leaving")
    /\ UNCHANGED <<step, arrived, returned>>

await_leave(p) ==
    /\ place[p] = "await_leave" /\ mode = "leave"
    /\ Move(p, "leaving")
    /\ UNCHANGED <<step, mode, arrived, returned>>

\* step.fetch_sub(1) - 1 == 0.
LastOut == step - 1 = 0

\* A bug: a one-phase barrier, which lets a process out before the others.
leave_OnePhase(p) ==
    /\ place[p] = "leaving"
    /\ step' = step - 1
    /\ returned' = [returned EXCEPT ![p] = @ + 1]
    /\ Move(p, "out")
    /\ mode' = IF LastOut THEN "enter" ELSE mode
    /\ UNCHANGED arrived

\* A bug: the first to leave counts for all.
leave_AllAtOnce(p) ==
    /\ place[p] = "leaving"
    /\ step' = 0
    /\ Move(p, IF step = cardinal THEN "set_enter" ELSE "await_enter")
    /\ UNCHANGED <<mode, arrived, returned>>

leave(p) ==
    /\ place[p] = "leaving"
    /\ step' = step - 1
    /\ Move(p, IF LastOut THEN "set_enter" ELSE "await_enter")
    /\ UNCHANGED <<mode, arrived, returned>>

set_enter(p) ==
    /\ place[p] = "set_enter"
    /\ mode' = "enter"
    /\ returned' = [returned EXCEPT ![p] = @ + 1]
    /\ Move(p, "out")
    /\ UNCHANGED <<step, arrived>>

await_enter(p) ==
    /\ place[p] = "await_enter" /\ mode = "enter"
    /\ returned' = [returned EXCEPT ![p] = @ + 1]
    /\ Move(p, "out")
    /\ UNCHANGED <<step, mode, arrived>>

\* What a process does inside sync, once it is in.
InSync(p) ==
    \/ set_leave(p) \/ await_leave(p) \/ leave(p) \/ set_enter(p) \/ await_enter(p)

BarrierNext == \E p \in Process : enter(p) \/ InSync(p)

BarrierSpec == BarrierInit /\ [][BarrierNext]_barrierVars
-----------------------------------------------------------------------------
\* The processes that have entered and not begun to leave.
Inside == {p \in Process : place[p] \in {"set_leave", "await_leave", "leaving"}}

(* Every variable has its type, and step counts the processes inside.      *)
BarrierTypeOK ==
    /\ step = Cardinality(Inside)
    /\ mode \in {"enter", "leave"}
    /\ place \in [Process -> Place]
    /\ arrived \in [Process -> Nat]
    /\ returned \in [Process -> Nat]

(* The barrier keeps the promise of Rendezvous, call after call: a process *)
(* that comes around again while others are still on their way out is not  *)
(* counted with them, and lets nobody through.                             *)
Promise == INSTANCE Rendezvous WITH arrived <- arrived, returned <- returned
Synchronizes == Promise!Spec
=============================================================================
