----------------------------- MODULE SharedLock -----------------------------
(***************************************************************************)
(* The global lock object of a region (shared-lock.c): the version clock   *)
(* and the table of versioned spinlocks (versioned-spinlock.c) that words  *)
(* are hashed onto.  Each operator is one access to an atomic or racy      *)
(* field: the code between two accesses touches only thread-local state.   *)
(***************************************************************************)
EXTENDS Integers

CONSTANTS
    NumLocks,    \* NUM_LOCKS: 4999 in the code
    SpinLimit    \* the 3 of "bound > 3" in versioned_spinlock_acquire

ASSUME LockAssumption == /\ NumLocks \in Nat \ {0}
                         /\ SpinLimit \in Nat

VARIABLES
    clock,       \* the global version clock
    locked,      \* locked[s]: the lock bit of spinlock s
    version      \* version[s]: the version of spinlock s

lockVars == <<clock, locked, version>>

Stripe == 0 .. NumLocks - 1

shared_lock_init ==
    /\ clock   = 0
    /\ locked  = [s \in Stripe |-> FALSE]
    /\ version = [s \in Stripe |-> 0]

find_lock(a) == a % NumLocks

\* atomic_exchange(&lock->lock, true); the caller looks at the old bit.
LockExchange(s) == locked' = [locked EXCEPT ![s] = TRUE]

versioned_spinlock_release(s) == locked' = [locked EXCEPT ![s] = FALSE]

\* A bug: never letting go of the version an earlier writer left.
versioned_spinlock_update_Dropped(s, v) == version' = version

versioned_spinlock_update(s, v) == version' = [version EXCEPT ![s] = v]

\* "bound > 3": the spin is given up.  Bugs: an off-by-one; looks not counted.
SpinOver_OffByOne(bound) == bound > SpinLimit + 1
SpinOver(bound) == bound > SpinLimit

CountLook_Dropped(bound) == bound
CountLook(bound) == bound + 1

\* versioned_spinlock_validate reads the lock bit first, then the version.
\* Bugs: one of the two is not looked at.
SeesLocked_Ignored(s) == FALSE
SeesLocked(s) == locked[s]
SeesNewer_Ignored(s, rv) == FALSE
SeesNewer(s, rv) == version[s] > rv

\* clock + 1 as the atomic add returns it.  A bug: the clock before the add.
IncrementedClock_Stale == clock
IncrementedClock == clock + 1
=============================================================================
