----------------------------- MODULE BoundedRun -----------------------------
(***************************************************************************)
(* bounded_run (common.hpp): the master starts a thread that runs a        *)
(* function, and waits for it on a condition variable with a deadline,     *)
(* after which the thread is detached.  The function is left to the module *)
(* that uses this one.                                                     *)
(***************************************************************************)
VARIABLES
    master,      \* "out", "starting" (the thread is there), "waiting", "woken"
                 \* (but without the mutex yet), "joining", "overrun" (throws)
    runner,      \* "none", "func", "notify", "ended"
    mutex,       \* the local lock is the master's, or "none"'s: the runner
                 \* takes and releases it in one action
    late,        \* the deadline has passed
    spurious     \* history: the wait has ended for no reason

boundedVars == <<master, runner, mutex, late, spurious>>

BoundedInit ==
    /\ master = "out" /\ runner = "none" /\ mutex = "none"
    /\ late = FALSE /\ spurious = FALSE

\* guard is there before the thread.  A bug: the mutex is first taken to wait.
AtStart_Free == "none"
AtStart == "master"

call ==
    /\ master = "out" /\ runner = "none"
    /\ master' = "starting" /\ runner' = "func" /\ mutex' = AtStart
    /\ late' = FALSE /\ spurious' = FALSE

\* cv.wait_for lets go of the mutex ...
wait_for ==
    /\ master = "starting"
    /\ master' = "waiting" /\ mutex' = "none"
    /\ UNCHANGED <<runner, late, spurious>>

deadline ==
    /\ master \in {"waiting", "woken"} /\ ~late
    /\ master' = "woken" /\ late' = TRUE
    /\ UNCHANGED <<runner, mutex, spurious>>

wakeup ==
    /\ master = "waiting"
    /\ master' = "woken" /\ spurious' = TRUE
    /\ UNCHANGED <<runner, mutex, late>>

\* ... and takes it again, whatever it was woken by, before it tells by the
\* clock whether that was a timeout.  A bug: it is not looked at.
TimedOut_Ignored == FALSE
TimedOut == late

waited ==
    /\ master = "woken" /\ mutex = "none"
    /\ IF TimedOut
       THEN master' = "overrun" /\ UNCHANGED mutex    \* detached, and unwound
       ELSE master' = "joining" /\ mutex' = "master"
    /\ UNCHANGED <<runner, late, spurious>>

\* The mutex is released with guard, after the join.
join ==
    /\ master = "joining" /\ runner = "ended"
    /\ master' = "out" /\ runner' = "none" /\ mutex' = "none"
    /\ UNCHANGED <<late, spurious>>

func_returns ==
    /\ runner = "func" /\ runner' = "notify"
    /\ UNCHANGED <<master, mutex, late, spurious>>

notify ==
    /\ runner = "notify" /\ mutex = "none"
    /\ runner' = "ended"
    /\ master' = IF master = "waiting" THEN "woken" ELSE master
    /\ UNCHANGED <<mutex, late, spurious>>

Waiting == wait_for \/ deadline \/ waited
-----------------------------------------------------------------------------
(* No notification is lost: it never comes before the master waits for it, *)
(* who would sit out the deadline and report an overrun that was none; and *)
(* the master, who joins with the mutex still in his hands, joins only a   *)
(* thread that has ended and needs it no more, but after a spurious        *)
(* wake-up.                                                                *)
HandsOver ==
    /\ runner = "ended" => master \notin {"starting", "waiting"}
    /\ master = "joining" /\ ~spurious => runner = "ended"
=============================================================================
