------------------------------ MODULE Grading -------------------------------
(***************************************************************************)
(* The measurement of grading.cpp: a master and its workers that go        *)
(* through init, repeats of run, and check together, by class Sync with    *)
(* its Latch and Chrono (common.hpp).  In the check the workers also meet  *)
(* at the spin barrier.  What a workload does with the transactional       *)
(* memory is left out: it ends well, with an error message, or by an       *)
(* exception.  One action is one access to an atomic, or one critical      *)
(* section of the latch.                                                   *)
(***************************************************************************)
EXTENDS Barrier, Sequences

CONSTANTS
    First,       \* the worker with uid 0
    NbRepeats    \* nbrepeats: the performance measurements, 7 in the code

ASSUME GradingAssumption == First \in Process /\ NbRepeats \in Nat /\ MaxSyncs = 3

VARIABLES
    status, nbready, errmsg,   \* the atomics of Sync; errmsg: one was stored
    raised,                    \* donelatch
    local, total,              \* runtime: the round it was started in (0: it
                               \* was not), the segments from..until added up
    wpc, round_of,             \* per worker: where it is, and in which round
    failed, thrown,            \* ... its last call gave an error, an exception
    timed,                     \* never changes: a maxtick, or invalid_tick
    mpc, round,                \* the master: where it is, and in which round
    times, error               \* ... the times it has read, and the verdict

syncVars == <<status, nbready, errmsg, raised, local, total>>
workerVars == <<wpc, round_of, failed, thrown>>
masterVars == <<timed, mpc, round, times, error>>
gradingVars == <<barrierVars, syncVars, workerVars, masterVars>>

Rounds == NbRepeats + 2

Status == {"Wait", "Run", "Abort", "Done", "Fail", "Quit"}

WorkerLabel == {"unborn",                                  \* its thread is not started
                "wait", "count", "reset", "go", "watch",   \* worker_wait
                "work",                                    \* the workload
                "message", "abort", "tally", "zero",       \* worker_notify
                "verdict", "stop", "raise",
                "gone"}                                    \* returned

MasterLabel == {"spawn", "notify", "start", "wait", "read", "join", "joining",
                "returned", "overrun", "no_thread"}

Ended == mpc \in {"returned", "overrun", "no_thread"}

GradingInit ==
    /\ BarrierInit
    /\ status = "Done" /\ nbready = 0 /\ errmsg = FALSE /\ raised = FALSE
    /\ local = 0 /\ total = <<>>
    /\ wpc      = [w \in Process |-> "unborn"]
    /\ round_of = [w \in Process |-> 1]
    /\ failed   = [w \in Process |-> FALSE]
    /\ thrown   = [w \in Process |-> FALSE]
    /\ timed \in BOOLEAN
    /\ mpc = "spawn" /\ round = 1 /\ times = <<>> /\ error = FALSE

\* After an exception main leaves by quick_exit, whatever the workers are doing.
At(w, label) == ~Ended /\ wpc[w] = label
Go(w, label) == wpc' = [wpc EXCEPT ![w] = label]

\* res + 1 == nbworkers
Latest == nbready + 1 = Cardinality(Process)
-----------------------------------------------------------------------------
(* Sync::worker_wait.                                                      *)

\* A bug: a worker that is early joins the run that is still going on.
MayStart_Early == status \in {"Wait", "Run"}
MayStart == status = "Wait"

spin(w) ==
    /\ At(w, "wait")
    /\ \/ MayStart /\ Go(w, "count")
       \/ status = "Quit" /\ Go(w, "gone")
    /\ UNCHANGED <<barrierVars, syncVars, round_of, failed, thrown, masterVars>>

count(w) ==
    /\ At(w, "count")
    /\ nbready' = nbready + 1
    /\ Go(w, IF Latest THEN "reset" ELSE "watch")
    /\ UNCHANGED <<barrierVars, status, errmsg, raised, local, total,
                   round_of, failed, thrown, masterVars>>

reset(w) ==
    /\ At(w, "reset")
    /\ nbready' = 0
    /\ Go(w, "go")
    /\ UNCHANGED <<barrierVars, status, errmsg, raised, local, total,
                   round_of, failed, thrown, masterVars>>

Start(w) ==
    /\ Go(w, "work")
    /\ failed' = [failed EXCEPT ![w] = FALSE]
    /\ UNCHANGED <<barrierVars, nbready, errmsg, raised, local, total,
                   round_of, thrown, masterVars>>

go(w) == At(w, "go") /\ status' = "Run" /\ Start(w)

watch(w) ==
    /\ At(w, "watch") /\ status \in {"Run", "Abort"}
    /\ Start(w) /\ UNCHANGED status

worker_wait(w) == spin(w) \/ count(w) \/ reset(w) \/ go(w) \/ watch(w)
-----------------------------------------------------------------------------
(* The workload.  Its call is over with a null or an error message, or by  *)
(* an exception, which is caught and notified as an error.  A bug: after   *)
(* the exception the worker is gone without a word.                        *)
After_Silent(fails, throws) ==
    IF throws THEN "gone" ELSE IF fails THEN "message" ELSE "tally"
After(fails, throws) == IF fails \/ throws THEN "message" ELSE "tally"

Finish(w, fails, throws) ==
    /\ Go(w, After(fails, throws))
    /\ failed' = [failed EXCEPT ![w] = fails \/ throws]
    /\ thrown' = [thrown EXCEPT ![w] = throws]
    /\ UNCHANGED <<syncVars, round_of, masterVars>>

(* Workload::init and Workload::run.                                       *)
run(w) ==
    /\ At(w, "work") /\ round_of[w] < Rounds
    /\ \E fails, throws \in BOOLEAN : Finish(w, fails, throws)
    /\ UNCHANGED barrierVars

(* Workload::check, between its three barriers.  After the first one only  *)
(* uid 0 runs transactions, after the second one everybody, and after the  *)
(* third one uid 0 again; a worker that has found an inconsistency goes    *)
(* through the remaining barriers and runs none.                           *)
Checking(w) == At(w, "work") /\ round_of[w] = Rounds /\ place[w] = "out"

Transacts(w) ==
    ~failed[w] /\ (returned[w] = 2 \/ (w = First /\ returned[w] \in {1, 3}))

check_sync(w) ==
    /\ Checking(w) /\ enter(w)
    /\ \/ UNCHANGED failed
       \/ Transacts(w) /\ failed' = [failed EXCEPT ![w] = TRUE]
    /\ UNCHANGED <<syncVars, wpc, round_of, thrown, masterVars>>

check_throws(w) ==
    /\ Checking(w) /\ Transacts(w)
    /\ Finish(w, FALSE, TRUE)
    /\ UNCHANGED barrierVars

check_returns(w) ==
    /\ Checking(w) /\ returned[w] = 3
    /\ \/ Finish(w, failed[w], FALSE)
       \/ Transacts(w) /\ Finish(w, TRUE, FALSE)
    /\ UNCHANGED barrierVars

in_barrier(w) == At(w, "work") /\ InSync(w) /\ UNCHANGED <<syncVars, workerVars, masterVars>>

work(w) ==
    \/ run(w)
    \/ check_sync(w) \/ check_throws(w) \/ check_returns(w) \/ in_barrier(w)
-----------------------------------------------------------------------------
(* Sync::worker_notify.                                                    *)
message(w) ==
    /\ At(w, "message")
    /\ errmsg' = TRUE
    /\ Go(w, "abort")
    /\ UNCHANGED <<barrierVars, status, nbready, raised, local, total,
                   round_of, failed, thrown, masterVars>>

abort(w) ==
    /\ At(w, "abort")
    /\ status' = "Abort"
    /\ Go(w, "tally")
    /\ UNCHANGED <<barrierVars, nbready, errmsg, raised, local, total,
                   round_of, failed, thrown, masterVars>>

\* worker_notify returns: to the next round or, after an exception, for good.
Leave(w) ==
    /\ Go(w, IF thrown[w] THEN "gone" ELSE "wait")
    /\ round_of' = [round_of EXCEPT ![w] = @ + 1]

tally(w) ==
    /\ At(w, "tally")
    /\ nbready' = nbready + 1
    /\ IF Latest THEN Go(w, "zero") /\ UNCHANGED round_of ELSE Leave(w)
    /\ UNCHANGED <<barrierVars, status, errmsg, raised, local, total,
                   failed, thrown, masterVars>>

\* A bug: the count of one phase is left for the next one.
AfterTally_Kept == nbready
AfterTally == 0

zero(w) ==
    /\ At(w, "zero")
    /\ nbready' = AfterTally
    /\ Go(w, "verdict")
    /\ UNCHANGED <<barrierVars, status, errmsg, raised, local, total,
                   round_of, failed, thrown, masterVars>>

\* A bug: Abort is taken back by whoever comes last.
Verdict_Optimistic == "Done"
Verdict == IF status = "Abort" THEN "Fail" ELSE "Done"

\* The load and the store of status: every other worker has been counted.
verdict(w) ==
    /\ At(w, "verdict")
    /\ status' = Verdict
    /\ Go(w, "stop")
    /\ UNCHANGED <<barrierVars, nbready, errmsg, raised, local, total,
                   round_of, failed, thrown, masterVars>>

(* Chrono::stop adds the segment since start to the total.                 *)
stop(w) ==
    /\ At(w, "stop")
    /\ total' = Append(total, [from |-> local, until |-> round_of[w]])
    /\ Go(w, "raise")
    /\ UNCHANGED <<barrierVars, status, nbready, errmsg, raised, local,
                   round_of, failed, thrown, masterVars>>

(* Latch::raise.                                                           *)
raise(w) ==
    /\ At(w, "raise")
    /\ raised' = TRUE
    /\ Leave(w)
    /\ UNCHANGED <<barrierVars, status, nbready, errmsg, local, total,
                   failed, thrown, masterVars>>

worker_notify(w) ==
    \/ message(w) \/ abort(w) \/ tally(w) \/ zero(w) \/ verdict(w) \/ stop(w) \/ raise(w)
-----------------------------------------------------------------------------
(* The master.  Sync::master_notify: the status, then the clock.           *)
Master(from, to) ==
    /\ mpc = from /\ mpc' = to
    /\ UNCHANGED <<barrierVars, nbready, errmsg, workerVars, timed>>

(* The threads are started one after the other, uid 0 first, while those   *)
(* already there go into worker_wait; one that cannot be is the end.       *)
spawn(w) ==
    /\ mpc = "spawn" /\ wpc[w] = "unborn"
    /\ w = First \/ wpc[First] # "unborn"
    /\ Go(w, "wait")
    /\ mpc' = IF \A v \in Process \ {w} : wpc[v] # "unborn" THEN "notify" ELSE "spawn"
    /\ UNCHANGED <<barrierVars, syncVars, round_of, failed, thrown, timed, round, times, error>>

spawn_fails ==
    /\ Master("spawn", "no_thread")
    /\ UNCHANGED <<status, raised, local, total, round, times, error>>

master_notify ==
    /\ Master("notify", "start")
    /\ status' = "Wait"
    /\ UNCHANGED <<raised, local, total, round, times, error>>

start ==
    /\ Master("start", "wait")
    /\ local' = round
    /\ UNCHANGED <<status, raised, total, round, times, error>>

(* Sync::master_wait: Latch::wait resets the latch, or gives up.           *)
latch_wait ==
    /\ Master("wait", "read")
    /\ raised /\ raised' = FALSE
    /\ UNCHANGED <<status, local, total, round, times, error>>

latch_overtime ==
    /\ timed /\ ~raised
    /\ Master("wait", "overrun")
    /\ UNCHANGED <<status, raised, local, total, round, times, error>>

(* ... then the status decides, and measure goes on or joins.  Another     *)
(* status is thrown as Unreachable: VerdictIsRight says there is none.     *)
read ==
    /\ UNCHANGED <<status, raised, local, total>>
    /\ \/ /\ status = "Done" /\ round < Rounds
          /\ Master("read", "notify")
          /\ round' = round + 1
          /\ times' = Append(times, total)
          /\ UNCHANGED error
       \/ /\ status = "Done" /\ round = Rounds
          /\ Master("read", "join")
          /\ times' = Append(times, total)
          /\ UNCHANGED <<round, error>>
       \/ /\ status = "Fail"
          /\ Master("read", "join")
          /\ error' = TRUE
          /\ UNCHANGED <<round, times>>

\* A bug: the workers are not told.
Farewell_Forgotten == status
Farewell == "Quit"

master_join ==
    /\ Master("join", "joining")
    /\ status' = Farewell
    /\ UNCHANGED <<raised, local, total, round, times, error>>

joined ==
    /\ Master("joining", "returned")
    /\ \A w \in Process : At(w, "gone")
    /\ UNCHANGED <<status, raised, local, total, round, times, error>>

master ==
    \/ \E w \in Process : spawn(w)
    \/ spawn_fails
    \/ master_notify \/ start \/ latch_wait \/ latch_overtime \/ read \/ master_join \/ joined
-----------------------------------------------------------------------------
GradingNext ==
    \/ master
    \/ \E w \in Process : worker_wait(w) \/ work(w) \/ worker_notify(w)

GradingSpec == GradingInit /\ [][GradingNext]_gradingVars

\* Threads run on; a workload need not come to an end, ...
FairGradingSpec ==
    /\ GradingSpec
    /\ WF_gradingVars(master)
    /\ \A w \in Process : WF_gradingVars(worker_wait(w) \/ worker_notify(w))

\* ... but does if every transaction commits in the end, as with the reference.
WorkEnds == \A w \in Process : WF_gradingVars(work(w))
-----------------------------------------------------------------------------
(* Every variable has its type, and no more workers are counted than there *)
(* are.                                                                    *)
GradingTypeOK ==
    /\ status \in Status
    /\ nbready \in 0 .. Cardinality(Process)
    /\ errmsg \in BOOLEAN /\ raised \in BOOLEAN
    /\ local \in 0 .. Rounds
    /\ total \in Seq([from : 0 .. Rounds, until : 1 .. Rounds])
    /\ wpc \in [Process -> WorkerLabel]
    /\ round_of \in [Process -> 1 .. Rounds + 1]
    /\ failed \in [Process -> BOOLEAN] /\ thrown \in [Process -> BOOLEAN]
    /\ timed \in BOOLEAN /\ mpc \in MasterLabel /\ round \in 1 .. Rounds
    /\ error \in BOOLEAN

(* "Threads are synchronized between each test": a workload call of round  *)
(* r is only ever made in the master's round r, when every worker has come *)
(* to r and none has begun r + 1, though one counter and one status serve  *)
(* the start and the end of every round and are never reset as a whole.    *)
(* Nor is there a round after the check, which would throw Unreachable.    *)
RoundsInStep ==
    \A w \in Process : At(w, "work") =>
        /\ round_of[w] = round
        /\ \A v \in Process :
              \/ round_of[v] = round /\ wpc[v] \notin {"unborn", "wait", "count", "gone"}
              \/ round_of[v] = round + 1 /\ wpc[v] \in {"wait", "gone"}

(* When the master wakes up, the status says whether a worker failed in    *)
(* this round: no failure is overwritten by the start or the end of the    *)
(* round, and none is left over from an earlier one.                       *)
VerdictIsRight ==
    mpc = "read" =>
        IF \E w \in Process : failed[w] THEN status = "Fail" /\ errmsg ELSE status = "Done"

\* A worker has thrown in the check (it is in it, or has left it) before it has
\* come through the last barrier, where the others then wait for it.
Stranded ==
    \E w \in Process :
        /\ thrown[w] /\ returned[w] < 3
        /\ round_of[w] > Rounds \/ (round_of[w] = Rounds /\ wpc[w] # "gone")

(* A measurement whose transactions all commit ends, with every thread     *)
(* joined, whatever workers fail or throw in init, in a run, or after the  *)
(* last barrier of the check: only an exception before it is excepted.     *)
(* Where a thread could not be started main leaves, and nothing is joined. *)
MeasureReturns ==
    ~timed /\ WorkEnds => <>(mpc \in {"returned", "no_thread"} \/ Stranded)

(* With a maxtick the master comes to an end even if the transactions of   *)
(* the tested library do not: the latch is raised, or given up, and then   *)
(* every worker can be joined, those a barrier holds back included.        *)
MeasureEnds == timed => <>Ended
-----------------------------------------------------------------------------
(* "It returns early in case of a failure" (grading.cpp:200).              *)
ReturnsEarly == WorkEnds => \A w \in Process : failed[w] ~> Ended

(* "Runtime between 'master_notify' and when the last worker finished"     *)
(* (grading.cpp:58): the time the master reads after round i is one        *)
(* segment, begun by the master_notify of round i and ended in round i.    *)
TimesOneRound ==
    \A i \in DOMAIN times : times[i] = <<[from |-> i, until |-> i]>>
=============================================================================
