--------------------------- MODULE GradingProofs ----------------------------
(***************************************************************************)
(* The spin barrier implements Rendezvous, the rounds of a measurement do  *)
(* not overlap and the verdict on each is right, for any finite number of  *)
(* processes and any number of rounds.                                     *)
(***************************************************************************)
EXTENDS Grading, FiniteSetTheorems, TLAPS

(* The barrier.  In mode enter everybody inside waits in the call after    *)
(* the one the others have finished or are still coming out of; in mode    *)
(* leave all are in the same call.  The mode changes only when the count   *)
(* says that all are inside, or none.                                      *)

\* Where p can be, and in which call, when n calls are complete.
InCall(p, n) ==
    IF mode = "enter"
    THEN \/ place[p] = "out" /\ arrived[p] = n /\ returned[p] = n
         \/ /\ place[p] \in {"set_leave", "await_leave"}
            /\ arrived[p] = n + 1 /\ returned[p] = n
         \/ place[p] = "await_enter" /\ arrived[p] = n /\ returned[p] + 1 = n
    ELSE /\ place[p] \in {"await_leave", "leaving", "set_enter", "await_enter"}
         /\ arrived[p] = n + 1 /\ returned[p] = n

\* A process about to switch the mode is the only one, and the count is right.
OneSwitches ==
    \A p \in Process :
        /\ place[p] = "set_leave" =>
              Inside = Process /\ \A q \in Process : place[q] = "set_leave" => q = p
        /\ place[p] = "set_enter" =>
              Inside = {} /\ \A q \in Process : place[q] = "set_enter" => q = p

BarrierInv ==
    /\ BarrierTypeOK
    /\ OneSwitches
    /\ \E n \in Nat : \A p \in Process : InCall(p, n)

\* The set of the processes inside is finite, and so is every part of Process.
LEMMA InsideFinite ==
    /\ IsFiniteSet(Inside) /\ Inside \subseteq Process
    /\ Cardinality(Inside) \in Nat /\ cardinal \in Nat
    /\ Cardinality(Inside) = cardinal => Inside = Process
  BY BarrierAssumption, FS_Subset, FS_CardinalityType DEF Inside, cardinal

\* Initially everybody is outside and no call is complete.
LEMMA InitBarrier == BarrierInit => BarrierInv
<1> SUFFICES ASSUME BarrierInit PROVE BarrierInv
  OBVIOUS
<1>1. Inside = {}
  BY DEF BarrierInit, Inside
<1>2. BarrierTypeOK
  BY <1>1, FS_EmptySet DEF BarrierInit, BarrierTypeOK, Place
<1>3. \A p \in Process : InCall(p, 0)
  BY DEF BarrierInit, InCall
<1> QED BY <1>2, <1>3 DEF BarrierInv, OneSwitches, BarrierInit

\* Entering adds the process to those inside; the last one makes them all.
LEMMA EnterInv ==
  ASSUME BarrierInv, NEW p \in Process, enter(p)
  PROVE  BarrierInv' /\ Promise!Arrive(p)
<1> BarrierTypeOK /\ OneSwitches
  BY DEF BarrierInv
<1>1. PICK n \in Nat : \A q \in Process : InCall(q, n)
  BY DEF BarrierInv
<1>2. mode = "enter" /\ arrived[p] = n /\ returned[p] = n /\ place[p] = "out"
  BY <1>1 DEF enter, InCall
<1>3. /\ p \notin Inside
      /\ Inside' = Inside \cup {p}
  BY <1>2 DEF enter, Inside, Move, BarrierTypeOK
<1>4. /\ Cardinality(Inside \cup {p}) = Cardinality(Inside) + 1
      /\ step = Cardinality(Inside)
  BY <1>3, InsideFinite, FS_AddElement DEF BarrierTypeOK
<1>5. BarrierTypeOK'
  BY <1>3, <1>4 DEF BarrierTypeOK, enter, Move, Place
<1>6. LastIn => Inside' = Process
  BY <1>3, <1>4, InsideFinite, BarrierAssumption, FS_Subset DEF LastIn, cardinal
<1>7. OneSwitches'
  <2>1. \A q \in Process : place[q] \notin {"set_leave", "set_enter"}
    BY <1>1, <1>2, <1>3 DEF OneSwitches, InCall
  <2>2. \A q \in Process \ {p} : place'[q] = place[q]
    BY DEF enter, Move, BarrierTypeOK
  <2>3. place'[p] = IF LastIn THEN "set_leave" ELSE "await_leave"
    BY DEF enter, Move, BarrierTypeOK
  <2> QED BY <1>6, <2>1, <2>2, <2>3 DEF OneSwitches
<1>8. \A q \in Process : InCall(q, n)'
  BY <1>1, <1>2 DEF InCall, enter, Move, BarrierTypeOK
<1> QED BY <1>2, <1>5, <1>7, <1>8 DEF BarrierInv, enter, Promise!Arrive

\* The switch to mode leave happens with everybody inside, in one call.
LEMMA SetLeaveInv ==
  ASSUME BarrierInv, NEW p \in Process, set_leave(p)
  PROVE  BarrierInv' /\ UNCHANGED <<arrived, returned>>
<1> BarrierTypeOK /\ OneSwitches
  BY DEF BarrierInv
<1>1. PICK n \in Nat : \A q \in Process : InCall(q, n)
  BY DEF BarrierInv
<1>2. \A q \in Process \ {p} : place[q] = "await_leave" /\ arrived[q] = n + 1 /\ returned[q] = n
  BY <1>1 DEF set_leave, InCall, OneSwitches, Inside
<1>3. mode = "enter" /\ arrived[p] = n + 1 /\ returned[p] = n
  BY <1>1 DEF set_leave, InCall
<1>4. Inside' = Inside
  BY DEF set_leave, Inside, Move, BarrierTypeOK
<1>5. BarrierTypeOK'
  BY <1>4 DEF BarrierTypeOK, set_leave, Move, Place
<1>6. OneSwitches'
  BY <1>2 DEF OneSwitches, set_leave, Move, BarrierTypeOK
<1>7. \A q \in Process : InCall(q, n)'
  BY <1>2, <1>3 DEF InCall, set_leave, Move, BarrierTypeOK
<1> QED BY <1>5, <1>6, <1>7 DEF BarrierInv, set_leave

\* Seeing mode leave changes nothing but the place of the process.
LEMMA AwaitLeaveInv ==
  ASSUME BarrierInv, NEW p \in Process, await_leave(p)
  PROVE  BarrierInv' /\ UNCHANGED <<arrived, returned>>
<1> BarrierTypeOK /\ OneSwitches
  BY DEF BarrierInv
<1>1. PICK n \in Nat : \A q \in Process : InCall(q, n)
  BY DEF BarrierInv
<1>2. Inside' = Inside
  BY DEF await_leave, Inside, Move, BarrierTypeOK
<1>3. BarrierTypeOK'
  BY <1>2 DEF BarrierTypeOK, await_leave, Move, Place
<1>4. OneSwitches'
  BY <1>2 DEF OneSwitches, await_leave, Move, BarrierTypeOK
<1>5. \A q \in Process : InCall(q, n)'
  BY <1>1 DEF InCall, await_leave, Move, BarrierTypeOK
<1> QED BY <1>3, <1>4, <1>5 DEF BarrierInv, await_leave

\* Leaving takes the process out of those inside; the last one leaves none.
LEMMA LeaveInv ==
  ASSUME BarrierInv, NEW p \in Process, leave(p)
  PROVE  BarrierInv' /\ UNCHANGED <<arrived, returned>>
<1> BarrierTypeOK /\ OneSwitches
  BY DEF BarrierInv
<1>1. PICK n \in Nat : \A q \in Process : InCall(q, n)
  BY DEF BarrierInv
<1>2. mode # "enter" /\ arrived[p] = n + 1 /\ returned[p] = n /\ place[p] = "leaving"
  BY <1>1 DEF leave, InCall
<1>3. p \in Inside /\ Inside' = Inside \ {p}
  BY <1>2 DEF leave, Inside, Move, BarrierTypeOK
<1>4. /\ Cardinality(Inside \ {p}) = Cardinality(Inside) - 1
      /\ step = Cardinality(Inside) /\ Cardinality(Inside) \in Nat
      /\ IsFiniteSet(Inside \ {p})
  BY <1>3, InsideFinite, FS_RemoveElement DEF BarrierTypeOK
<1>5. BarrierTypeOK'
  BY <1>3, <1>4 DEF BarrierTypeOK, leave, Move, Place
<1>6. LastOut => Inside' = {}
  BY <1>3, <1>4, FS_EmptySet DEF LastOut
<1>7. OneSwitches'
  <2>1. \A q \in Process : place[q] \notin {"set_leave", "set_enter"}
    BY <1>1, <1>2, <1>3 DEF OneSwitches, InCall
  <2>2. \A q \in Process \ {p} : place'[q] = place[q]
    BY DEF leave, Move, BarrierTypeOK
  <2>3. place'[p] = IF LastOut THEN "set_enter" ELSE "await_enter"
    BY DEF leave, Move, BarrierTypeOK
  <2> QED BY <1>6, <2>1, <2>2, <2>3 DEF OneSwitches
<1>8. \A q \in Process : InCall(q, n)'
  BY <1>1, <1>2 DEF InCall, leave, Move, BarrierTypeOK
<1> QED BY <1>5, <1>7, <1>8 DEF BarrierInv, leave

\* The switch back completes the call: everybody has arrived in it.
LEMMA SetEnterInv ==
  ASSUME BarrierInv, NEW p \in Process, set_enter(p)
  PROVE  BarrierInv' /\ Promise!Return(p)
<1> BarrierTypeOK /\ OneSwitches
  BY DEF BarrierInv
<1>1. PICK n \in Nat : \A q \in Process : InCall(q, n)
  BY DEF BarrierInv
<1>2. \A q \in Process \ {p} : place[q] = "await_enter" /\ arrived[q] = n + 1 /\ returned[q] = n
  BY <1>1 DEF set_enter, InCall, OneSwitches, Inside
<1>3. mode # "enter" /\ arrived[p] = n + 1 /\ returned[p] = n
  BY <1>1 DEF set_enter, InCall
<1>4. Inside' = Inside
  BY DEF set_enter, Inside, Move, BarrierTypeOK
<1>5. BarrierTypeOK'
  BY <1>4 DEF BarrierTypeOK, set_enter, Move, Place
<1>6. OneSwitches'
  BY <1>2 DEF OneSwitches, set_enter, Move, BarrierTypeOK
<1>7. \A q \in Process : InCall(q, n + 1)'
  BY <1>2, <1>3 DEF InCall, set_enter, Move, BarrierTypeOK
<1> QED BY <1>2, <1>3, <1>5, <1>6, <1>7 DEF BarrierInv, set_enter, Promise!Return

\* So does seeing mode enter again: nobody is behind.
LEMMA AwaitEnterInv ==
  ASSUME BarrierInv, NEW p \in Process, await_enter(p)
  PROVE  BarrierInv' /\ Promise!Return(p)
<1> BarrierTypeOK /\ OneSwitches
  BY DEF BarrierInv
<1>1. PICK n \in Nat : \A q \in Process : InCall(q, n)
  BY DEF BarrierInv
<1>2. arrived[p] = n /\ returned[p] + 1 = n
  BY <1>1 DEF await_enter, InCall
<1>3. \A q \in Process : arrived[q] >= n
  BY <1>1 DEF await_enter, InCall
<1>4. Inside' = Inside
  BY DEF await_enter, Inside, Move, BarrierTypeOK
<1>5. BarrierTypeOK'
  BY <1>4 DEF BarrierTypeOK, await_enter, Move, Place
<1>6. OneSwitches'
  BY <1>4 DEF OneSwitches, await_enter, Move, BarrierTypeOK
<1>7. \A q \in Process : InCall(q, n)'
  BY <1>1, <1>2 DEF InCall, await_enter, Move, BarrierTypeOK
<1>8. returned[p] \in Nat
  BY DEF BarrierTypeOK
<1> QED BY <1>2, <1>3, <1>5, <1>6, <1>7, <1>8 DEF BarrierInv, await_enter, Promise!Return

\* Every step keeps the invariant and is a step of the promise, or none.
LEMMA BarrierStep ==
  ASSUME BarrierInv, [BarrierNext]_barrierVars
  PROVE  BarrierInv' /\ [Promise!Next]_<<arrived, returned>>
<1>1. CASE UNCHANGED barrierVars
  BY <1>1 DEF BarrierInv, BarrierTypeOK, OneSwitches, InCall, Inside, barrierVars
<1>2. ASSUME NEW p \in Process, enter(p)
      PROVE  BarrierInv' /\ [Promise!Next]_<<arrived, returned>>
  BY <1>2, EnterInv DEF Promise!Next
<1>3. ASSUME NEW p \in Process, InSync(p)
      PROVE  BarrierInv' /\ [Promise!Next]_<<arrived, returned>>
  BY <1>3, SetLeaveInv, AwaitLeaveInv, LeaveInv, SetEnterInv, AwaitEnterInv
     DEF InSync, Promise!Next
<1> QED BY <1>1, <1>2, <1>3 DEF BarrierNext

\* Every variable of the barrier has its type, and step is the number of
\* processes inside, which the code never stores anywhere else.
THEOREM BarrierCounts == BarrierSpec => []BarrierTypeOK
<1>1. BarrierInv => BarrierTypeOK
  BY DEF BarrierInv
<1> QED BY <1>1, InitBarrier, BarrierStep, PTL DEF BarrierSpec

\* The barrier implements Rendezvous: no process returns from its n-th sync
\* before every process has made its n-th call.
THEOREM BarrierSynchronizes == BarrierSpec => Synchronizes
<1>1. BarrierInit => Promise!Init
  BY DEF BarrierInit, Promise!Init
<1> QED BY <1>1, InitBarrier, BarrierStep, PTL DEF BarrierSpec, Synchronizes, Promise!Spec
-----------------------------------------------------------------------------
(* Sync.  A workload call may do what it likes, and what the check does in *)
(* the barrier plays no part.                                              *)

AnyFailed == \E w \in Process : failed[w]

\* In its workers' eyes a round goes through Gathering, Gathered, Running,
\* Closing and Over; in between all of them are Resting.  What is counted by
\* nbready changes with it.
Watching == {w \in Process : wpc[w] = "watch"}
Left     == {w \in Process : round_of[w] = round + 1}

\* Worker w has not begun to work in this round.
Fresh(w) == round_of[w] = round /\ ~failed[w] /\ ~thrown[w]

\* Worker w is done with this round; without an exception it waits.
HasLeft(w) ==
    /\ round_of[w] = round + 1
    /\ wpc[w] \in {"wait", "gone"}
    /\ wpc[w] = "gone" => thrown[w]

\* Worker w has failed and stored Abort.
Told(w) == failed[w] /\ wpc[w] \in {"tally", "wait", "gone"}

Resting ==
    /\ status = "Done" /\ nbready = 0 /\ ~raised
    /\ \A w \in Process : Fresh(w)

Gathering ==
    /\ status = "Wait" /\ nbready = Cardinality(Watching) /\ ~raised
    /\ \A w \in Process : Fresh(w) /\ wpc[w] \in {"wait", "count", "watch"}
    /\ Watching # Process

Gathered ==
    /\ status = "Wait" /\ ~raised
    /\ \A w \in Process : Fresh(w)
    /\ \E w \in Process :
          /\ wpc[w] \in {"reset", "go"}
          /\ wpc[w] = "go" => nbready = 0
          /\ \A v \in Process \ {w} : wpc[v] = "watch"

AtWork(w) ==
    /\ round_of[w] = round
    /\ wpc[w] \in {"watch", "work", "message", "abort", "tally"}
    /\ wpc[w] \in {"message", "abort"} => failed[w]
    /\ wpc[w] = "watch" => Fresh(w)

Running ==
    /\ nbready = Cardinality(Left) /\ Left # Process /\ ~raised
    /\ \A w \in Process : HasLeft(w) \/ AtWork(w)
    /\ status = IF \E w \in Process : Told(w) THEN "Abort" ELSE "Run"
    /\ \A w \in Process : wpc[w] = "abort" \/ Told(w) => errmsg

Closer(w) ==
    /\ round_of[w] = round
    /\ wpc[w] \in {"zero", "verdict", "stop", "raise"}
    /\ wpc[w] # "zero" => nbready = 0
    /\ status = IF wpc[w] \in {"zero", "verdict"}
                THEN IF AnyFailed THEN "Abort" ELSE "Run"
                ELSE IF AnyFailed THEN "Fail" ELSE "Done"
    /\ \A v \in Process \ {w} : HasLeft(v)

Closing == ~raised /\ (AnyFailed => errmsg) /\ \E w \in Process : Closer(w)

Over ==
    /\ status = (IF AnyFailed THEN "Fail" ELSE "Done") /\ nbready = 0
    /\ AnyFailed => errmsg
    /\ \A w \in Process : HasLeft(w)

Midway == Gathering \/ Gathered \/ Running \/ Closing \/ (raised /\ Over)

AllOut == \A w \in Process : wpc[w] \in {"wait", "gone"}

\* The stages, by where the master is.
Staged ==
    \/ mpc = "spawn" /\ Resting /\ \A w \in Process : wpc[w] \in {"unborn", "wait"}
    \/ mpc = "notify" /\ Resting /\ \A w \in Process : wpc[w] = "wait"
    \/ mpc \in {"start", "wait"} /\ Midway
    \/ mpc = "read" /\ ~raised /\ Over
    \/ mpc = "join" /\ status \in {"Done", "Fail"} /\ AllOut
    \/ mpc = "joining" /\ status = "Quit" /\ AllOut
    \/ Ended

ThrowFails == \A w \in Process : thrown[w] => failed[w]

GradingInv == GradingTypeOK /\ ThrowFails /\ Staged

LEMMA Workers ==
  /\ Cardinality(Process) \in Nat /\ Cardinality(Process) # 0
  /\ Rounds \in Nat /\ 1 <= Rounds
BY BarrierAssumption, GradingAssumption, FS_CardinalityType, FS_EmptySet DEF Rounds

\* A set of workers counts as many as all only if it is all.
LEMMA Counts ==
  ASSUME NEW S \in SUBSET Process
  PROVE  /\ IsFiniteSet(S) /\ Cardinality(S) \in Nat
         /\ Cardinality(S) <= Cardinality(Process)
         /\ Cardinality(S) = Cardinality(Process) => S = Process
BY BarrierAssumption, FS_Subset, FS_CardinalityType

\* One more worker in the set.
LEMMA OneMore ==
  ASSUME NEW S \in SUBSET Process, NEW w \in Process, w \notin S
  PROVE  /\ Cardinality(S \cup {w}) = Cardinality(S) + 1
         /\ Cardinality(S) + 1 <= Cardinality(Process)
         /\ Cardinality(S) + 1 = Cardinality(Process) <=> S \cup {w} = Process
<1>1. Cardinality(S \cup {w}) = Cardinality(S) + 1
  BY Counts, FS_AddElement
<1>2. S \cup {w} \in SUBSET Process
  OBVIOUS
<1> QED
  BY <1>1, <1>2, Counts

LEMMA InitGrading == GradingInit => GradingInv
<1> SUFFICES ASSUME GradingInit PROVE GradingInv
  OBVIOUS
<1>1. total \in Seq([from : 0 .. Rounds, until : 1 .. Rounds])
  BY DEF GradingInit
<1>2. 0 \in 0 .. Cardinality(Process) /\ 0 \in 0 .. Rounds /\ 1 \in 1 .. Rounds /\ 1 \in 1 .. Rounds + 1
  BY Workers
<1>3. GradingTypeOK
  BY <1>1, <1>2, Zenon DEF GradingInit, GradingTypeOK, Status, WorkerLabel, MasterLabel
<1> QED
  BY <1>3 DEF GradingInit, GradingInv, ThrowFails, Staged, Resting, Fresh

\* Where a worker is tells in which stage the round is.
LEMMA WhichStage ==
  ASSUME GradingInv, ~Ended, NEW w \in Process
  PROVE  /\ wpc[w] = "wait" /\ status = "Wait" => mpc \in {"start", "wait"} /\ Gathering
         /\ wpc[w] = "count" => mpc \in {"start", "wait"} /\ Gathering
         /\ wpc[w] \in {"reset", "go"} => mpc \in {"start", "wait"} /\ Gathered
         /\ wpc[w] = "watch" /\ status \in {"Run", "Abort"} =>
                mpc \in {"start", "wait"} /\ Running
         /\ wpc[w] \in {"work", "message", "abort", "tally"} =>
                mpc \in {"start", "wait"} /\ Running
         /\ wpc[w] \in {"zero", "verdict", "stop", "raise"} =>
                mpc \in {"start", "wait"} /\ Closing
<1>1. mpc = "spawn" \/ mpc = "notify" \/ mpc = "read" \/ mpc = "join" \/ mpc = "joining" =>
          /\ status # "Wait" /\ wpc[w] \in {"unborn", "wait", "gone"}
  BY DEF GradingInv, Staged, Resting, Over, HasLeft, AllOut, Ended
<1>2. Gathering => status = "Wait" /\ wpc[w] \in {"wait", "count", "watch"}
  BY DEF Gathering
<1>3. Gathered => status = "Wait" /\ wpc[w] \in {"reset", "go", "watch"}
  BY DEF Gathered
<1>4. Running => /\ status \in {"Run", "Abort"}
                 /\ wpc[w] \in {"wait", "gone", "watch", "work", "message", "abort", "tally"}
  BY DEF Running, HasLeft, AtWork
<1>5. Closing => /\ status # "Wait"
                 /\ wpc[w] \in {"wait", "gone", "zero", "verdict", "stop", "raise"}
  BY DEF Closing, Closer, HasLeft
<1>6. Over => status # "Wait" /\ wpc[w] \in {"wait", "gone"}
  BY DEF Over, HasLeft
<1> QED
  BY <1>1, <1>2, <1>3, <1>4, <1>5, <1>6 DEF GradingInv, Staged, Midway
-----------------------------------------------------------------------------
(* Each action of a worker leads from stage to stage, and keeps the count  *)
(* in its range, which is all that its type needs to know of the stages.   *)
Sound == ThrowFails /\ Staged /\ nbready \in 0 .. Cardinality(Process)

LEMMA SpinKeeps ==
  ASSUME GradingInv, NEW w \in Process, spin(w)
  PROVE  Sound'
<1> USE DEF GradingInv, GradingTypeOK
<1>1. ThrowFails' /\ nbready' \in 0 .. Cardinality(Process)
  BY DEF spin, syncVars, ThrowFails
<1>2. CASE status = "Wait" /\ Go(w, "count")
  <2>1. mpc \in {"start", "wait"} /\ Gathering
    BY <1>2, WhichStage DEF spin, At
  <2>2. Watching' = Watching
    BY <1>2 DEF spin, At, Go, Watching
  <2>3. Gathering'
    BY <1>2, <2>1, <2>2 DEF spin, Go, Gathering, Fresh, syncVars, masterVars
  <2> QED
    BY <1>1, <2>1, <2>3 DEF spin, masterVars, Sound, Staged, Midway
<1>3. CASE status = "Quit" /\ Go(w, "gone")
  <2>1. mpc = "joining" /\ AllOut
    BY <1>3 DEF spin, At, Staged, Resting, Midway, Gathering, Gathered, Running, Closing, Closer, Over
  <2>2. AllOut'
    BY <1>3, <2>1 DEF Go, AllOut
  <2> QED
    BY <1>1, <1>3, <2>1, <2>2 DEF spin, syncVars, masterVars, Sound, Staged
<1> QED
  BY <1>2, <1>3 DEF spin, MayStart

LEMMA CountKeeps ==
  ASSUME GradingInv, NEW w \in Process, count(w)
  PROVE  Sound'
<1> USE DEF GradingInv, GradingTypeOK
<1>1. mpc \in {"start", "wait"} /\ Gathering
  BY WhichStage DEF count, At
<1>2. w \notin Watching /\ Watching \in SUBSET Process
  BY DEF count, At, Watching
<1>3. nbready' = Cardinality(Watching) + 1 /\ nbready' \in 0 .. Cardinality(Process)
  BY <1>1, <1>2, OneMore, Counts, Workers DEF count, Gathering
<1>4. ThrowFails'
  BY DEF count, ThrowFails
<1>5. \A v \in Process : Fresh(v)'
  BY <1>1 DEF count, Gathering, Fresh, masterVars
<1>6. Midway'
  <2>1. CASE Latest
    <3>1. Watching \cup {w} = Process
      BY <1>1, <1>2, <2>1, OneMore DEF Latest, Gathering
    <3>2. wpc'[w] = "reset" /\ \A v \in Process \ {w} : wpc'[v] = "watch"
      BY <2>1, <3>1 DEF count, Go, Watching
    <3> QED
      BY <1>1, <1>5, <3>2 DEF count, Gathering, Gathered, Midway
  <2>2. CASE ~Latest
    <3>1. Watching' = Watching \cup {w}
      BY <2>2 DEF count, Go, Watching
    <3>2. Watching' # Process
      BY <1>1, <1>2, <2>2, <3>1, OneMore DEF Latest, Gathering
    <3>3. \A v \in Process : wpc'[v] \in {"wait", "count", "watch"}
      BY <1>1, <2>2 DEF count, Go, Gathering
    <3>4. nbready' = Cardinality(Watching')
      BY <1>2, <1>3, <3>1, OneMore
    <3> QED
      BY <1>1, <1>5, <3>2, <3>3, <3>4 DEF count, Gathering, Midway
  <2> QED
    BY <2>1, <2>2
<1> QED
  BY <1>1, <1>3, <1>4, <1>6 DEF count, masterVars, Sound, Staged

LEMMA ResetKeeps ==
  ASSUME GradingInv, NEW w \in Process, reset(w)
  PROVE  Sound'
<1> USE DEF GradingInv, GradingTypeOK
<1>1. mpc \in {"start", "wait"} /\ Gathered
  BY WhichStage DEF reset, At
<1>2. \A v \in Process \ {w} : wpc[v] = "watch"
  BY <1>1 DEF reset, At, Gathered
<1>3. Gathered'
  BY <1>1, <1>2 DEF reset, Go, Gathered, Fresh, masterVars
<1> QED
  BY <1>1, <1>3, Workers DEF reset, masterVars, Sound, Staged, Midway, ThrowFails

LEMMA GoKeeps ==
  ASSUME GradingInv, NEW w \in Process, go(w)
  PROVE  Sound'
<1> USE DEF GradingInv, GradingTypeOK
<1>1. mpc \in {"start", "wait"} /\ Gathered
  BY WhichStage DEF go, At
<1>2. nbready = 0 /\ \A v \in Process \ {w} : wpc[v] = "watch"
  BY <1>1 DEF go, At, Gathered
<1>3. \A v \in Process : Fresh(v)'
  BY <1>1 DEF go, Start, Gathered, Fresh, masterVars
<1>4. \A v \in Process : AtWork(v)' /\ wpc'[v] \in {"work", "watch"}
  BY <1>2, <1>3 DEF go, Start, Go, AtWork, Fresh
<1>5. Left' = {}
  BY <1>3, Workers DEF go, Start, masterVars, Left, Fresh
<1>6. Running'
  BY <1>1, <1>2, <1>3, <1>4, <1>5, FS_EmptySet, BarrierAssumption
  DEF go, Start, Gathered, Running, Told, Fresh
<1> QED
  BY <1>1, <1>3, <1>6, Workers DEF go, Start, masterVars, Sound, Staged, Midway, ThrowFails, Fresh

\* What Running' needs, for an action that lets nobody leave.
LEMMA RunsOn ==
  ASSUME GradingInv, Running, mpc \in {"start", "wait"}, NEW w \in Process,
         AtWork(w), AtWork(w)', ThrowFails',
         UNCHANGED <<nbready, raised, round, mpc>>,
         errmsg => errmsg', wpc'[w] = "abort" \/ Told(w)' => errmsg',
         round_of' = round_of,
         \A v \in Process \ {w} : wpc'[v] = wpc[v] /\ failed'[v] = failed[v] /\ thrown'[v] = thrown[v],
         status' = IF \E v \in Process : Told(v)' THEN "Abort" ELSE "Run"
  PROVE  Sound'
<1>1. Left' = Left
  BY DEF Left
<1>2. \A v \in Process \ {w} : (HasLeft(v)' <=> HasLeft(v)) /\ (AtWork(v)' <=> AtWork(v)) /\ (Told(v)' <=> Told(v))
  BY DEF HasLeft, AtWork, Told, Fresh
<1>3. Running'
  BY <1>1, <1>2 DEF Running
<1> QED
  BY <1>3 DEF Sound, Staged, Midway, GradingInv, GradingTypeOK

LEMMA WatchKeeps ==
  ASSUME GradingInv, NEW w \in Process, watch(w)
  PROVE  Sound'
<1> USE DEF GradingInv, GradingTypeOK
<1>1. mpc \in {"start", "wait"} /\ Running
  BY WhichStage DEF watch, At
<1>2. AtWork(w) /\ Fresh(w)
  BY <1>1 DEF watch, At, Running, HasLeft, AtWork
<1>3. failed' = failed
  BY <1>2 DEF watch, Start, Fresh
<1>4. AtWork(w)' /\ ~Told(w) /\ ~Told(w)' /\ wpc'[w] = "work"
  BY <1>2, <1>3 DEF watch, At, Start, Go, AtWork, Told, Fresh, masterVars
<1>5. \A v \in Process : Told(v)' <=> Told(v)
  BY <1>3, <1>4 DEF watch, Start, Go, Told
<1> QED
  BY <1>1, <1>2, <1>3, <1>4, <1>5, RunsOn DEF watch, Start, Go, Running, ThrowFails, masterVars

\* The workload: all of its actions end in one of two ways for Sync.
LEMMA WorkKeeps ==
  ASSUME GradingInv, NEW w \in Process, At(w, "work"), work(w)
  PROVE  Sound'
<1> USE DEF GradingInv, GradingTypeOK
<1>1. mpc \in {"start", "wait"} /\ Running
  BY WhichStage DEF At
<1>2. AtWork(w)
  BY <1>1 DEF At, Running, HasLeft
<1>3. UNCHANGED <<syncVars, round_of, masterVars>>
  BY DEF work, run, check_sync, check_throws, check_returns, in_barrier, Finish, After, workerVars
<1>4. /\ wpc'[w] \in {"work", "message", "tally"}
      /\ wpc'[w] = "message" => failed'[w]
      /\ wpc'[w] = "tally" => ~failed'[w]
      /\ \A v \in Process \ {w} : wpc'[v] = wpc[v] /\ failed'[v] = failed[v] /\ thrown'[v] = thrown[v]
      /\ thrown'[w] => failed'[w]
  BY DEF At, work, run, check_sync, check_throws, check_returns, in_barrier, Finish, After,
         Go, workerVars, ThrowFails
<1>5. AtWork(w)' /\ ~Told(w) /\ ~Told(w)'
  BY <1>2, <1>3, <1>4 DEF At, AtWork, Told, masterVars
<1>6. \A v \in Process : Told(v)' <=> Told(v)
  BY <1>4, <1>5 DEF Told
<1>7. ThrowFails'
  BY <1>4 DEF ThrowFails
<1> QED
  BY <1>1, <1>2, <1>3, <1>4, <1>5, <1>6, <1>7, RunsOn DEF Running, syncVars, masterVars

LEMMA MessageKeeps ==
  ASSUME GradingInv, NEW w \in Process, message(w)
  PROVE  Sound'
<1> USE DEF GradingInv, GradingTypeOK
<1>1. mpc \in {"start", "wait"} /\ Running
  BY WhichStage DEF message, At
<1>2. AtWork(w) /\ failed[w]
  BY <1>1 DEF message, At, Running, HasLeft, AtWork
<1>3. AtWork(w)' /\ ~Told(w) /\ ~Told(w)'
  BY <1>2 DEF message, At, Go, AtWork, Told, masterVars
<1>4. \A v \in Process : Told(v)' <=> Told(v)
  BY <1>3 DEF message, Go, Told
<1> QED
  BY <1>1, <1>2, <1>3, <1>4, RunsOn DEF message, Go, Running, ThrowFails, masterVars

LEMMA AbortKeeps ==
  ASSUME GradingInv, NEW w \in Process, abort(w)
  PROVE  Sound'
<1> USE DEF GradingInv, GradingTypeOK
<1>1. mpc \in {"start", "wait"} /\ Running
  BY WhichStage DEF abort, At
<1>2. AtWork(w) /\ failed[w] /\ errmsg
  BY <1>1 DEF abort, At, Running, HasLeft, AtWork
<1>3. AtWork(w)' /\ Told(w)' /\ wpc'[w] = "tally"
  BY <1>2 DEF abort, Go, AtWork, Told, masterVars
<1> QED
  BY <1>1, <1>2, <1>3, RunsOn DEF abort, Go, Running, ThrowFails, masterVars

\* The one that comes last finds that everybody else has left.
LEMMA TallyKeeps ==
  ASSUME GradingInv, NEW w \in Process, tally(w)
  PROVE  Sound'
<1> USE DEF GradingInv, GradingTypeOK
<1>1. mpc \in {"start", "wait"} /\ Running
  BY WhichStage DEF tally, At
<1>2. AtWork(w) /\ round \in Nat
  <2>1. wpc[w] = "tally"
    BY DEF tally, At
  <2>2. AtWork(w)
    BY <1>1, <2>1 DEF Running, HasLeft
  <2> QED
    BY <2>2, Workers
<1>3. w \notin Left /\ Left \in SUBSET Process
  BY <1>2 DEF AtWork, Left
<1>4. nbready' = Cardinality(Left) + 1 /\ nbready' \in 0 .. Cardinality(Process)
  BY <1>1, <1>3, OneMore, Counts, Workers DEF tally, Running
<1>5. ThrowFails'
  BY DEF tally, ThrowFails
<1>6. \A v \in Process \ {w} : (HasLeft(v)' <=> HasLeft(v)) /\ (AtWork(v)' <=> AtWork(v)) /\ (Told(v)' <=> Told(v))
  BY DEF tally, Go, Leave, HasLeft, AtWork, Told, Fresh, masterVars
<1>7. Midway'
  <2>1. CASE Latest
    <3>1. Left \cup {w} = Process
      BY <1>1, <1>3, <2>1, OneMore DEF Latest, Running
    <3>2. \A v \in Process \ {w} : HasLeft(v)
      BY <1>1, <1>2, <3>1 DEF Running, AtWork, Left
    <3>3. AnyFailed <=> \E v \in Process : Told(v)
      BY <3>2 DEF tally, At, AnyFailed, Told, HasLeft
    <3>4. Closer(w)'
      BY <1>1, <1>2, <1>6, <2>1, <3>2, <3>3
      DEF tally, Go, Closer, Running, AtWork, AnyFailed, masterVars
    <3>5. (AnyFailed => errmsg)'
      BY <1>1, <3>3 DEF tally, Running, AnyFailed
    <3> QED
      BY <1>1, <3>4, <3>5 DEF tally, Running, Closing, Midway
  <2>2. CASE ~Latest
    <3>1. HasLeft(w)'
      BY <1>2, <2>2 DEF tally, Leave, Go, AtWork, HasLeft, masterVars
    <3>2. Left' = Left \cup {w}
      BY <1>2, <2>2 DEF tally, Leave, AtWork, Left, masterVars
    <3>3. Left' # Process /\ nbready' = Cardinality(Left')
      BY <1>1, <1>3, <1>4, <2>2, <3>2, OneMore DEF Latest, Running
    <3>4. Told(w)' <=> Told(w)
      BY <2>2 DEF tally, At, Leave, Go, Told
    <3>5. wpc'[w] # "abort" /\ wpc[w] # "abort" /\ \A v \in Process \ {w} : wpc'[v] = wpc[v]
      BY <2>2 DEF tally, At, Leave, Go
    <3> QED
      BY <1>1, <1>6, <3>1, <3>3, <3>4, <3>5 DEF tally, Running, Midway
  <2> QED
    BY <2>1, <2>2
<1> QED
  BY <1>1, <1>4, <1>5, <1>7 DEF tally, masterVars, Sound, Staged

\* The closer is w, and what it does leaves the others where they are.
LEMMA CloserIs ==
  ASSUME GradingInv, NEW w \in Process, ~Ended,
         wpc[w] \in {"zero", "verdict", "stop", "raise"}
  PROVE  /\ mpc \in {"start", "wait"} /\ Closing /\ Closer(w)
         /\ round \in Nat
<1>1. mpc \in {"start", "wait"} /\ Closing
  BY WhichStage
<1>2. Closer(w)
  BY <1>1 DEF Closing, Closer, HasLeft
<1> QED BY <1>1, <1>2 DEF GradingInv, GradingTypeOK

LEMMA CloserGoesOn ==
  ASSUME GradingInv, NEW w \in Process, ~Ended,
         wpc[w] \in {"zero", "verdict", "stop"},
         NEW to \in {"verdict", "stop", "raise"}, Go(w, to),
         nbready' = 0,
         status' = IF to = "verdict"
                   THEN IF AnyFailed THEN "Abort" ELSE "Run"
                   ELSE IF AnyFailed THEN "Fail" ELSE "Done",
         UNCHANGED <<errmsg, raised, round_of, failed, thrown, masterVars>>
  PROVE  Sound'
<1> USE DEF GradingInv, GradingTypeOK
<1>1. mpc \in {"start", "wait"} /\ Closing /\ Closer(w)
  BY CloserIs
<1>2. \A v \in Process \ {w} : HasLeft(v)'
  BY <1>1 DEF Closer, HasLeft, Go, masterVars
<1>3. (AnyFailed <=> AnyFailed') /\ wpc'[w] = to
  BY DEF AnyFailed, Go
<1>4. Closer(w)'
  BY <1>1, <1>2, <1>3 DEF Closer, masterVars
<1>5. Closing'
  BY <1>1, <1>3, <1>4 DEF Closing
<1> QED
  BY <1>1, <1>5, Workers DEF Sound, Staged, Midway, ThrowFails, masterVars

LEMMA CloserKeeps ==
  ASSUME GradingInv, NEW w \in Process, zero(w) \/ verdict(w) \/ stop(w)
  PROVE  Sound'
<1> USE DEF GradingInv
<1>1. CASE zero(w)
  <2>1. Closer(w)
    BY <1>1, CloserIs DEF zero, At
  <2> QED
    BY <1>1, <2>1, CloserGoesOn DEF zero, At, AfterTally, Closer
<1>2. CASE verdict(w)
  <2>1. Closer(w)
    BY <1>2, CloserIs DEF verdict, At
  <2> QED
    BY <1>2, <2>1, CloserGoesOn DEF verdict, At, Verdict, Closer
<1>3. CASE stop(w)
  <2>1. Closer(w)
    BY <1>3, CloserIs DEF stop, At
  <2> QED
    BY <1>3, <2>1, CloserGoesOn DEF stop, At, Closer
<1> QED
  BY <1>1, <1>2, <1>3

LEMMA RaiseKeeps ==
  ASSUME GradingInv, NEW w \in Process, raise(w)
  PROVE  Sound'
<1> USE DEF GradingInv, GradingTypeOK
<1>1. mpc \in {"start", "wait"} /\ Closing /\ Closer(w)
  BY CloserIs DEF raise, At
<1>2. HasLeft(w)'
  BY <1>1 DEF raise, Leave, Go, Closer, HasLeft, masterVars
<1>3. \A v \in Process \ {w} : HasLeft(v)'
  BY <1>1 DEF raise, Leave, Go, Closer, HasLeft, masterVars
<1>4. Over' /\ raised'
  BY <1>1, <1>2, <1>3 DEF raise, At, Closing, Closer, Over, AnyFailed
<1> QED
  BY <1>1, <1>4 DEF raise, Sound, Staged, Midway, ThrowFails, masterVars
-----------------------------------------------------------------------------
(* The master's actions lead from stage to stage as well.                  *)
LEMMA SpawnKeeps ==
  ASSUME GradingInv, NEW w \in Process, spawn(w)
  PROVE  Sound'
<1> USE DEF GradingInv, GradingTypeOK
<1>1. Resting /\ \A v \in Process : wpc[v] \in {"unborn", "wait"}
  BY DEF spawn, Staged, Ended
<1>2. Resting' /\ ThrowFails'
  BY <1>1 DEF spawn, syncVars, Resting, Fresh, ThrowFails
<1>3. \A v \in Process : wpc'[v] \in {"unborn", "wait"}
  BY <1>1 DEF spawn, Go
<1>4. mpc' = "notify" => \A v \in Process : wpc'[v] = "wait"
  BY <1>1 DEF spawn, Go
<1> QED
  BY <1>2, <1>3, <1>4 DEF spawn, syncVars, Sound, Staged

LEMMA MasterKeeps ==
  ASSUME GradingInv,
         spawn_fails \/ master_notify \/ start \/ latch_wait \/ latch_overtime
         \/ read \/ master_join \/ joined
  PROVE  Sound'
<1> USE DEF GradingInv, GradingTypeOK
<1>1. /\ ThrowFails' /\ nbready' \in 0 .. Cardinality(Process)
      /\ UNCHANGED <<nbready, errmsg, workerVars>>
  BY DEF spawn_fails, master_notify, start, latch_wait, latch_overtime, read,
         master_join, joined, Master, workerVars, ThrowFails
<1>2. CASE spawn_fails \/ latch_overtime \/ joined
  BY <1>1, <1>2 DEF spawn_fails, latch_overtime, joined, Master, Ended, Sound, Staged
<1>3. CASE master_notify
  <2>1. Resting /\ \A w \in Process : wpc[w] = "wait"
    BY <1>3 DEF master_notify, Master, Staged, Ended
  <2>2. Watching' = {}
    BY <1>1, <2>1 DEF Watching, workerVars
  <2>3. Gathering'
    BY <1>1, <1>3, <2>1, <2>2, FS_EmptySet, BarrierAssumption
    DEF master_notify, Resting, Gathering, Fresh, workerVars
  <2> QED
    BY <1>1, <1>3, <2>3 DEF master_notify, Master, Sound, Staged, Midway
<1>4. CASE start
  <2>1. UNCHANGED <<status, raised, round>> /\ mpc = "start" /\ mpc' = "wait" /\ Midway
    BY <1>4 DEF start, Master, Staged, Ended
  <2>2. /\ Watching' = Watching /\ Left' = Left /\ AnyFailed' = AnyFailed
        /\ \A w \in Process : Fresh(w)' = Fresh(w) /\ HasLeft(w)' = HasLeft(w) /\ Told(w)' = Told(w)
    BY <1>1, <2>1 DEF Watching, Left, AnyFailed, Fresh, HasLeft, Told, workerVars
  <2>3. \A w \in Process : AtWork(w)' = AtWork(w) /\ Closer(w)' = Closer(w)
    BY <1>1, <2>1, <2>2 DEF AtWork, Closer, workerVars
  <2>4. Gathering' = Gathering /\ Gathered' = Gathered
    BY <1>1, <2>1, <2>2 DEF Gathering, Gathered, workerVars
  <2>5. Running' = Running
    BY <1>1, <2>1, <2>2, <2>3 DEF Running, workerVars
  <2>6. Closing' = Closing /\ Over' = Over
    BY <1>1, <2>1, <2>2, <2>3 DEF Closing, Over
  <2> QED
    BY <1>1, <2>1, <2>4, <2>5, <2>6 DEF Sound, Staged, Midway
<1>5. CASE latch_wait
  <2>1. Over
    BY <1>5 DEF latch_wait, Master, Staged, Midway, Gathering, Gathered, Running, Closing, Ended
  <2>2. Over'
    BY <1>1, <1>5, <2>1 DEF latch_wait, Over, HasLeft, AnyFailed, workerVars
  <2> QED
    BY <1>1, <1>5, <2>2 DEF latch_wait, Master, Sound, Staged
<1>6. CASE read
  <2>1. Over /\ ~raised
    BY <1>6 DEF read, Master, Staged, Ended
  <2>2. CASE status = "Done" /\ round < Rounds /\ Master("read", "notify") /\ round' = round + 1
    <3>1. \A w \in Process : HasLeft(w) /\ ~failed[w] /\ ~thrown[w]
      BY <2>1, <2>2 DEF Over, AnyFailed, ThrowFails
    <3>2. \A w \in Process : Fresh(w)' /\ wpc'[w] = "wait"
      BY <1>1, <2>2, <3>1 DEF HasLeft, Fresh, workerVars
    <3> QED
      BY <1>1, <1>6, <2>1, <2>2, <3>2 DEF read, Master, Over, Resting, Sound, Staged
  <2>3. CASE Master("read", "join") /\ status \in {"Done", "Fail"}
    <3>1. AllOut'
      BY <1>1, <2>1 DEF Over, HasLeft, AllOut, workerVars
    <3> QED
      BY <1>1, <1>6, <2>3, <3>1 DEF read, Master, Sound, Staged
  <2> QED
    BY <1>6, <2>2, <2>3 DEF read
<1>7. CASE master_join
  <2>1. AllOut
    BY <1>7 DEF master_join, Master, Staged, Ended
  <2>2. AllOut'
    BY <1>1, <2>1 DEF AllOut, workerVars
  <2> QED
    BY <1>1, <1>7, <2>2 DEF master_join, Master, Farewell, Sound, Staged
<1> QED
  BY <1>2, <1>3, <1>4, <1>5, <1>6, <1>7

\* Nothing moves once the measurement has ended.
LEMMA EndIsEnd ==
  ASSUME GradingNext, Ended
  PROVE  FALSE
BY DEF GradingNext, Ended, master, spawn, spawn_fails, master_notify, start, latch_wait,
       latch_overtime, read, master_join, joined, Master, worker_wait, spin, count, reset,
       go, watch, work, run, check_sync, check_throws, check_returns, Checking, in_barrier,
       worker_notify, message, abort, tally, zero, verdict, stop, raise, At

LEMMA SoundKept ==
  ASSUME GradingInv, GradingNext
  PROVE  Sound'
<1>1. ASSUME NEW w \in Process, worker_wait(w) PROVE Sound'
  BY <1>1, SpinKeeps, CountKeeps, ResetKeeps, GoKeeps, WatchKeeps DEF worker_wait
<1>2. ASSUME NEW w \in Process, work(w) PROVE Sound'
  <2>1. At(w, "work")
    BY <1>2 DEF work, run, check_sync, check_throws, check_returns, Checking, in_barrier
  <2> QED
    BY <1>2, <2>1, WorkKeeps
<1>3. ASSUME NEW w \in Process, worker_notify(w) PROVE Sound'
  BY <1>3, MessageKeeps, AbortKeeps, TallyKeeps, CloserKeeps, RaiseKeeps DEF worker_notify
<1>4. CASE master
  BY <1>4, SpawnKeeps, MasterKeeps DEF master
<1> QED
  BY <1>1, <1>2, <1>3, <1>4 DEF GradingNext
-----------------------------------------------------------------------------
(* Types, of which the stages give the range of nbready and the rounds.    *)
LEMMA WorkerTypes ==
  ASSUME GradingInv, nbready' \in 0 .. Cardinality(Process), NEW w \in Process,
         worker_wait(w) \/ work(w) \/ worker_notify(w)
  PROVE  GradingTypeOK'
<1> USE DEF GradingTypeOK
<1> DEFINE Segments == [from : 0 .. Rounds, until : 1 .. Rounds]
<1>1. CASE worker_wait(w)
  BY <1>1 DEF worker_wait, spin, count, reset, go, watch, Start, Go, syncVars,
              masterVars, WorkerLabel, Status, GradingInv
<1>2. CASE work(w)
  <2>1. UNCHANGED <<syncVars, round_of, masterVars>>
    BY <1>2 DEF work, run, check_sync, check_throws, check_returns, in_barrier, Finish, After, workerVars
  <2>2. /\ wpc' \in [Process -> WorkerLabel]
        /\ failed' \in [Process -> BOOLEAN] /\ thrown' \in [Process -> BOOLEAN]
    BY <1>2 DEF work, run, check_sync, check_throws, check_returns, in_barrier, Finish, After,
                Go, workerVars, WorkerLabel, GradingInv
  <2> QED
    BY <2>1, <2>2 DEF syncVars, masterVars, GradingInv
<1>3. CASE message(w) \/ abort(w) \/ zero(w) \/ verdict(w)
  BY <1>3 DEF message, abort, zero, verdict, Verdict, Go, masterVars, WorkerLabel, Status, GradingInv
<1>4. CASE tally(w) \/ raise(w)
  <2>1. round_of[w] = round
    BY <1>4, WhichStage, CloserIs DEF tally, raise, At, Closer, Running, HasLeft, AtWork
  <2>2. round_of[w] + 1 \in 1 .. Rounds + 1
    BY <2>1, Workers DEF GradingInv
  <2> QED
    BY <1>4, <2>2 DEF tally, raise, Leave, Go, masterVars, WorkerLabel, GradingInv
<1>5. CASE stop(w)
  <2>1. round_of[w] = round
    BY <1>5, CloserIs DEF stop, At, Closer
  <2>2. [from |-> local, until |-> round_of[w]] \in Segments
    BY <2>1 DEF GradingInv
  <2>3. Append(total, [from |-> local, until |-> round_of[w]]) \in Seq(Segments)
    BY <2>2 DEF GradingInv
  <2> QED
    BY <1>5, <2>3 DEF stop, Go, masterVars, WorkerLabel, GradingInv
<1> QED
  BY <1>1, <1>2, <1>3, <1>4, <1>5 DEF worker_notify

LEMMA MasterTypes ==
  ASSUME GradingInv, nbready' \in 0 .. Cardinality(Process), master
  PROVE  GradingTypeOK'
<1> USE DEF GradingTypeOK, GradingInv
<1>1. ASSUME NEW w \in Process, spawn(w) PROVE GradingTypeOK'
  BY <1>1 DEF spawn, Go, syncVars, WorkerLabel, MasterLabel
<1>2. CASE spawn_fails \/ latch_wait \/ latch_overtime \/ joined
  BY <1>2 DEF spawn_fails, latch_wait, latch_overtime, joined, Master, workerVars, MasterLabel
<1>3. CASE master_notify \/ master_join
  BY <1>3 DEF master_notify, master_join, Farewell, Master, workerVars, MasterLabel, Status
<1>4. CASE start
  BY <1>4, Workers DEF start, Master, workerVars, MasterLabel
<1>5. CASE read
  <2>1. round' \in 1 .. Rounds
    BY <1>5, Workers DEF read
  <2>2. mpc' \in MasterLabel /\ error' \in BOOLEAN
    BY <1>5 DEF read, Master, MasterLabel
  <2> QED
    BY <1>5, <2>1, <2>2 DEF read, Master, workerVars
<1> QED
  BY <1>1, <1>2, <1>3, <1>4, <1>5 DEF master

LEMMA GradingStep == GradingInv /\ [GradingNext]_gradingVars => GradingInv'
<1> SUFFICES ASSUME GradingInv, [GradingNext]_gradingVars PROVE GradingInv'
  OBVIOUS
<1>1. CASE GradingNext
  <2>1. Sound'
    BY <1>1, SoundKept
  <2>2. GradingTypeOK'
    BY <1>1, <2>1, WorkerTypes, MasterTypes DEF GradingNext, Sound
  <2> QED
    BY <2>1, <2>2 DEF Sound, GradingInv
<1>2. CASE UNCHANGED gradingVars
  <2>1. UNCHANGED <<syncVars, workerVars, masterVars>>
    BY <1>2 DEF gradingVars
  <2>2. /\ Watching' = Watching /\ Left' = Left /\ AnyFailed' = AnyFailed
        /\ \A w \in Process : Fresh(w)' = Fresh(w) /\ HasLeft(w)' = HasLeft(w) /\ Told(w)' = Told(w)
    BY <2>1 DEF Watching, Left, AnyFailed, Fresh, HasLeft, Told, workerVars, masterVars
  <2>3. \A w \in Process : AtWork(w)' = AtWork(w) /\ Closer(w)' = Closer(w)
    BY <2>1, <2>2 DEF AtWork, Closer, syncVars, workerVars, masterVars
  <2>4. Midway' = Midway /\ Over' = Over /\ Resting' = Resting
    BY <2>1, <2>2, <2>3
    DEF Midway, Gathering, Gathered, Running, Closing, Over, Resting, syncVars, workerVars, masterVars
  <2>5. Staged'
    BY <2>1, <2>4 DEF GradingInv, Staged, AllOut, Ended, syncVars, workerVars, masterVars
  <2> QED
    BY <2>1, <2>5 DEF GradingInv, GradingTypeOK, ThrowFails, syncVars, workerVars, masterVars
<1> QED
  BY <1>1, <1>2

LEMMA GradingInvariant == GradingSpec => []GradingInv
BY InitGrading, GradingStep, PTL DEF GradingSpec
-----------------------------------------------------------------------------
(* Every variable of the measurement has its type, and the counter, which  *)
(* serves two phases of every round, never exceeds the number of workers.  *)
THEOREM GradingTypeCorrect == GradingSpec => []GradingTypeOK
BY GradingInvariant, PTL DEF GradingInv

(* No call of a workload is made outside its round, and none before all    *)
(* workers have come to it: one status and one counter are enough.         *)
THEOREM RoundsNeverOverlap == GradingSpec => []RoundsInStep
<1>1. GradingInv => RoundsInStep
  <2> SUFFICES ASSUME GradingInv, NEW w \in Process, At(w, "work"), NEW v \in Process
               PROVE  /\ round_of[w] = round
                      /\ \/ round_of[v] = round /\ wpc[v] \notin {"unborn", "wait", "count", "gone"}
                         \/ round_of[v] = round + 1 /\ wpc[v] \in {"wait", "gone"}
    BY DEF RoundsInStep
  <2>1. Running
    BY WhichStage DEF At
  <2> QED
    BY <2>1 DEF At, Running, HasLeft, AtWork
<1> QED
  BY <1>1, GradingInvariant, PTL

(* When the latch has woken the master, the status is that of this round.  *)
THEOREM VerdictsAreRight == GradingSpec => []VerdictIsRight
<1>1. GradingInv => VerdictIsRight
  BY DEF GradingInv, Staged, Over, AnyFailed, Ended, VerdictIsRight
<1> QED
  BY <1>1, GradingInvariant, PTL
=============================================================================
