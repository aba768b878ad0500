---------------------------- MODULE AtomicMemory ----------------------------
(***************************************************************************)
(* What a transactional memory promises its users: every transaction runs  *)
(* on a copy of the memory, alone, and one that commits takes effect at    *)
(* once, provided that nobody else has committed a change since it began.  *)
(* The domain of a memory is the set of its addresses, which transactions  *)
(* extend and reduce by allocating and freeing.                            *)
(***************************************************************************)
CONSTANTS Thread, Word, Segment, Val, Zero

VARIABLES
    db,          \* the committed memory
    open,        \* open[t]: "no", "ro" or "rw"
    base, view,  \* the memory transaction t began with, and its own copy
    result       \* result[t]: what its last read returned

vars == <<db, open, base, view, result>>

Nothing == [a \in {} |-> Zero]
Put(m, a, v) == [b \in DOMAIN m \cup {a} |-> IF b = a THEN v ELSE m[b]]
Drop(m, a)   == [b \in DOMAIN m \ {a} |-> m[b]]

Init ==
    /\ db     = [a \in Word |-> Zero]
    /\ open   = [t \in Thread |-> "no"]
    /\ base   = [t \in Thread |-> Nothing]
    /\ view   = [t \in Thread |-> Nothing]
    /\ result = [t \in Thread |-> Zero]

Begin(t, mode) ==
    /\ open[t] = "no"
    /\ open' = [open EXCEPT ![t] = mode]
    /\ base' = [base EXCEPT ![t] = db]
    /\ view' = [view EXCEPT ![t] = db]
    /\ UNCHANGED <<db, result>>

Read(t, a) ==
    /\ open[t] # "no" /\ a \in DOMAIN view[t]
    /\ result' = [result EXCEPT ![t] = view[t][a]]
    /\ UNCHANGED <<db, open, base, view>>

Change(t, copy) ==
    /\ open[t] = "rw"
    /\ view' = [view EXCEPT ![t] = copy]
    /\ UNCHANGED <<db, open, base, result>>

Write(t, a, v) == a \in DOMAIN view[t] /\ Change(t, Put(view[t], a, v))
Alloc(t, s)    == s \notin DOMAIN view[t] /\ Change(t, Put(view[t], s, Zero))
Free(t, s)     == s \in DOMAIN view[t] /\ Change(t, Drop(view[t], s))

Close(t) ==
    /\ open'   = [open EXCEPT ![t] = "no"]
    /\ base'   = [base EXCEPT ![t] = Nothing]
    /\ view'   = [view EXCEPT ![t] = Nothing]
    /\ result' = [result EXCEPT ![t] = Zero]

Commit(t) ==
    /\ \/ open[t] = "ro" /\ UNCHANGED db
       \/ open[t] = "rw" /\ db = base[t] /\ db' = view[t]
    /\ Close(t)

Abort(t) == open[t] # "no" /\ Close(t) /\ UNCHANGED db

\* The memory goes away when nobody uses it any more.
Destroy ==
    /\ \A t \in Thread : open[t] = "no"
    /\ db' = Nothing
    /\ UNCHANGED <<open, base, view, result>>

Next ==
    \/ \E t \in Thread :
          \/ \E mode \in {"ro", "rw"} : Begin(t, mode)
          \/ \E a \in Word \cup Segment :
                Read(t, a) \/ \E v \in Val : Write(t, a, v)
          \/ \E s \in Segment : Alloc(t, s) \/ Free(t, s)
          \/ Commit(t) \/ Abort(t)
    \/ Destroy

Spec == Init /\ [][Next]_vars
=============================================================================
