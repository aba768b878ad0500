----------------------------- MODULE BankProofs -----------------------------
(***************************************************************************)
(* The bank over TL2, for any number of workers, accounts and calls: what  *)
(* is in the accounts is what the transfers that have returned, and the    *)
(* stores already done by those that are about to, add up to; and an audit *)
(* adds up to nothing.  The argument follows a closure from its start to   *)
(* its stores (ClosureInv): each node of its write set is a value it has   *)
(* read plus what it adds; and when the transaction stores it, that value  *)
(* is still in memory, because it was of the snapshot before wv            *)
(* (CommitsSerializable) and the spinlock of the word has been held since. *)
(***************************************************************************)
EXTENDS Bank, TL2Proofs, InductionTheorems

Operation == [kind : {"read", "add"}, address : Addr, amount : Int]

\* What a call of a worker is.
LEMMA CallType ==
  ASSUME NEW t \in Thread, NEW k \in 1 .. Len(Calls[t])
  PROVE  /\ Calls[t][k] \in Closures
         /\ Calls[t][k].ro \in BOOLEAN /\ Calls[t][k].ops \in Seq(Operation)
<1>1. Calls[t] \in Seq(Closures)
  BY BankAssumption
<1>2. Calls[t][k] \in Closures
  BY <1>1, ElementOfSeq
<1>3. Calls[t][k] \in [ro : BOOLEAN, ops : Seq(Operation)]
  BY <1>2 DEF Closures, Operation
<1> QED BY <1>2, <1>3

\* The number of its operations, and each of them.
LEMMA OperationType ==
  ASSUME NEW c \in Closures
  PROVE  /\ c.ro \in BOOLEAN
         /\ Len(c.ops) \in Nat /\ DOMAIN c.ops = 1 .. Len(c.ops)
         /\ \A i \in 1 .. Len(c.ops) :
               /\ c.ops[i] \in Operation /\ c.ops[i].address \in Addr /\ c.ops[i].amount \in Int
               /\ c.ops[i].kind \in {"read", "add"}
               /\ c.ops[i].kind = "read" => c.ops[i].amount = 0
               /\ c.ops[i].kind = "add" =>
                     /\ ~c.ro /\ i > 1
                     /\ c.ops[i - 1].kind = "read" /\ c.ops[i - 1].address = c.ops[i].address
<1>1. c.ro \in BOOLEAN /\ c.ops \in Seq(Operation)
  BY DEF Closures, Operation
<1>2. Len(c.ops) \in Nat /\ DOMAIN c.ops = 1 .. Len(c.ops)
  BY <1>1, LenProperties
<1>3. \A i \in 1 .. Len(c.ops) : c.ops[i] \in Operation
  BY <1>1, ElementOfSeq
<1>4. \A o \in Operation : o.address \in Addr /\ o.amount \in Int /\ o.kind \in {"read", "add"}
  BY DEF Operation
<1>5. \A i \in 1 .. Len(c.ops) :
         /\ c.ops[i].kind = "read" => c.ops[i].amount = 0
         /\ c.ops[i].kind = "add" =>
               /\ ~c.ro /\ i > 1
               /\ c.ops[i - 1].kind = "read" /\ c.ops[i - 1].address = c.ops[i].address
  BY <1>2 DEF Closures
<1> QED BY <1>1, <1>2, <1>3, <1>4, <1>5
-----------------------------------------------------------------------------
(* What the first n operations of a closure add to an account.             *)
Part(c, a, n) == SumFunctionOnSet(Amounts(c, a), 1 .. n)

\* Nothing at first, ...
LEMMA PartNone == \A c, a : Part(c, a, 0) = 0
<1>1. 1 .. 0 = {}
  OBVIOUS
<1> QED BY <1>1, SumEmpty DEF Part

\* ... and with each operation its amount, if it is to that account.
LEMMA PartNext ==
  ASSUME NEW c \in Closures, NEW a, NEW n \in 1 .. Len(c.ops)
  PROVE  /\ Part(c, a, n - 1) \in Int /\ Part(c, a, n) \in Int
         /\ Part(c, a, n) =
               Part(c, a, n - 1) + (IF c.ops[n].address = a THEN c.ops[n].amount ELSE 0)
<1>1. n \in Nat /\ n > 0 /\ Len(c.ops) \in Nat
  BY OperationType
<1>2. \A i \in 1 .. n : i \in DOMAIN c.ops /\ c.ops[i].amount \in Int
  BY <1>1, OperationType
<1>3. \A i \in 1 .. n :
         Amounts(c, a)[i] = IF c.ops[i].address = a THEN c.ops[i].amount ELSE 0
  BY <1>2 DEF Amounts
<1> PICK f : f = Amounts(c, a)
  OBVIOUS
<1>4. \A i \in 1 .. n : f[i] \in Int
  BY <1>2, <1>3
<1>5. SumFunctionOnSet(f, 1 .. n) = SumFunctionOnSet(f, 1 .. n - 1) + f[n]
  BY ONLY <1>1, <1>4, SumUpTo
<1>6. /\ IsFiniteSet(1 .. n) /\ IsFiniteSet(1 .. n - 1)
      /\ \A i \in 1 .. n - 1 : f[i] \in Int
  <2>1. n - 1 \in Int /\ n \in Int /\ 1 \in Int /\ \A i \in 1 .. n - 1 : i \in 1 .. n
    BY <1>1
  <2>2. IsFiniteSet(1 .. n) /\ IsFiniteSet(1 .. n - 1)
    BY ONLY <2>1, FS_Interval
  <2> QED BY ONLY <1>4, <2>1, <2>2
<1>7. SumFunctionOnSet(f, 1 .. n) \in Int /\ SumFunctionOnSet(f, 1 .. n - 1) \in Int
  BY ONLY <1>4, <1>6, SumType
<1>8. f[n] = IF c.ops[n].address = a THEN c.ops[n].amount ELSE 0
  BY <1>1, <1>3
<1> QED BY <1>5, <1>7, <1>8 DEF Part

\* All of them are its effect.
LEMMA PartAll ==
  ASSUME NEW c \in Closures, NEW a
  PROVE  Part(c, a, Len(c.ops)) = Effect(c, a) /\ Effect(c, a) \in Int
<1>1. DOMAIN Amounts(c, a) = 1 .. Len(c.ops)
  <2>1. DOMAIN Amounts(c, a) = DOMAIN c.ops
    BY DEF Amounts
  <2> QED BY ONLY <2>1, OperationType, c \in Closures, Zenon
<1>2. Part(c, a, Len(c.ops)) = Effect(c, a)
  BY <1>1, Zenon DEF Part, Effect, SumFunction
<1>3. Len(c.ops) \in Nat
  BY OperationType
<1>4. CASE Len(c.ops) = 0
  BY <1>2, <1>4, PartNone
<1>5. CASE Len(c.ops) > 0
  <2>1. Len(c.ops) \in 1 .. Len(c.ops)
    BY <1>3, <1>5
  <2> QED BY <1>2, <2>1, PartNext
<1> QED BY <1>2, <1>3, <1>4, <1>5

\* The nodes of a write set after a write.
LEMMA PutNodes ==
  ASSUME NEW ws \in WriteList(Addr, Val), Distinct(ws), NEW a \in Addr, NEW v \in Val
  PROVE  /\ \A i \in DOMAIN WritePut(ws, a, v) :
               \/ WritePut(ws, a, v)[i] = [address |-> a, value |-> v]
               \/ /\ WritePut(ws, a, v)[i].address # a
                  /\ \E j \in DOMAIN ws : WritePut(ws, a, v)[i] = ws[j]
         /\ \E i \in DOMAIN WritePut(ws, a, v) : WritePut(ws, a, v)[i].address = a
         /\ \A j \in DOMAIN ws : \E i \in DOMAIN WritePut(ws, a, v) :
               WritePut(ws, a, v)[i].address = ws[j].address
<1> DEFINE k == write_node_find(ws, a)
           node == [address |-> a, value |-> v]
<1>1. ws \in Seq(WriteNode(Addr, Val)) /\ node \in WriteNode(Addr, Val)
  BY DEF WriteList, WriteNode
<1>2. Len(ws) \in Nat /\ DOMAIN ws = 1 .. Len(ws)
  BY <1>1, LenProperties
<1>3. CASE k = NULL
  <2>1. WritePut(ws, a, v) = Append(ws, node)
    BY <1>3 DEF WritePut, write_set_add
  <2>2. \A j \in DOMAIN ws : ws[j].address # a
    BY <1>3, FindReturns
  <2> PICK n : n = node
    OBVIOUS
  <2>3. /\ DOMAIN Append(ws, n) = 1 .. (Len(ws) + 1)
        /\ \A i \in 1 .. Len(ws) : Append(ws, n)[i] = ws[i]
        /\ Append(ws, n)[Len(ws) + 1] = n
    BY <1>1, <1>2, AppendProperties
  <2>4. \A i \in 1 .. (Len(ws) + 1) : i = Len(ws) + 1 \/ i \in 1 .. Len(ws)
    BY <1>2
  <2>5. Len(ws) + 1 \in 1 .. (Len(ws) + 1) /\ 1 .. Len(ws) \subseteq 1 .. (Len(ws) + 1)
    BY <1>2
  <2>6. n.address = a
    OBVIOUS
  <2>7. Append(ws, node) = Append(ws, n)
    OBVIOUS
  <2> HIDE DEF k, node
  <2> QED BY ONLY <1>2, <2>1, <2>2, <2>3, <2>4, <2>5, <2>6, <2>7, n = node, Zenon DEF node
<1>4. CASE k # NULL
  <2>1. WritePut(ws, a, v) = write_node_overwrite(ws, k, v)
    BY <1>4 DEF WritePut
  <2>2. k \in DOMAIN ws /\ ws[k].address = a
    BY <1>4, FindReturns
  <2>3. ws[k] \in WriteNode(Addr, Val)
    BY <2>2, NodeType
  <2>4. [ws[k] EXCEPT !.value = v] = node
    BY <2>2, <2>3 DEF WriteNode
  <2>5. WritePut(ws, a, v) = [ws EXCEPT ![k] = node]
    BY <2>1, <2>4 DEF write_node_overwrite
  <2>6. \A i \in DOMAIN ws : i # k => ws[i].address # a
    BY <2>2 DEF Distinct
  <2>7. node.address = a
    OBVIOUS
  <2> HIDE DEF k, node
  <2>8. /\ DOMAIN [ws EXCEPT ![k] = node] = DOMAIN ws
        /\ [ws EXCEPT ![k] = node][k] = node
        /\ \A i \in DOMAIN ws : i # k => [ws EXCEPT ![k] = node][i] = ws[i]
    BY <2>2
  <2> QED BY ONLY <2>2, <2>5, <2>6, <2>7, <2>8, Zenon DEF node
<1> QED BY <1>3, <1>4
-----------------------------------------------------------------------------
(* How far a closure has got, and what it has read and written by then.    *)
WorkerTypeOK ==
    /\ call \in [Thread -> Nat \ {0}]
    /\ op \in [Thread -> Nat \ {0}]
    /\ got \in [Thread -> Seq(Int)]
    /\ tainted \in BOOLEAN

InCopy == {"read_lock", "read_version"}

OwnValue(t, a) == wset[t][write_node_find(wset[t], a)].value

\* v is what t can have read at a: from its own write set, or from memory.
ValueRead(t, a, v) ==
    IF IsOwnWrite(t, a) THEN v = OwnValue(t, a) ELSE [address |-> a, value |-> v] \in obs[t]

\* A node is a value read from memory plus what the operations so far add to it, ...
NodesOK(t) ==
    /\ \A i \in DOMAIN wset[t] : \E w \in obs[t] :
          /\ w.address = wset[t][i].address
          /\ wset[t][i].value = w.value + Part(Closure(t), w.address, op[t] - 1)
    /\ \A a \in Addr : (\A i \in DOMAIN wset[t] : wset[t][i].address # a) =>
          Part(Closure(t), a, op[t] - 1) = 0

\* ... after a read its value is the last of got, ...
LastRead(t) ==
    LET o == Closure(t).ops[op[t] - 1]
    IN  o.kind = "read" => Len(got[t]) > 0 /\ ValueRead(t, o.address, got[t][Len(got[t])])

\* ... an audit has all it has got from memory, ...
AuditRead(t) ==
    is_ro[t] => /\ wset[t] = <<>> /\ Len(got[t]) = op[t] - 1
                /\ \A i \in 1 .. op[t] - 1 :
                      [address |-> Closure(t).ops[i].address, value |-> got[t][i]] \in obs[t]

\* ... and in a read the word copied is that of the operation.
CopyOf(t) ==
    LET o == Closure(t).ops[op[t]]
    IN  /\ op[t] <= Len(Closure(t).ops) /\ o.kind = "read" /\ word[t].address = o.address
        /\ IsOwnWrite(t, o.address) => word[t].value = OwnValue(t, o.address)

ClosureOK(t) ==
    /\ call[t] <= Len(Calls[t]) + 1
    /\ pc[t] = "idle" => op[t] = 1 /\ got[t] = <<>> /\ wset[t] = <<>> /\ obs[t] = {}
    /\ pc[t] # "idle" =>
          /\ call[t] <= Len(Calls[t])
          /\ is_ro[t] = Closure(t).ro
          /\ op[t] <= Len(Closure(t).ops) + 1
          /\ NodesOK(t) /\ AuditRead(t)
    /\ pc[t] \in InCopy => CopyOf(t)
    /\ pc[t] = "running" /\ op[t] > 1 => LastRead(t)
    /\ pc[t] \notin {"idle", "running"} \cup InCopy =>
          op[t] = Len(Closure(t).ops) + 1 /\ ~is_ro[t]

ClosureInv == \A t \in Thread : ClosureOK(t)

\* The call a worker is in.
LEMMA CurrentCall ==
  ASSUME WorkerTypeOK, NEW t \in Thread, call[t] <= Len(Calls[t])
  PROVE  /\ call[t] \in 1 .. Len(Calls[t]) /\ Closure(t) \in Closures
         /\ op[t] \in Nat \ {0} /\ op[t] - 1 \in Nat
<1>1. call[t] \in Nat \ {0} /\ op[t] \in Nat \ {0} /\ Len(Calls[t]) \in Nat
  BY BankAssumption, LenProperties DEF WorkerTypeOK
<1>2. call[t] \in 1 .. Len(Calls[t])
  BY <1>1
<1> QED BY <1>1, <1>2, CallType DEF Closure

\* The amounts so far are integers.
LEMMA PartType ==
  ASSUME NEW c \in Closures, NEW a, NEW n \in 0 .. Len(c.ops)
  PROVE  Part(c, a, n) \in Int
<1>1. CASE n = 0
  BY <1>1, PartNone
<1>2. CASE n # 0
  <2>1. n \in 1 .. Len(c.ops)
    BY <1>2, OperationType
  <2> QED BY <2>1, PartNext
<1> QED BY <1>1, <1>2

\* The last value got is an integer.
LEMMA LastGot ==
  ASSUME WorkerTypeOK, NEW t \in Thread, Len(got[t]) > 0
  PROVE  got[t][Len(got[t])] \in Int
<1>1. got[t] \in Seq(Int)
  BY DEF WorkerTypeOK
<1>2. Len(got[t]) \in 1 .. Len(got[t])
  BY <1>1, LenProperties
<1> QED BY ONLY <1>1, <1>2, ElementOfSeq

\* What a transaction reads from its write set is an integer.
LEMMA OwnType ==
  ASSUME TypeOK, NEW t \in Thread, NEW a, IsOwnWrite(t, a)
  PROVE  /\ write_node_find(wset[t], a) \in DOMAIN wset[t]
         /\ wset[t][write_node_find(wset[t], a)].address = a
         /\ OwnValue(t, a) \in Int
<1>1. wset[t] \in WriteList(Addr, Val)
  BY DEF TypeOK, WriteList
<1>2. write_node_find(wset[t], a) \in DOMAIN wset[t] /\ wset[t][write_node_find(wset[t], a)].address = a
  BY <1>1, FindReturns DEF IsOwnWrite
<1>3. OwnValue(t, a) \in Val
  BY <1>1, <1>2, NodeType DEF OwnValue
<1> QED BY <1>2, <1>3, BankAssumption
-----------------------------------------------------------------------------
(* What a worker does is a call of the memory, or a step of one.           *)
LEMMA WriteIsCall ==
  ASSUME TypeOK, WorkerTypeOK, NEW t \in Thread, ClosureOK(t), write(t)
  PROVE  LET o == Closure(t).ops[op[t]]
             v == got[t][Len(got[t])]
         IN  /\ pc[t] = "running" /\ ~is_ro[t] /\ call[t] <= Len(Calls[t])
             /\ Closure(t) \in Closures /\ op[t] \in 1 .. Len(Closure(t).ops)
             /\ o.kind = "add" /\ o.address \in Addr /\ o.amount \in Int
             /\ Len(got[t]) > 0 /\ v \in Int /\ v + o.amount \in Val
             /\ ValueRead(t, o.address, v)
             /\ tm_write(t, o.address, v + o.amount)
<1> DEFINE o == Closure(t).ops[op[t]]
           v == got[t][Len(got[t])]
<1>1. pc[t] = "running" /\ ~is_ro[t] /\ Current(t, "add") /\ tm_write(t, o.address, v + o.amount)
  BY DEF write, tm_write
<1>2. call[t] <= Len(Calls[t])
  BY <1>1 DEF ClosureOK
<1>3. Closure(t) \in Closures /\ op[t] \in Nat \ {0} /\ op[t] <= Len(Closure(t).ops) /\ o.kind = "add"
  BY <1>1, <1>2, CurrentCall DEF Current
<1>4. op[t] \in 1 .. Len(Closure(t).ops)
  BY <1>3, OperationType
<1>5. /\ o.address \in Addr /\ o.amount \in Int /\ op[t] > 1
      /\ Closure(t).ops[op[t] - 1].kind = "read" /\ Closure(t).ops[op[t] - 1].address = o.address
  BY <1>3, <1>4, OperationType
<1>6. Len(got[t]) > 0 /\ ValueRead(t, o.address, v)
  BY <1>1, <1>5 DEF ClosureOK, LastRead
<1>7. v \in Int
  BY <1>6, LastGot
<1> HIDE DEF o, v
<1>8. v + o.amount \in Val
  BY <1>5, <1>7, BankAssumption
<1> QED BY <1>1, <1>2, <1>3, <1>4, <1>5, <1>6, <1>7, <1>8 DEF o, v

LEMMA WorkerIsCall ==
  ASSUME TypeOK, WorkerTypeOK, NEW t \in Thread, ClosureOK(t), Worker(t)
  PROVE  Call(t) \/ Proceed(t)
<1>1. ASSUME NEW k, Current(t, k)
      PROVE  Closure(t).ops[op[t]].address \in Addr
  <2>1. call[t] <= Len(Calls[t])
    <3>1. call[t] \in Nat /\ Len(Calls[t]) \in Nat
      BY BankAssumption, LenProperties DEF WorkerTypeOK
    <3> QED BY <1>1, <3>1 DEF Current, Finished
  <2>2. Closure(t) \in Closures /\ op[t] \in 1 .. Len(Closure(t).ops)
    BY <1>1, <2>1, CurrentCall, OperationType DEF Current
  <2> QED BY <2>2, OperationType
<1>2. CASE begin(t)
  <2>1. call[t] <= Len(Calls[t])
    <3>1. call[t] \in Nat /\ Len(Calls[t]) \in Nat
      BY BankAssumption, LenProperties DEF WorkerTypeOK
    <3> QED BY <1>2, <3>1 DEF begin, Finished
  <2>2. Closure(t).ro \in BOOLEAN
    BY <2>1, CurrentCall, OperationType
  <2> QED BY <1>2, <2>2 DEF begin, Call
<1>3. CASE read(t)
  BY <1>1, <1>3 DEF read, Call
<1>4. CASE write(t)
  BY <1>4, WriteIsCall DEF Call
<1>5. CASE end(t)
  BY <1>5 DEF end, Call
<1>6. CASE proceed(t)
  BY <1>6 DEF proceed
<1> QED BY <1>2, <1>3, <1>4, <1>5, <1>6 DEF Worker
-----------------------------------------------------------------------------
\* The worker's variables keep their types.
TypesKept == call' \in [Thread -> Nat \ {0}] /\ op' \in [Thread -> Nat \ {0}] /\ got' \in [Thread -> Seq(Int)]

\* A transaction that is over leaves a closure at its start, or the next one.
LEMMA RestartKept ==
  ASSUME TypeOK, WorkerTypeOK, NEW t \in Thread, ClosureOK(t), pc[t] # "idle",
         transaction_free(t), over(t)
  PROVE  ClosureOK(t)' /\ TypesKept
<1>1. /\ pc'[t] = "idle" /\ wset'[t] = <<>> /\ obs'[t] = {}
  BY DEF transaction_free, Goto, TypeOK
<1>2. op'[t] = 1 /\ got'[t] = <<>> /\ call'[t] \in {call[t], call[t] + 1}
  BY DEF over, WorkerTypeOK
<1>3. call[t] \in Nat \ {0} /\ Len(Calls[t]) \in Nat /\ call[t] <= Len(Calls[t])
  BY BankAssumption, LenProperties DEF WorkerTypeOK, ClosureOK
<1>4. call'[t] <= Len(Calls[t]) + 1
  BY <1>2, <1>3
<1>5. ClosureOK(t)'
  BY <1>1, <1>2, <1>4 DEF ClosureOK, InCopy
<1>6. TypesKept
  <2>1. call[t] + 1 \in Nat \ {0} /\ 1 \in Nat \ {0} /\ <<>> \in Seq(Int)
    BY <1>3
  <2> QED BY <2>1 DEF TypesKept, over, WorkerTypeOK
<1> QED BY <1>5, <1>6

\* What a closure has done stays so while its transaction goes on.
LEMMA SameClosure ==
  ASSUME NEW t \in Thread, ClosureOK(t), pc[t] # "idle", UNCHANGED <<call, op, got>>,
         is_ro'[t] = is_ro[t], wset'[t] = wset[t], obs'[t] = obs[t]
  PROVE  /\ call'[t] <= Len(Calls[t])
         /\ is_ro'[t] = Closure(t)'.ro
         /\ op'[t] <= Len(Closure(t)'.ops) + 1
         /\ NodesOK(t)' /\ AuditRead(t)' /\ (LastRead(t) => LastRead(t)')
         /\ Closure(t)' = Closure(t)
<1>1. Closure(t)' = Closure(t) /\ call'[t] = call[t] /\ op'[t] = op[t] /\ got'[t] = got[t]
  BY DEF Closure
<1>2. NodesOK(t)'
  BY <1>1 DEF ClosureOK, NodesOK
<1>3. AuditRead(t)'
  BY <1>1 DEF ClosureOK, AuditRead
<1>4. \A a : (IsOwnWrite(t, a) <=> IsOwnWrite(t, a)') /\ OwnValue(t, a)' = OwnValue(t, a)
  BY DEF IsOwnWrite, OwnValue
<1>5. LastRead(t) => LastRead(t)'
  BY <1>1, <1>4 DEF LastRead, ValueRead
<1> QED BY <1>1, <1>2, <1>3, <1>5 DEF ClosureOK

\* The constructor of Transaction.
LEMMA BeginKept ==
  ASSUME TypeOK, WorkerTypeOK, NEW t \in Thread, ClosureOK(t), begin(t)
  PROVE  ClosureOK(t)' /\ TypesKept
<1>1. /\ pc[t] = "idle" /\ pc'[t] = "running" /\ is_ro'[t] = Closure(t).ro
      /\ wset'[t] = wset[t] /\ obs'[t] = obs[t]
      /\ UNCHANGED <<call, op, got>>
  BY DEF begin, tm_begin, Goto, TypeOK, workerVars
<1>2. op[t] = 1 /\ got[t] = <<>> /\ wset[t] = <<>> /\ obs[t] = {}
  BY <1>1 DEF ClosureOK
<1>3. call[t] <= Len(Calls[t])
  <2>1. call[t] \in Nat /\ Len(Calls[t]) \in Nat
    BY BankAssumption, LenProperties DEF WorkerTypeOK
  <2> QED BY <2>1 DEF begin, Finished
<1>4. Closure(t) \in Closures /\ Closure(t)' = Closure(t)
  BY <1>1, <1>3, CurrentCall DEF Closure
<1>5. 1 <= Len(Closure(t).ops) + 1
  BY <1>4, OperationType
<1>6. NodesOK(t)'
  BY <1>1, <1>2, PartNone DEF NodesOK
<1>7. AuditRead(t)'
  BY <1>1, <1>2 DEF AuditRead
<1>8. ClosureOK(t)'
  <2>1. call'[t] = call[t] /\ op'[t] = 1 /\ Len(Calls[t]) \in Nat /\ call[t] \in Nat
    BY <1>1, <1>2, BankAssumption, LenProperties DEF WorkerTypeOK
  <2> QED BY <1>1, <1>3, <1>4, <1>5, <1>6, <1>7, <2>1 DEF ClosureOK, InCopy
<1> QED BY <1>1, <1>8 DEF TypesKept, WorkerTypeOK

\* Transaction::read copies the word of the operation.
LEMMA ReadKept ==
  ASSUME TypeOK, WorkerTypeOK, NEW t \in Thread, ClosureOK(t), read(t)
  PROVE  ClosureOK(t)' /\ TypesKept
<1> DEFINE a == Closure(t).ops[op[t]].address
<1>1. /\ pc[t] = "running" /\ pc'[t] = "read_lock" /\ is_ro'[t] = is_ro[t]
      /\ wset'[t] = wset[t] /\ obs'[t] = obs[t]
      /\ UNCHANGED <<call, op, got>>
  BY DEF read, tm_read, Goto, TypeOK, workerVars, history
<1>2. /\ word'[t].address = a
      /\ IsOwnWrite(t, a) => word'[t].value = OwnValue(t, a)
  BY DEF read, tm_read, TypeOK, OwnValue
<1>3. op[t] <= Len(Closure(t).ops) /\ Closure(t).ops[op[t]].kind = "read"
  BY DEF read, Current
<1>4. /\ call'[t] <= Len(Calls[t])
      /\ is_ro'[t] = Closure(t)'.ro
      /\ op'[t] <= Len(Closure(t)'.ops) + 1
      /\ NodesOK(t)' /\ AuditRead(t)' /\ Closure(t)' = Closure(t)
  BY <1>1, SameClosure
<1>5. CopyOf(t)'
  BY <1>1, <1>2, <1>3, <1>4 DEF CopyOf, IsOwnWrite, OwnValue
<1>6. call'[t] <= Len(Calls[t]) + 1
  BY <1>1 DEF ClosureOK
<1> QED BY <1>1, <1>4, <1>5, <1>6 DEF ClosureOK, InCopy, TypesKept, WorkerTypeOK

\* The destructor starts tm_end, or it is over.
LEMMA EndKept ==
  ASSUME TypeOK, WorkerTypeOK, NEW t \in Thread, ClosureOK(t), end(t)
  PROVE  ClosureOK(t)' /\ TypesKept
<1>1. pc[t] = "running" /\ op[t] > Len(Closure(t).ops)
  BY DEF end, AtEnd
<1>2. CASE is_ro[t]
  <2>1. transaction_free(t) /\ pc'[t] = "idle"
    BY <1>2 DEF end, tm_end, transaction_free, Goto, TypeOK
  <2> QED BY <1>1, <2>1, RestartKept DEF end
<1>3. CASE ~is_ro[t]
  <2>1. /\ pc'[t] = "acquire" /\ is_ro'[t] = is_ro[t]
        /\ wset'[t] = wset[t] /\ obs'[t] = obs[t]
    BY <1>3 DEF end, tm_end, Goto, TypeOK, locals, history
  <2>2. UNCHANGED <<call, op, got>>
    BY <2>1 DEF end
  <2>3. /\ call'[t] <= Len(Calls[t])
        /\ is_ro'[t] = Closure(t)'.ro
        /\ op'[t] <= Len(Closure(t)'.ops) + 1
        /\ NodesOK(t)' /\ AuditRead(t)' /\ Closure(t)' = Closure(t)
    BY <1>1, <2>1, <2>2, SameClosure
  <2>4. op[t] = Len(Closure(t).ops) + 1
    <3>1. call[t] <= Len(Calls[t]) /\ op[t] <= Len(Closure(t).ops) + 1
      BY <1>1 DEF ClosureOK
    <3>2. Len(Closure(t).ops) \in Nat /\ op[t] \in Nat
      BY <3>1, CurrentCall, OperationType
    <3> QED BY <1>1, <3>1, <3>2
  <2>5. call'[t] <= Len(Calls[t]) + 1
    BY <2>2 DEF ClosureOK
  <2> QED BY <1>3, <2>1, <2>2, <2>3, <2>4, <2>5 DEF ClosureOK, InCopy, TypesKept, WorkerTypeOK
<1> QED BY <1>2, <1>3

\* tm_read returns a value.
LEMMA ReturnKept ==
  ASSUME TypeOK, WorkerTypeOK, NEW t \in Thread, ClosureOK(t), read_version(t), pc'[t] # "idle",
         got' = [got EXCEPT ![t] = Append(@, word[t].value)],
         op' = [op EXCEPT ![t] = @ + 1], UNCHANGED call
  PROVE  ClosureOK(t)' /\ TypesKept
<1> DEFINE c == Closure(t)
           o == c.ops[op[t]]
           a == o.address
           v == word[t].value
           n == op[t]
<1>1. /\ pc[t] = "read_version" /\ pc'[t] = "running" /\ is_ro'[t] = is_ro[t]
      /\ wset'[t] = wset[t]
      /\ obs'[t] = IF IsOwnWrite(t, word[t].address) THEN obs[t] ELSE obs[t] \cup {word[t]}
  <2>1. ~transaction_free(t)
    BY DEF transaction_free, Goto, TypeOK
  <2>2. /\ pc[t] = "read_version" /\ Goto(t, "running") /\ UNCHANGED <<is_ro, wset>>
        /\ obs'  = IF IsOwnWrite(t, word[t].address) THEN obs
                   ELSE [obs EXCEPT ![t] = @ \cup {word[t]}]
    BY <2>1 DEF read_version
  <2>3. obs \in [Thread -> SUBSET WriteNode(Addr, Val)] /\ pc \in [Thread -> Label]
    BY DEF TypeOK
  <2>4. pc'[t] = "running" /\ is_ro'[t] = is_ro[t] /\ wset'[t] = wset[t]
    BY <2>2, <2>3 DEF Goto
  <2>5. CASE IsOwnWrite(t, word[t].address)
    BY <2>2, <2>4, <2>5
  <2>6. CASE ~IsOwnWrite(t, word[t].address)
    <3> PICK w : w = word[t]
      OBVIOUS
    <3>1. obs' = [obs EXCEPT ![t] = @ \cup {w}]
      BY <2>2, <2>6
    <3>2. obs'[t] = obs[t] \cup {w}
      BY ONLY <2>3, <3>1, t \in Thread
    <3> QED BY <2>2, <2>4, <2>6, <3>2
  <2> QED BY <2>5, <2>6
<1>2. /\ call[t] <= Len(Calls[t]) /\ is_ro[t] = c.ro /\ n <= Len(c.ops)
      /\ NodesOK(t) /\ AuditRead(t) /\ o.kind = "read" /\ word[t].address = a
      /\ IsOwnWrite(t, a) => v = OwnValue(t, a)
  BY <1>1 DEF ClosureOK, InCopy, CopyOf
<1>3. c \in Closures /\ n \in Nat \ {0} /\ n - 1 \in Nat
  BY <1>2, CurrentCall
<1>4. n \in 1 .. Len(c.ops) /\ Len(c.ops) \in Nat /\ o.amount = 0
  BY <1>2, <1>3, OperationType
<1>5. word[t] = [address |-> a, value |-> v] /\ v \in Int
  <2>1. word[t] \in WriteNode(Addr, Val)
    BY DEF TypeOK
  <2> QED BY <1>2, <2>1, BankAssumption DEF WriteNode
<1>6. /\ Closure(t)' = c /\ op'[t] = n + 1 /\ op'[t] - 1 = n
      /\ got'[t] = Append(got[t], v) /\ call'[t] = call[t]
  BY <1>3 DEF Closure, WorkerTypeOK
<1>7. got[t] \in Seq(Int) /\ Len(got[t]) \in Nat
  BY LenProperties DEF WorkerTypeOK
<1>8. /\ Len(got'[t]) = Len(got[t]) + 1 /\ got'[t][Len(got[t]) + 1] = v
      /\ \A i \in 1 .. Len(got[t]) : got'[t][i] = got[t][i]
      /\ got'[t] \in Seq(Int)
  <2> HIDE DEF v
  <2> QED BY <1>5, <1>6, <1>7, AppendProperties
<1>9. \A b : Part(c, b, n) = Part(c, b, n - 1)
  <2> SUFFICES ASSUME NEW b PROVE Part(c, b, n) = Part(c, b, n - 1)
    OBVIOUS
  <2>1. /\ Part(c, b, n - 1) \in Int
        /\ Part(c, b, n) = Part(c, b, n - 1) + (IF c.ops[n].address = b THEN c.ops[n].amount ELSE 0)
    <3> HIDE DEF c, n
    <3> QED BY <1>3, <1>4, PartNext
  <2> QED BY <1>4, <2>1
<1> HIDE DEF c, n, v
<1>10. NodesOK(t)'
  <2>1. ASSUME NEW i \in DOMAIN wset'[t]
        PROVE  \E w \in obs'[t] : /\ w.address = wset'[t][i].address
                                  /\ wset'[t][i].value = w.value + Part(Closure(t)', w.address, op'[t] - 1)
    <3>1. PICK w \in obs[t] : /\ w.address = wset[t][i].address
                              /\ wset[t][i].value = w.value + Part(c, w.address, n - 1)
      BY <1>1, <1>2, <2>1 DEF NodesOK, c, n
    <3>2. w \in obs'[t]
      BY <1>1
    <3> QED BY <1>1, <1>6, <1>9, <3>1, <3>2
  <2>2. ASSUME NEW b \in Addr, \A i \in DOMAIN wset'[t] : wset'[t][i].address # b
        PROVE  Part(Closure(t)', b, op'[t] - 1) = 0
    BY <1>1, <1>2, <1>6, <1>9, <2>2 DEF NodesOK, c, n
  <2> QED BY <2>1, <2>2 DEF NodesOK
<1>11. LastRead(t)'
  <2> PICK b, y : b = a /\ y = v
    OBVIOUS
  <2>1. (IsOwnWrite(t, b) <=> IsOwnWrite(t, b)') /\ OwnValue(t, b)' = OwnValue(t, b)
    BY <1>1 DEF IsOwnWrite, OwnValue
  <2>2. Len(got'[t]) > 0 /\ got'[t][Len(got'[t])] = y
    <3>1. Len(got'[t]) = Len(got[t]) + 1 /\ Len(got[t]) \in Nat
      BY <1>7, <1>8
    <3> QED BY <1>8, <3>1
  <2>3. (Closure(t).ops[op[t] - 1])'.address = b
    BY <1>6 DEF n, c
  <2>4. IF IsOwnWrite(t, b)' THEN y = OwnValue(t, b)' ELSE [address |-> b, value |-> y] \in obs'[t]
    BY <1>1, <1>2, <1>5, <2>1 DEF v
  <2> HIDE DEF o, a
  <2> QED BY <2>2, <2>3, <2>4 DEF LastRead, ValueRead
<1>12. AuditRead(t)'
  <2> SUFFICES ASSUME is_ro[t] PROVE AuditRead(t)'
    BY <1>1 DEF AuditRead
  <2>1. wset'[t] = <<>> /\ Len(got[t]) = n - 1 /\ word[t] \in obs'[t] /\ obs[t] \subseteq obs'[t]
    BY <1>1, <1>2 DEF AuditRead, IsOwnWrite, n
  <2>2. Len(got'[t]) = op'[t] - 1
    BY <1>3, <1>6, <1>8, <2>1
  <2>3. ASSUME NEW i \in 1 .. n
        PROVE  [address |-> c.ops[i].address, value |-> got'[t][i]] \in obs'[t]
    <3>1. CASE i = n
      <4>1. got'[t][i] = v
        BY <1>3, <1>8, <2>1, <3>1
      <4> QED BY <1>5, <2>1, <3>1, <4>1 DEF n, c
    <3>2. CASE i # n
      <4>1. i \in 1 .. n - 1 /\ i \in 1 .. Len(got[t])
        BY <1>3, <2>1, <3>2
      <4>2. [address |-> c.ops[i].address, value |-> got[t][i]] \in obs[t]
        BY <1>2, <4>1 DEF AuditRead, c, n
      <4> QED BY <1>8, <2>1, <4>1, <4>2
    <3> QED BY <3>1, <3>2
  <2> QED BY <1>6, <2>1, <2>2, <2>3 DEF AuditRead
<1>13. op'[t] <= Len(Closure(t)'.ops) + 1 /\ call'[t] <= Len(Calls[t]) + 1
  BY <1>4, <1>6 DEF ClosureOK
<1>14. ClosureOK(t)'
  BY <1>1, <1>2, <1>6, <1>10, <1>11, <1>12, <1>13 DEF ClosureOK, InCopy
<1>15. TypesKept
  BY <1>3, <1>5, <1>8 DEF TypesKept, WorkerTypeOK, n, v
<1> QED BY <1>14, <1>15

\* Transaction::write puts what was read last, plus the amount, into the write set.
LEMMA WriteKept ==
  ASSUME TypeOK, OneNodePerAddress, WorkerTypeOK, NEW t \in Thread, ClosureOK(t), write(t)
  PROVE  ClosureOK(t)' /\ TypesKept
<1> DEFINE c == Closure(t)
           n == op[t]
           o == c.ops[n]
           a == o.address
           v == got[t][Len(got[t])]
           ws == wset[t]
<1>1. /\ pc[t] = "running" /\ ~is_ro[t] /\ call[t] <= Len(Calls[t])
      /\ c \in Closures /\ n \in 1 .. Len(c.ops)
      /\ o.kind = "add" /\ a \in Addr /\ o.amount \in Int
      /\ v \in Int /\ v + o.amount \in Val
      /\ ValueRead(t, a, v)
      /\ tm_write(t, a, v + o.amount)
  BY WriteIsCall
<1>2. op' = [op EXCEPT ![t] = @ + 1] /\ UNCHANGED <<call, got>>
  BY DEF write
<1>3. NodesOK(t) /\ is_ro[t] = c.ro /\ ws \in WriteList(Addr, Val) /\ Distinct(ws)
  BY <1>1 DEF ClosureOK, TypeOK, WriteList, OneNodePerAddress
<1>4. /\ pc'[t] = "running" /\ is_ro'[t] = is_ro[t] /\ obs'[t] = obs[t]
      /\ wset'[t] = WritePut(ws, a, v + o.amount)
  BY <1>1, <1>3 DEF tm_write, history, TypeOK
<1>5. n \in Nat \ {0} /\ n - 1 \in Nat /\ Len(c.ops) \in Nat
  BY <1>1, CurrentCall, OperationType
<1>6. Closure(t)' = c /\ op'[t] = n + 1 /\ op'[t] - 1 = n /\ call'[t] = call[t]
  BY <1>2, <1>5 DEF Closure, WorkerTypeOK
<1>7. ASSUME NEW b
      PROVE  /\ Part(c, b, n - 1) \in Int
             /\ Part(c, b, n) = Part(c, b, n - 1) + (IF a = b THEN o.amount ELSE 0)
  <2> HIDE DEF c, n
  <2> QED BY <1>1, PartNext
<1>8. Part(c, a, n) = Part(c, a, n - 1) + o.amount /\ \A b : b # a => Part(c, b, n) = Part(c, b, n - 1)
  BY <1>7
\* The value read is one from memory plus what was added to it before.
<1>9. \E w \in obs[t] : w.address = a /\ v = w.value + Part(c, a, n - 1) /\ w.value \in Int
  <2>1. CASE IsOwnWrite(t, a)
    <3> DEFINE k == write_node_find(ws, a)
    <3>1. k \in DOMAIN ws /\ ws[k].address = a /\ v = ws[k].value
      BY <1>1, <2>1, OwnType DEF ValueRead, OwnValue
    <3>2. PICK w \in obs[t] : w.address = ws[k].address /\ ws[k].value = w.value + Part(c, w.address, n - 1)
      BY <1>3, <3>1 DEF NodesOK
    <3>3. w.value \in Int
      BY BankAssumption DEF TypeOK, WriteNode
    <3> QED BY <3>1, <3>2, <3>3
  <2>2. CASE ~IsOwnWrite(t, a)
    <3>1. [address |-> a, value |-> v] \in obs[t]
      BY <1>1, <2>2 DEF ValueRead
    <3>2. \A i \in DOMAIN ws : ws[i].address # a
      BY <1>1, <1>3, <2>2, FindReturns DEF IsOwnWrite
    <3>3. Part(c, a, n - 1) = 0
      BY <1>1, <1>3, <3>2 DEF NodesOK
    <3>4. PICK w \in obs[t] : w.address = a /\ w.value = v
      BY <3>1
    <3>5. v = w.value + Part(c, a, n - 1) /\ w.value \in Int
      BY <1>1, <3>3, <3>4
    <3> QED BY <3>4, <3>5
  <2> QED BY <2>1, <2>2
<1>10. PICK new : new = WritePut(ws, a, v + o.amount)
  OBVIOUS
<1>11. /\ \A i \in DOMAIN new : \/ new[i] = [address |-> a, value |-> v + o.amount]
                                \/ new[i].address # a /\ \E j \in DOMAIN ws : new[i] = ws[j]
       /\ \E i \in DOMAIN new : new[i].address = a
       /\ \A j \in DOMAIN ws : \E i \in DOMAIN new : new[i].address = ws[j].address
  <2> PICK x : x = v + o.amount
    OBVIOUS
  <2> HIDE DEF a, v, o, ws
  <2>1. ws \in WriteList(Addr, Val) /\ Distinct(ws) /\ a \in Addr /\ x \in Val /\ new = WritePut(ws, a, x)
    BY <1>1, <1>3, <1>10
  <2> QED BY <2>1, PutNodes
<1> HIDE DEF c, n, o, a, v, ws
<1>12. NodesOK(t)'
  <2>1. ASSUME NEW i \in DOMAIN new
        PROVE  \E w \in obs[t] : w.address = new[i].address /\ new[i].value = w.value + Part(c, w.address, n)
    <3>1. CASE new[i] = [address |-> a, value |-> v + o.amount]
      <4>1. PICK w \in obs[t] : w.address = a /\ v = w.value + Part(c, a, n - 1) /\ w.value \in Int
        BY <1>9
      <4>2. v + o.amount = w.value + Part(c, a, n)
        BY <1>1, <1>7, <1>8, <4>1
      <4> QED BY <3>1, <4>1, <4>2
    <3>2. CASE new[i].address # a /\ \E j \in DOMAIN ws : new[i] = ws[j]
      <4>1. PICK w \in obs[t] : w.address = new[i].address /\ new[i].value = w.value + Part(c, w.address, n - 1)
        BY <1>3, <3>2 DEF NodesOK, ws, c, n
      <4> QED BY <1>8, <3>2, <4>1
    <3> QED BY <1>11, <3>1, <3>2
  <2>2. ASSUME NEW b \in Addr, \A i \in DOMAIN new : new[i].address # b
        PROVE  Part(c, b, n) = 0
    <3>1. b # a /\ \A j \in DOMAIN ws : ws[j].address # b
      BY <1>11, <2>2
    <3>2. Part(c, b, n - 1) = 0
      BY <1>3, <3>1 DEF NodesOK, ws, c, n
    <3> QED BY <1>8, <3>1, <3>2
  <2> QED BY <1>4, <1>6, <1>10, <2>1, <2>2 DEF NodesOK
<1>13. AuditRead(t)'
  BY <1>1, <1>4 DEF AuditRead
<1>14. LastRead(t)'
  <2>1. Closure(t)'.ops[op'[t] - 1] = o
    BY <1>6 DEF o
  <2>2. o.kind # "read"
    BY <1>1
  <2> QED BY <2>1, <2>2 DEF LastRead
<1>15. op'[t] <= Len(Closure(t)'.ops) + 1 /\ call'[t] <= Len(Calls[t]) + 1
  BY <1>1, <1>5, <1>6 DEF ClosureOK
<1>16. ClosureOK(t)'
  BY <1>1, <1>3, <1>4, <1>6, <1>12, <1>13, <1>14, <1>15 DEF ClosureOK, InCopy
<1>17. TypesKept
  BY <1>2, <1>5 DEF TypesKept, WorkerTypeOK, n
<1> QED BY <1>16, <1>17

(* The labels from tm_end on: the closure has returned.                    *)
Ending == Label \ ({"idle", "running"} \cup InCopy)

\* A step of the memory frees the transaction, ...
LEMMA FreeStep ==
  ASSUME TypeOK, NEW t \in Thread, Proceed(t), pc'[t] = "idle"
  PROVE  transaction_free(t) /\ pc[t] # "idle"
<1> pc \in [Thread -> Label]
  BY DEF TypeOK
<1>1. CASE read_lock(t) \/ read_version(t)
  BY <1>1 DEF read_lock, read_version, Goto
<1>2. CASE unlock(t)
  BY <1>2 DEF unlock
<1>3. CASE store(t)
  BY <1>3 DEF store, Goto
<1>4. CASE acquire(t) \/ spin(t) \/ increment(t)
  BY <1>4 DEF acquire, spin, increment, Goto
<1>5. CASE validate_lock(t) \/ validate_version(t)
  BY <1>5 DEF validate_lock, validate_version, UnlockAll, Goto
<1>6. CASE update(t) \/ release(t)
  BY <1>6 DEF update, release, Goto
<1> QED BY <1>1, <1>2, <1>3, <1>4, <1>5, <1>6 DEF Proceed

\* ... returns from tm_read, or goes on with the same sets.
LEMMA GoOnStep ==
  ASSUME TypeOK, NEW t \in Thread, Proceed(t), pc'[t] # "idle", ~read_version(t)
  PROVE  /\ is_ro'[t] = is_ro[t] /\ wset'[t] = wset[t] /\ obs'[t] = obs[t] /\ word'[t] = word[t]
         /\ missed'[t] = missed[t]
         /\ \/ pc[t] = "read_lock" /\ pc'[t] = "read_version"
            \/ pc[t] \in Ending /\ pc'[t] \in Ending
<1> /\ pc \in [Thread -> Label]
    /\ "spin" \in Ending /\ "acquire" \in Ending /\ "unlock" \in Ending /\ "store" \in Ending
    /\ "update" \in Ending /\ "release" \in Ending
    /\ "validate_lock" \in Ending /\ "validate_version" \in Ending
  BY DEF TypeOK, Ending, Label, InCopy
<1>0. ~transaction_free(t)
  BY DEF transaction_free, Goto
<1>1. CASE read_lock(t)
  BY <1>0, <1>1 DEF read_lock, Goto, locals, history
<1>2. CASE unlock(t)
  BY <1>0, <1>2 DEF unlock, history
<1>3. CASE store(t)
  BY <1>0, <1>3 DEF store, Goto, locals
<1>4. CASE acquire(t)
  BY <1>4 DEF acquire, Goto, history
<1>5. CASE spin(t)
  BY <1>5 DEF spin, Goto, history
<1>6. CASE increment(t)
  BY <1>6 DEF increment, Goto, history
<1>7. CASE validate_lock(t)
  BY <1>7 DEF validate_lock, UnlockAll, Goto, history
<1>8. CASE validate_version(t)
  BY <1>8 DEF validate_version, UnlockAll, Goto, history
<1>9. CASE update(t)
  BY <1>9 DEF update, Goto, locals, history
<1>10. CASE release(t)
  BY <1>10 DEF release, Goto, history
<1> QED BY <1>1, <1>2, <1>3, <1>4, <1>5, <1>6, <1>7, <1>8, <1>9, <1>10 DEF Proceed

\* The steps the memory goes on with keep the closure and its sets together.
LEMMA ProceedKept ==
  ASSUME TypeOK, WorkerTypeOK, NEW t \in Thread, ClosureOK(t), proceed(t)
  PROVE  ClosureOK(t)' /\ TypesKept
<1>1. CASE pc'[t] = "idle"
  <2>1. transaction_free(t) /\ pc[t] # "idle"
    BY <1>1, FreeStep DEF proceed
  <2>2. over(t)
    BY <1>1 DEF proceed
  <2> QED BY <2>1, <2>2, RestartKept
<1>2. CASE pc'[t] # "idle" /\ read_version(t)
  <2>1. pc[t] = "read_version"
    BY <1>2 DEF read_version
  <2> QED BY <1>2, <2>1, ReturnKept DEF proceed
<1>3. CASE pc'[t] # "idle" /\ ~read_version(t)
  <2>1. /\ is_ro'[t] = is_ro[t] /\ wset'[t] = wset[t] /\ obs'[t] = obs[t] /\ word'[t] = word[t]
        /\ \/ pc[t] = "read_lock" /\ pc'[t] = "read_version"
           \/ pc[t] \in Ending /\ pc'[t] \in Ending
    BY <1>3, GoOnStep DEF proceed
  <2>2. UNCHANGED <<call, op, got>>
    BY <1>3, <2>1 DEF proceed, Ending, InCopy
  <2>3. pc[t] # "idle"
    BY <2>1 DEF Ending
  <2>4. /\ call'[t] <= Len(Calls[t])
        /\ is_ro'[t] = Closure(t)'.ro
        /\ op'[t] <= Len(Closure(t)'.ops) + 1
        /\ NodesOK(t)' /\ AuditRead(t)' /\ Closure(t)' = Closure(t)
    BY <2>1, <2>2, <2>3, SameClosure
  <2>5. call'[t] <= Len(Calls[t]) + 1
    BY <2>2 DEF ClosureOK
  <2>6. TypesKept
    BY <2>2 DEF TypesKept, WorkerTypeOK
  <2>7. CASE pc[t] = "read_lock" /\ pc'[t] = "read_version"
    <3>1. CopyOf(t)
      BY <2>7 DEF ClosureOK, InCopy
    <3>2. \A a : (IsOwnWrite(t, a) <=> IsOwnWrite(t, a)') /\ OwnValue(t, a)' = OwnValue(t, a)
      BY <2>1 DEF IsOwnWrite, OwnValue
    <3>3. CopyOf(t)'
      BY <2>1, <2>2, <2>4, <3>1, <3>2 DEF CopyOf
    <3> QED BY <2>4, <2>5, <2>6, <2>7, <3>3 DEF ClosureOK, InCopy
  <2>8. CASE pc[t] \in Ending /\ pc'[t] \in Ending
    <3>1. op[t] = Len(Closure(t).ops) + 1 /\ ~is_ro[t]
      BY <2>8 DEF ClosureOK, Ending
    <3>2. /\ pc'[t] # "running" /\ pc'[t] \notin InCopy /\ pc'[t] # "idle"
          /\ op'[t] = Len(Closure(t)'.ops) + 1 /\ ~is_ro'[t]
      BY <2>1, <2>2, <2>4, <2>8, <3>1 DEF Ending
    <3> QED BY <2>4, <2>5, <2>6, <3>2 DEF ClosureOK
  <2> QED BY <2>1, <2>7, <2>8
<1> QED BY <1>1, <1>2, <1>3
-----------------------------------------------------------------------------
\* A worker leaves the transactions and the closures of the others alone.
LEMMA WorkerFrame ==
  ASSUME TypeOK, WorkerTypeOK, NEW t \in Thread, ClosureOK(t), Worker(t), NEW u \in Thread \ {t}
  PROVE  /\ pc'[u] = pc[u] /\ is_ro'[u] = is_ro[u] /\ wset'[u] = wset[u] /\ word'[u] = word[u]
         /\ wv'[u] = wv[u] /\ cur'[u] = cur[u] /\ obs'[u] = obs[u] /\ missed'[u] = missed[u]
         /\ call'[u] = call[u] /\ op'[u] = op[u] /\ got'[u] = got[u]
<1>1. Frame(t)
  BY WorkerIsCall, CallFrame, ProceedFrame
<1>2. call'[u] = call[u] /\ op'[u] = op[u] /\ got'[u] = got[u]
  <2>1. CASE begin(t) \/ read(t) \/ write(t)
    BY <2>1 DEF begin, read, write, workerVars, WorkerTypeOK
  <2>2. CASE end(t)
    BY <2>2 DEF end, over, WorkerTypeOK
  <2>3. CASE proceed(t)
    BY <2>3 DEF proceed, over, WorkerTypeOK
  <2> QED BY <2>1, <2>2, <2>3 DEF Worker
<1> QED BY <1>1, <1>2 DEF Frame

\* A closure whose variables do not change.
LEMMA StillOK ==
  ASSUME NEW u \in Thread, ClosureOK(u),
         /\ pc'[u] = pc[u] /\ is_ro'[u] = is_ro[u] /\ wset'[u] = wset[u] /\ word'[u] = word[u]
         /\ obs'[u] = obs[u] /\ call'[u] = call[u] /\ op'[u] = op[u] /\ got'[u] = got[u]
  PROVE  ClosureOK(u)'
<1>1. Closure(u)' = Closure(u)
  BY DEF Closure
<1>2. \A a : (IsOwnWrite(u, a) <=> IsOwnWrite(u, a)') /\ OwnValue(u, a)' = OwnValue(u, a)
  BY DEF IsOwnWrite, OwnValue
<1>3. NodesOK(u)' <=> NodesOK(u)
  BY <1>1 DEF NodesOK
<1>4. AuditRead(u)' <=> AuditRead(u)
  BY <1>1 DEF AuditRead
<1>5. LastRead(u)' <=> LastRead(u)
  BY <1>1, <1>2 DEF LastRead, ValueRead
<1>6. CopyOf(u)' <=> CopyOf(u)
  BY <1>1, <1>2 DEF CopyOf
<1> QED BY <1>1, <1>3, <1>4, <1>5, <1>6 DEF ClosureOK

\* What the memory under the workers keeps true, with what their closures do.
BankCore ==
    /\ CoreInv /\ ReadInv /\ CommitInv /\ OneNodePerAddress
    /\ WorkerTypeOK /\ ClosureInv

\* A step of a worker is one of the memory.
LEMMA WorkerIsNext ==
  ASSUME TypeOK, WorkerTypeOK, ClosureInv, [WorkerNext]_allVars
  PROVE  [Next]_vars
<1>1. CASE UNCHANGED allVars
  BY <1>1 DEF allVars
<1>2. ASSUME NEW t \in Thread, Worker(t) PROVE [Next]_vars
  BY <1>2, WorkerIsCall DEF ClosureInv, Next
<1> QED BY <1>1, <1>2 DEF WorkerNext

\* Every closure is where its transaction is, in every reachable state.
LEMMA CoreKept ==
  /\ WorkerInit => BankCore
  /\ BankCore /\ [WorkerNext]_allVars => BankCore'
<1>1. ASSUME WorkerInit PROVE BankCore
  <2>1. CoreInv /\ ReadInv /\ CommitInv /\ OneNodePerAddress
    BY <1>1, CoreInvariant, ReadInvariant, CommitInvariant, DistinctInvariant DEF WorkerInit
  <2>2. WorkerTypeOK
    <3>1. 1 \in Nat \ {0} /\ <<>> \in Seq(Int)
      OBVIOUS
    <3> QED BY <1>1, <3>1 DEF WorkerInit, WorkerTypeOK
  <2>3. ASSUME NEW t \in Thread PROVE ClosureOK(t)
    <3>1. pc[t] = "idle" /\ wset[t] = <<>> /\ obs[t] = {} /\ call[t] = 1 /\ op[t] = 1 /\ got[t] = <<>>
      BY <1>1 DEF WorkerInit, Init
    <3>2. 1 <= Len(Calls[t]) + 1
      BY BankAssumption, LenProperties
    <3> QED BY <3>1, <3>2 DEF ClosureOK, InCopy
  <2> QED BY <2>1, <2>2, <2>3 DEF BankCore, ClosureInv
<1>2. ASSUME BankCore, [WorkerNext]_allVars PROVE BankCore'
  <2> TypeOK /\ WorkerTypeOK /\ ClosureInv /\ OneNodePerAddress /\ CoreInv /\ ReadInv /\ CommitInv
    BY <1>2 DEF BankCore, CoreInv, LockInv
  <2>1. [Next]_vars
    BY <1>2, WorkerIsNext
  <2>2. CoreInv' /\ ReadInv' /\ CommitInv' /\ OneNodePerAddress'
    BY <2>1, CoreInvariant, ReadInvariant, CommitInvariant, DistinctInvariant
  <2>3. CASE UNCHANGED allVars
    <3>1. WorkerTypeOK'
      BY <2>3 DEF allVars, workerVars, WorkerTypeOK
    <3>2. ClosureInv'
      BY <2>3, StillOK DEF allVars, workerVars, vars, locals, history, ClosureInv
    <3> QED BY <2>2, <3>1, <3>2 DEF BankCore
  <2>4. ASSUME NEW t \in Thread, Worker(t) PROVE BankCore'
    <3>1. ClosureOK(t)
      BY DEF ClosureInv
    <3>2. ClosureOK(t)' /\ TypesKept
      BY <2>4, <3>1, BeginKept, ReadKept, WriteKept, EndKept, ProceedKept DEF Worker
    <3>3. \A u \in Thread \ {t} : ClosureOK(u)'
      BY <2>4, <3>1, WorkerFrame, StillOK DEF ClosureInv
    <3>4. tainted' \in BOOLEAN
      <4>1. tainted' = tainted \/ tainted' = (tainted \/ (pc'[t] = "store" /\ Missed(t)))
        BY <2>4 DEF Worker, begin, read, write, end, proceed, workerVars
      <4>2. tainted \in BOOLEAN
        BY DEF WorkerTypeOK
      <4> QED BY <4>1, <4>2
    <3>5. WorkerTypeOK'
      BY <3>2, <3>4 DEF TypesKept, WorkerTypeOK
    <3> QED BY <2>2, <3>2, <3>3, <3>5 DEF BankCore, ClosureInv
  <2> QED BY <1>2, <2>3, <2>4 DEF WorkerNext
<1> QED BY <1>1, <1>2
-----------------------------------------------------------------------------
(* What is still to be stored.                                             *)
NoneMissed == ~tainted => \A t \in Thread : pc[t] \in Storing => ~Missed(t)

\* As long as nobody is tainted, whoever stores has missed nothing it read.
LEMMA NoneMissedKept ==
  /\ WorkerInit => NoneMissed
  /\ BankCore /\ NoneMissed /\ [WorkerNext]_allVars => NoneMissed'
<1>1. WorkerInit => NoneMissed
  BY DEF WorkerInit, Init, NoneMissed, Storing
<1>2. ASSUME BankCore, NoneMissed, [WorkerNext]_allVars PROVE NoneMissed'
  <2> TypeOK /\ WorkerTypeOK /\ ClosureInv
    BY <1>2 DEF BankCore, CoreInv, LockInv
  <2>1. CASE UNCHANGED allVars
    BY <1>2, <2>1 DEF allVars, workerVars, vars, history, NoneMissed, Missed
  <2>2. ASSUME NEW t \in Thread, Worker(t), ~tainted', NEW u \in Thread, pc'[u] \in Storing, Missed(u)'
        PROVE  FALSE
    <3>1. ClosureOK(t)
      BY DEF ClosureInv
    <3>2. tainted' = tainted \/ tainted' = (tainted \/ (pc'[t] = "store" /\ Missed(t)))
      BY <2>2 DEF Worker, begin, read, write, end, proceed, workerVars
    <3>3. ~tainted
      BY <2>2, <3>2 DEF WorkerTypeOK
    <3>4. CASE u # t
      BY <1>2, <2>2, <3>1, <3>3, <3>4, WorkerFrame DEF NoneMissed, Missed
    <3>5. CASE u = t
      <4>1. CASE begin(t) \/ read(t) \/ write(t)
        BY <2>2, <3>5, <4>1 DEF begin, tm_begin, read, tm_read, write, tm_write, Goto, TypeOK, Storing
      <4>2. CASE end(t)
        BY <2>2, <3>5, <4>2 DEF end, tm_end, transaction_free, Goto, TypeOK, Storing
      <4>3. CASE proceed(t) /\ read_version(t)
        BY <2>2, <3>5, <4>3 DEF read_version, transaction_free, Goto, TypeOK, Storing
      <4>4. CASE proceed(t) /\ ~read_version(t)
        <5>1. obs'[t] = obs[t] /\ missed'[t] = missed[t]
          BY <2>2, <3>5, <4>4, GoOnStep DEF proceed, Storing
        <5>2. Missed(t)
          BY <2>2, <3>5, <5>1 DEF Missed
        <5>3. pc'[t] # "store"
          BY <2>2, <4>4, <5>2 DEF proceed
        <5>4. pc[t] \in Storing
          <6>1. CASE read_lock(t) \/ unlock(t)
            BY <2>2, <3>5, <6>1 DEF read_lock, unlock, transaction_free, Goto, TypeOK, Storing
          <6>2. CASE acquire(t) \/ spin(t)
            BY <2>2, <3>5, <6>2 DEF acquire, spin, Goto, TypeOK, Storing
          <6>3. CASE increment(t)
            BY <2>2, <3>5, <5>3, <6>3 DEF increment, Goto, TypeOK, Storing
          <6>4. CASE validate_lock(t) \/ validate_version(t)
            BY <2>2, <3>5, <5>3, <6>4 DEF validate_lock, validate_version, UnlockAll, Goto, TypeOK, Storing
          <6>5. CASE store(t) \/ update(t) \/ release(t)
            BY <6>5 DEF store, update, release, Storing
          <6> QED BY <4>4, <6>1, <6>2, <6>3, <6>4, <6>5 DEF proceed, Proceed
        <5> QED BY <1>2, <3>3, <5>2, <5>4 DEF NoneMissed
      <4> QED BY <2>2, <4>1, <4>2, <4>3, <4>4 DEF Worker
    <3> QED BY <3>4, <3>5
  <2> QED BY <1>2, <2>1, <2>2 DEF WorkerNext, NoneMissed
<1> QED BY <1>1, <1>2

\* What is stored is what is there, plus what the closure adds to it.
LEMMA StoreAdds ==
  ASSUME BankCore, NoneMissed, ~tainted, NEW t \in Thread, pc[t] = "store",
         NEW k \in DOMAIN wset[t], k = cur[t]
  PROVE  LET a == wset[t][k].address
         IN  /\ a \in Addr /\ mem[a] \in Int /\ Effect(Closure(t), a) \in Int
             /\ wset[t][k].value = mem[a] + Effect(Closure(t), a)
<1> PICK a : a = wset[t][k].address
  OBVIOUS
<1> TypeOK /\ WorkerTypeOK /\ ClosureOK(t)
  BY DEF BankCore, CoreInv, LockInv, ClosureInv
<1>1. a \in Addr /\ mem[a] \in Int
  BY BankAssumption, NodeType DEF TypeOK, WriteList
<1>2. Closure(t) \in Closures /\ NodesOK(t) /\ op[t] - 1 = Len(Closure(t).ops)
  <2>1. call[t] <= Len(Calls[t]) /\ NodesOK(t) /\ op[t] = Len(Closure(t).ops) + 1
    BY DEF ClosureOK, InCopy
  <2>2. Closure(t) \in Closures
    BY <2>1, CurrentCall
  <2> QED BY <2>1, <2>2, OperationType
<1>3. Part(Closure(t), a, op[t] - 1) = Effect(Closure(t), a) /\ Effect(Closure(t), a) \in Int
  BY <1>2, PartAll
<1>4. PICK w \in obs[t] : w.address = a /\ wset[t][k].value = w.value + Effect(Closure(t), a)
  BY <1>2, <1>3 DEF NodesOK
<1>5. IsSnapshot(a, wv[t] - 1, w.value)
  BY <1>4, ValidatedIsSerial DEF BankCore, CommitsSerializable, NoneMissed, Missed, Storing
<1>6. \A r \in hist[a] : r.wv \in Nat /\ r.wv < wv[t]
  <2>1. \A r \in hist[a] : r.wv \in Nat
    BY <1>1 DEF TypeOK
  <2>2. Holds(t, k) /\ pc[t] \in Committing \ {"update", "release"}
    BY DEF Holds, Committing, Storing, TypeOK
  <2>3. LockInv /\ VersionInv /\ AllCovered
    BY DEF BankCore, CoreInv, HistInv
  <2> QED BY <2>1, <2>2, <2>3, StoreIsNewest
<1>7. PICK m \in hist[a] : m.value = mem[a] /\ \A q \in hist[a] : q # m => q.wv < m.wv
  BY <1>1 DEF BankCore, CoreInv, HistInv, MemoryIsNewestStore
<1>8. PICK r \in hist[a] : r.value = w.value /\ \A q \in hist[a] : q.wv <= wv[t] - 1 => q.wv <= r.wv
  BY <1>5 DEF IsSnapshot
<1>9. m = r
  <2>1. wv[t] \in Nat /\ m.wv \in Nat /\ r.wv \in Nat /\ m.wv < wv[t]
    BY <1>6 DEF TypeOK
  <2>2. m.wv <= r.wv
    BY <1>8, <2>1
  <2> QED BY <1>7, <2>1, <2>2
<1> QED BY <1>1, <1>3, <1>4, <1>7, <1>8, <1>9
-----------------------------------------------------------------------------
(* What has been stored so far: all of the calls that have returned, and of *)
(* a transaction at its stores the nodes it has been through.              *)
ReturnedBy(t, a, n) == SumFunction([k \in 1 .. n - 1 |-> Effect(Calls[t][k], a)])

Stored(t, a) ==
    /\ pc[t] \in Storing
    /\ \E i \in DOMAIN wset[t] :
          /\ wset[t][i].address = a
          /\ i < cur[t] \/ (i = cur[t] /\ pc[t] # "store")

Count(t, a) == Returned(t, a) + (IF Stored(t, a) THEN Effect(Closure(t), a) ELSE 0)

CountInv == ~tainted => \A a \in Addr : mem[a] = SumFunctionOnSet([t \in Thread |-> Count(t, a)], Thread)

\* The sum over the calls that have returned, ...
LEMMA ReturnedIs ==
  ASSUME NEW t \in Thread, NEW a
  PROVE  Returned(t, a) = ReturnedBy(t, a, call[t])
BY DEF Returned, ReturnedBy

LEMMA ReturnedByType ==
  ASSUME NEW t \in Thread, NEW a, NEW n \in 1 .. Len(Calls[t]) + 1
  PROVE  ReturnedBy(t, a, n) \in Int
<1> DEFINE f == [k \in 1 .. n - 1 |-> Effect(Calls[t][k], a)]
<1>1. Len(Calls[t]) \in Nat
  BY BankAssumption, LenProperties
<1>2. \A k \in 1 .. n - 1 : k \in 1 .. Len(Calls[t])
  BY <1>1
<1>3. \A k \in 1 .. n - 1 : f[k] \in Int
  BY <1>2, CallType, PartAll
<1>4. n - 1 \in Int /\ DOMAIN f = 1 .. n - 1
  BY <1>1
<1>5. ReturnedBy(t, a, n) = SumFunctionOnSet(f, 1 .. n - 1)
  BY <1>4, Zenon DEF ReturnedBy, SumFunction
<1> HIDE DEF f
<1>6. IsFiniteSet(1 .. n - 1)
  BY <1>4, FS_Interval
<1>7. SumFunctionOnSet(f, 1 .. n - 1) \in Int
  BY ONLY <1>3, <1>6, SumType
<1> QED BY <1>5, <1>7

\* ... with one call more.
LEMMA ReturnedByNext ==
  ASSUME NEW t \in Thread, NEW a, NEW n \in 1 .. Len(Calls[t])
  PROVE  /\ ReturnedBy(t, a, n + 1) = ReturnedBy(t, a, n) + Effect(Calls[t][n], a)
         /\ ReturnedBy(t, a, n) \in Int /\ Effect(Calls[t][n], a) \in Int
<1> DEFINE f == [k \in 1 .. n |-> Effect(Calls[t][k], a)]
           g == [k \in 1 .. n - 1 |-> Effect(Calls[t][k], a)]
<1>1. Len(Calls[t]) \in Nat /\ n \in Nat /\ n > 0 /\ n - 1 \in Int /\ (n + 1) - 1 = n
  BY BankAssumption, LenProperties
<1>2. \A k \in 1 .. n : k \in 1 .. Len(Calls[t])
  BY <1>1
<1>3. \A k \in 1 .. n : f[k] \in Int /\ f[k] = Effect(Calls[t][k], a)
  BY <1>2, CallType, PartAll
<1>4. \A k \in 1 .. n - 1 : k \in 1 .. n
  BY <1>1
<1>5. \A k \in 1 .. n - 1 : f[k] = g[k]
  BY <1>4
<1>6. DOMAIN f = 1 .. n /\ DOMAIN g = 1 .. n - 1
  OBVIOUS
<1>7. ReturnedBy(t, a, n) = SumFunctionOnSet(g, 1 .. n - 1)
  BY <1>6, Zenon DEF ReturnedBy, SumFunction
<1>8. ReturnedBy(t, a, n + 1) = SumFunctionOnSet(f, 1 .. n)
  BY <1>1, <1>6, Zenon DEF ReturnedBy, SumFunction
<1> HIDE DEF f, g
<1>9. IsFiniteSet(1 .. n - 1)
  BY <1>1, FS_Interval
<1>10. SumFunctionOnSet(f, 1 .. n - 1) = SumFunctionOnSet(g, 1 .. n - 1)
  BY ONLY <1>5, <1>9, SumSame
<1>11. SumFunctionOnSet(f, 1 .. n) = SumFunctionOnSet(f, 1 .. n - 1) + f[n]
  BY ONLY <1>1, <1>3, SumUpTo
<1>12. n \in 1 .. n /\ n \in 1 .. Len(Calls[t]) + 1
  BY <1>1
<1>13. ReturnedBy(t, a, n) \in Int
  BY <1>12, ReturnedByType
<1> QED BY <1>3, <1>7, <1>8, <1>10, <1>11, <1>12, <1>13

\* What has been stored is an integer.
LEMMA CountType ==
  ASSUME WorkerTypeOK, ClosureInv, NEW t \in Thread, NEW a
  PROVE  /\ Count(t, a) \in Int /\ Returned(t, a) \in Int
         /\ pc[t] # "idle" => call[t] \in 1 .. Len(Calls[t]) /\ Effect(Closure(t), a) \in Int
<1>1. call[t] \in Nat \ {0} /\ Len(Calls[t]) \in Nat /\ call[t] <= Len(Calls[t]) + 1
  BY BankAssumption, LenProperties DEF WorkerTypeOK, ClosureInv, ClosureOK
<1>2. call[t] \in 1 .. Len(Calls[t]) + 1
  BY <1>1
<1>3. Returned(t, a) \in Int
  BY <1>2, ReturnedIs, ReturnedByType
<1>4. pc[t] # "idle" => call[t] \in 1 .. Len(Calls[t]) /\ Effect(Closure(t), a) \in Int
  <2>1. pc[t] # "idle" => call[t] <= Len(Calls[t])
    BY DEF ClosureInv, ClosureOK
  <2> QED BY <2>1, CurrentCall, PartAll
<1>5. Stored(t, a) => pc[t] # "idle"
  BY DEF Stored, Storing
<1> QED BY <1>3, <1>4, <1>5 DEF Count

\* An account without a node is not changed by the call.
LEMMA NoNodeNoEffect ==
  ASSUME WorkerTypeOK, ClosureInv, NEW t \in Thread, NEW a \in Addr, pc[t] # "idle",
         op[t] = Len(Closure(t).ops) + 1, \A i \in DOMAIN wset[t] : wset[t][i].address # a
  PROVE  Effect(Closure(t), a) = 0
<1>1. call[t] <= Len(Calls[t]) /\ NodesOK(t)
  BY DEF ClosureInv, ClosureOK
<1>2. Closure(t) \in Closures
  BY <1>1, CurrentCall
<1>3. op[t] - 1 = Len(Closure(t).ops)
  BY <1>2, OperationType
<1> QED BY <1>1, <1>2, <1>3, PartAll DEF NodesOK

\* A call that is over counts once: as stored before, as returned after.
LEMMA OverCounts ==
  ASSUME BankCore, NEW t \in Thread, pc[t] # "idle", pc'[t] = "idle", over(t),
         \/ pc[t] = "running" /\ op[t] > Len(Closure(t).ops) /\ is_ro[t]
         \/ pc[t] = "store" /\ cur[t] > Len(wset[t])
         \/ pc[t] \in {"read_lock", "read_version", "unlock"},
         NEW a \in Addr
  PROVE  Count(t, a)' = Count(t, a)
<1> TypeOK /\ WorkerTypeOK /\ ClosureInv /\ ClosureOK(t)
  BY DEF BankCore, CoreInv, LockInv, ClosureInv
<1>1. /\ call[t] \in 1 .. Len(Calls[t]) /\ call[t] \in Nat
      /\ Effect(Closure(t), a) \in Int /\ Returned(t, a) \in Int
  BY CountType DEF WorkerTypeOK
<1>2. Count(t, a)' = ReturnedBy(t, a, call'[t])
  <2>1. ~Stored(t, a)'
    BY DEF Stored, Storing
  <2>2. Count(t, a)' = Returned(t, a)' + 0
    BY <2>1 DEF Count
  <2>3. Returned(t, a)' = ReturnedBy(t, a, call'[t])
    BY DEF Returned, ReturnedBy
  <2>4. call'[t] \in 1 .. Len(Calls[t]) + 1
    <3>1. Len(Calls[t]) \in Nat
      BY BankAssumption, LenProperties
    <3>2. call'[t] = call[t] \/ call'[t] = call[t] + 1
      BY DEF over, WorkerTypeOK
    <3> QED BY <1>1, <3>1, <3>2
  <2>5. ReturnedBy(t, a, call'[t]) \in Int
    <3> PICK n : n = call'[t]
      OBVIOUS
    <3> QED BY <2>4, ReturnedByType
  <2> QED BY <2>2, <2>3, <2>5
<1>3. CASE pc[t] \in {"read_lock", "read_version", "unlock"}
  <2>1. call' = call /\ ~Stored(t, a)
    BY <1>3 DEF over, MovesOn, Stored, Storing
  <2>2. Count(t, a) = Returned(t, a)
    BY <1>1, <2>1 DEF Count
  <2> QED BY <1>2, <2>1, <2>2, ReturnedIs
<1>4. CASE pc[t] \in {"store", "running"}
  <2>1. call'[t] = call[t] + 1
    BY <1>4 DEF over, MovesOn, WorkerTypeOK
  <2>2. ReturnedBy(t, a, call[t] + 1) = Returned(t, a) + Effect(Closure(t), a)
    <3> PICK n : n = call[t]
      OBVIOUS
    <3>1. ReturnedBy(t, a, n + 1) = ReturnedBy(t, a, n) + Effect(Calls[t][n], a)
      BY <1>1, ReturnedByNext
    <3> QED BY <3>1, ReturnedIs DEF Closure
  <2>3. op[t] = Len(Closure(t).ops) + 1
    <3>1. CASE pc[t] = "store"
      BY <3>1 DEF ClosureOK, InCopy
    <3>2. CASE pc[t] = "running"
      <4>1. op[t] > Len(Closure(t).ops) /\ op[t] <= Len(Closure(t).ops) + 1 /\ call[t] <= Len(Calls[t])
        BY <3>2 DEF ClosureOK
      <4>2. Len(Closure(t).ops) \in Nat /\ op[t] \in Nat
        BY <4>1, CurrentCall, OperationType
      <4> QED BY <4>1, <4>2
    <3> QED BY <1>4, <3>1, <3>2
  <2>4. CASE \A i \in DOMAIN wset[t] : wset[t][i].address # a
    <3>1. Effect(Closure(t), a) = 0
      BY <2>3, <2>4, NoNodeNoEffect
    <3>2. ~Stored(t, a)
      BY <2>4 DEF Stored
    <3> QED BY <1>1, <1>2, <2>1, <2>2, <3>1, <3>2 DEF Count
  <2>5. CASE \E i \in DOMAIN wset[t] : wset[t][i].address = a
    <3>1. PICK i \in DOMAIN wset[t] : wset[t][i].address = a
      BY <2>5
    <3>2. i \in 1 .. Len(wset[t]) /\ Len(wset[t]) \in Nat /\ cur[t] \in Nat
      BY LenProperties DEF TypeOK
    <3>3. pc[t] = "store"
      <4>1. is_ro[t] => wset[t] = <<>>
        BY DEF ClosureOK, AuditRead
      <4>2. ~is_ro[t]
        BY <3>2, <4>1
      <4> QED BY <1>4, <4>2
    <3>4. i < cur[t]
      BY <3>2, <3>3
    <3>5. Stored(t, a)
      BY <3>1, <3>3, <3>4 DEF Stored, Storing
    <3> QED BY <1>1, <1>2, <2>1, <2>2, <3>5 DEF Count
  <2> QED BY <2>4, <2>5
<1> QED BY <1>3, <1>4

\* A store is counted, the other steps of a worker change nothing.
LEMMA OwnCount ==
  ASSUME BankCore, NEW t \in Thread, Worker(t), NEW a \in Addr
  PROVE  IF pc[t] = "store" /\ cur[t] <= Len(wset[t]) /\ wset[t][cur[t]].address = a
         THEN Count(t, a)' = Count(t, a) + Effect(Closure(t), a)
         ELSE Count(t, a)' = Count(t, a)
<1> TypeOK /\ WorkerTypeOK /\ ClosureInv /\ ClosureOK(t) /\ OneNodePerAddress
  BY DEF BankCore, CoreInv, LockInv, ClosureInv
<1>1. pc[t] # "idle" => Effect(Closure(t), a) \in Int /\ Returned(t, a) \in Int
  BY CountType
<1>2. ASSUME UNCHANGED call
       PROVE  /\ Returned(t, a)' = Returned(t, a) /\ Closure(t)' = Closure(t)
  BY <1>2 DEF Returned, Closure
<1>3. ASSUME UNCHANGED call, Stored(t, a)' <=> Stored(t, a) PROVE Count(t, a)' = Count(t, a)
  BY <1>2, <1>3 DEF Count
<1>4. CASE begin(t) \/ read(t) \/ write(t)
  <2>1. pc[t] \in {"idle", "running"} /\ pc'[t] \in {"running", "read_lock"} /\ UNCHANGED call
    BY <1>4 DEF begin, tm_begin, read, tm_read, write, tm_write, Goto, TypeOK, workerVars
  <2>2. ~Stored(t, a) /\ ~Stored(t, a)'
    BY <2>1 DEF Stored, Storing
  <2> QED BY <1>3, <2>1, <2>2
<1>5. CASE end(t) /\ ~is_ro[t]
  <2>1. pc[t] = "running" /\ pc'[t] = "acquire" /\ UNCHANGED call
    BY <1>5 DEF end, tm_end, Goto, TypeOK
  <2>2. ~Stored(t, a) /\ ~Stored(t, a)'
    BY <2>1 DEF Stored, Storing
  <2> QED BY <1>3, <2>1, <2>2
<1>6. CASE end(t) /\ is_ro[t]
  <2>1. pc[t] = "running" /\ pc'[t] = "idle" /\ over(t) /\ op[t] > Len(Closure(t).ops)
    BY <1>6 DEF end, AtEnd, tm_end, transaction_free, Goto, TypeOK
  <2>2. Count(t, a)' = Count(t, a)
    BY <1>6, <2>1, OverCounts
  <2> QED BY <2>1, <2>2
<1>7. CASE proceed(t) /\ pc'[t] = "idle"
  <2>1. /\ \/ pc[t] \in {"read_lock", "read_version", "unlock"}
           \/ pc[t] = "store" /\ cur[t] > Len(wset[t])
        /\ over(t)
    <3>1. over(t) /\ Proceed(t)
      BY <1>7 DEF proceed
    <3>2. CASE read_lock(t) \/ read_version(t) \/ unlock(t)
      BY <3>1, <3>2 DEF read_lock, read_version, unlock
    <3>3. CASE store(t)
      <4>1. ~ cur[t] <= Len(wset[t]) /\ pc[t] = "store"
        BY <1>7, <3>3 DEF store, Goto, TypeOK
      <4>2. cur[t] \in Nat /\ Len(wset[t]) \in Nat
        BY LenProperties DEF TypeOK
      <4> QED BY <3>1, <4>1, <4>2
    <3>4. CASE acquire(t) \/ spin(t) \/ increment(t) \/ validate_lock(t) \/ validate_version(t)
               \/ update(t) \/ release(t)
      BY <1>7, <3>4 DEF acquire, spin, increment, validate_lock, validate_version, UnlockAll,
         update, release, Goto, TypeOK
    <3> QED BY <3>1, <3>2, <3>3, <3>4 DEF Proceed
  <2>2. Count(t, a)' = Count(t, a)
    BY <1>7, <2>1, OverCounts
  <2>3. ~ (pc[t] = "store" /\ cur[t] <= Len(wset[t]))
    <3>1. cur[t] \in Nat /\ Len(wset[t]) \in Nat
      BY LenProperties DEF TypeOK
    <3> QED BY <2>1, <3>1
  <2> QED BY <2>2, <2>3
<1>8. CASE proceed(t) /\ pc'[t] # "idle"
  <2>1. UNCHANGED call /\ Proceed(t)
    BY <1>8 DEF proceed
  <2>2. /\ cur[t] \in Nat \ {0} /\ Len(wset[t]) \in Nat /\ DOMAIN wset[t] = 1 .. Len(wset[t])
    BY LenProperties DEF TypeOK
  <2>3. CASE read_lock(t) \/ read_version(t) \/ acquire(t) \/ spin(t) \/ unlock(t)
    <3>1. pc[t] \notin Storing /\ pc'[t] \notin Storing
      BY <1>8, <2>3 DEF read_lock, read_version, acquire, spin, unlock, transaction_free, Goto, TypeOK, Storing
    <3>2. ~Stored(t, a) /\ ~Stored(t, a)'
      BY <3>1 DEF Stored
    <3> QED BY <1>3, <2>1, <3>1, <3>2 DEF Storing
  <2>4. CASE increment(t) \/ validate_lock(t) \/ validate_version(t)
    <3>1. /\ pc[t] \notin Storing /\ wset'[t] = wset[t]
          /\ pc'[t] \in Storing => pc'[t] = "store" /\ cur'[t] = 1
      BY <1>8, <2>4 DEF increment, validate_lock, validate_version, UnlockAll, Goto, TypeOK, Storing
    <3>2. ~Stored(t, a)
      BY <3>1 DEF Stored
    <3>3. ~Stored(t, a)'
      BY <2>2, <3>1 DEF Stored
    <3> QED BY <1>3, <2>1, <3>1, <3>2, <3>3 DEF Storing
  <2>5. CASE store(t)
    <3> DEFINE k == cur[t]
    <3>1. /\ pc[t] = "store" /\ pc'[t] = "update" /\ k \in DOMAIN wset[t] /\ k <= Len(wset[t])
          /\ cur'[t] = cur[t] /\ wset'[t] = wset[t]
      <4>1. cur[t] <= Len(wset[t])
        BY <1>8, <2>5 DEF store, transaction_free, Goto, TypeOK
      <4> QED BY <2>2, <2>5, <4>1 DEF store, Goto, TypeOK, locals
    <3>2. CASE wset[t][k].address = a
      <4>1. Stored(t, a)'
        BY <3>1, <3>2 DEF Stored, Storing
      <4>2. ~Stored(t, a)
        <5> SUFFICES ASSUME NEW i \in DOMAIN wset[t], wset[t][i].address = a, i < k PROVE FALSE
          BY <3>1 DEF Stored
        <5>1. i = k
          BY <3>1, <3>2 DEF OneNodePerAddress, Distinct
        <5> QED BY <2>2, <5>1
      <4>3. Count(t, a)' = Returned(t, a) + Effect(Closure(t), a)
        BY <1>2, <2>1, <4>1, Zenon DEF Count
      <4>4. Count(t, a) = Returned(t, a) + 0
        BY <4>2, Zenon DEF Count
      <4>5. Returned(t, a) \in Int /\ Effect(Closure(t), a) \in Int
        BY <1>1, <3>1
      <4>6. Count(t, a)' = Count(t, a) + Effect(Closure(t), a)
        BY <4>3, <4>4, <4>5
      <4> HIDE DEF k
      <4> QED BY <3>1, <3>2, <4>6 DEF k
    <3>3. CASE wset[t][k].address # a
      <4>1. Stored(t, a)' <=> Stored(t, a)
        BY <3>1, <3>3 DEF Stored, Storing
      <4> QED BY <1>3, <2>1, <3>3, <4>1
    <3> QED BY <3>2, <3>3
  <2>6. CASE update(t) \/ release(t)
    <3>1. /\ pc[t] \in {"update", "release"} /\ pc'[t] \in {"release", "store"} /\ wset'[t] = wset[t]
          /\ pc'[t] = "release" => cur'[t] = cur[t]
          /\ pc'[t] = "store" => cur'[t] = cur[t] + 1
      BY <2>6 DEF update, release, Goto, TypeOK, locals
    <3>2. Stored(t, a)' <=> Stored(t, a)
      BY <2>2, <3>1 DEF Stored, Storing
    <3> QED BY <1>3, <2>1, <3>1, <3>2
  <2> QED BY <2>1, <2>3, <2>4, <2>5, <2>6 DEF Proceed
<1> QED BY <1>4, <1>5, <1>6, <1>7, <1>8 DEF Worker

\* A step that stores no word leaves all sums alone.
LEMMA SumsKept ==
  ASSUME WorkerTypeOK, ClosureInv, NEW a, \A u \in Thread : Count(u, a)' = Count(u, a)
  PROVE  SumFunctionOnSet([u \in Thread |-> Count(u, a)], Thread)'
            = SumFunctionOnSet([u \in Thread |-> Count(u, a)], Thread)
<1>1. [u \in Thread |-> Count(u, a)'] = [u \in Thread |-> Count(u, a)]
  OBVIOUS
<1> QED BY <1>1

\* The words hold what has been stored.
LEMMA CountKept ==
  /\ WorkerInit => CountInv
  /\ BankCore /\ NoneMissed /\ CountInv /\ [WorkerNext]_allVars => CountInv'
<1>1. ASSUME WorkerInit, NEW a \in Addr
      PROVE  mem[a] = SumFunctionOnSet([t \in Thread |-> Count(t, a)], Thread)
  <2>1. \A t \in Thread : Count(t, a) = 0
    <3> TAKE t \in Thread
    <3>1. call[t] = 1 /\ pc[t] = "idle"
      BY <1>1 DEF WorkerInit, Init
    <3>2. Count(t, a) = Returned(t, a) + 0
      BY <3>1 DEF Count, Stored, Storing
    <3>3. Returned(t, a) = SumFunctionOnSet([k \in 1 .. 0 |-> Effect(Calls[t][k], a)], 1 .. 0)
      BY <3>1 DEF Returned, SumFunction
    <3>4. Returned(t, a) = 0
      <4>1. 1 .. 0 = {}
        OBVIOUS
      <4> QED BY <3>3, <4>1, SumEmpty
    <3> QED BY <3>2, <3>4
  <2> PICK f : f = [t \in Thread |-> Count(t, a)]
    OBVIOUS
  <2>2. \A t \in Thread : f[t] = 0
    BY <2>1
  <2>3. SumFunctionOnSet(f, Thread) = 0 * Cardinality(Thread)
    BY ONLY <2>2, BankAssumption, 0 \in Nat, SumConst
  <2>4. Cardinality(Thread) \in Nat
    BY BankAssumption, FS_CardinalityType
  <2>5. mem[a] = 0
    BY <1>1 DEF WorkerInit, Init
  <2> QED BY <2>3, <2>4, <2>5
<1>2. ASSUME BankCore, NoneMissed, CountInv, [WorkerNext]_allVars, ~tainted', NEW a \in Addr
      PROVE  mem'[a] = SumFunctionOnSet([t \in Thread |-> Count(t, a)], Thread)'
  <2> TypeOK /\ WorkerTypeOK /\ ClosureInv
    BY <1>2 DEF BankCore, CoreInv, LockInv
  <2>1. CASE UNCHANGED allVars
    <3>1. \A t \in Thread : Count(t, a)' = Count(t, a)
      BY <2>1 DEF allVars, workerVars, vars, locals, Count, Returned, Stored, Closure
    <3>2. ~tainted /\ mem' = mem
      BY <1>2, <2>1 DEF allVars, workerVars, vars
    <3> QED BY <1>2, <3>1, <3>2, SumsKept DEF CountInv
  <2>2. ASSUME NEW t \in Thread, Worker(t)
        PROVE  mem'[a] = SumFunctionOnSet([u \in Thread |-> Count(u, a)], Thread)'
    <3>1. ClosureOK(t)
      BY DEF ClosureInv
    <3>2. ~tainted
      <4>1. tainted' = tainted \/ tainted' = (tainted \/ (pc'[t] = "store" /\ Missed(t)))
        BY <2>2 DEF Worker, begin, read, write, end, proceed, workerVars
      <4> QED BY <1>2, <4>1 DEF WorkerTypeOK
    <3>3. mem[a] = SumFunctionOnSet([u \in Thread |-> Count(u, a)], Thread)
      BY <1>2, <3>2 DEF CountInv
    <3>4. \A u \in Thread \ {t} : Count(u, a)' = Count(u, a)
      <4> TAKE u \in Thread \ {t}
      <4>1. pc'[u] = pc[u] /\ wset'[u] = wset[u] /\ cur'[u] = cur[u] /\ call'[u] = call[u]
        BY <2>2, <3>1, WorkerFrame
      <4>2. Closure(u)' = Closure(u) /\ Returned(u, a)' = Returned(u, a)
        BY <4>1 DEF Closure, Returned
      <4>3. Stored(u, a)' <=> Stored(u, a)
        BY <4>1 DEF Stored
      <4> QED BY <4>2, <4>3 DEF Count
    <3>5. CASE pc[t] = "store" /\ cur[t] <= Len(wset[t])
      <4> DEFINE k == cur[t]
                 b == wset[t][k].address
      <4>1. /\ k \in DOMAIN wset[t] /\ mem' = [mem EXCEPT ![b] = wset[t][k].value]
            /\ b \in Addr
        <5>1. store(t)
          <6>1. ~begin(t) /\ ~read(t) /\ ~write(t) /\ ~end(t)
            BY <3>5 DEF begin, tm_begin, read, tm_read, write, tm_write, end, tm_end
          <6> QED BY <2>2, <3>5, <6>1 DEF Worker, proceed, Proceed, read_lock, read_version, acquire, spin, unlock,
                 increment, validate_lock, validate_version, update, release
        <5> QED BY <3>5, <5>1, StoreEffect
      <4>2. mem[b] \in Int /\ Effect(Closure(t), b) \in Int /\ wset[t][k].value = mem[b] + Effect(Closure(t), b)
        BY <1>2, <3>2, <3>5, <4>1, StoreAdds
      <4>3. CASE a = b
        <5>1. Count(t, a)' = Count(t, a) + Effect(Closure(t), a)
          BY <1>2, <2>2, <3>5, <4>3, OwnCount
        <5>2. mem'[a] = mem[a] + Effect(Closure(t), a)
          BY <4>1, <4>2, <4>3 DEF TypeOK
        <5> PICK f : f = [u \in Thread |-> Count(u, a)]
          OBVIOUS
        <5> PICK g : g = [u \in Thread |-> Count(u, a)']
          OBVIOUS
        <5> PICK e : e = Effect(Closure(t), a)
          OBVIOUS
        <5>3. \A u \in Thread : f[u] \in Int
          BY CountType
        <5>4. g[t] = f[t] + e /\ e \in Int /\ \A u \in Thread : u # t => f[u] = g[u]
          BY <3>4, <4>2, <4>3, <5>1
        <5>5. \A u \in Thread : f[u] \in Int /\ g[u] \in Int /\ (u # t => f[u] = g[u])
          BY <5>3, <5>4
        <5>6. SumFunctionOnSet(g, Thread) = SumFunctionOnSet(f, Thread) - f[t] + g[t]
          BY ONLY <5>5, BankAssumption, t \in Thread, SumChange
        <5>7. SumFunctionOnSet(f, Thread) \in Int
          BY <5>3, BankAssumption, SumType
        <5>8. SumFunctionOnSet(g, Thread) = mem[a] + e
          BY <3>3, <5>3, <5>4, <5>6, <5>7
        <5> QED BY <5>2, <5>8
      <4>4. CASE a # b
        <5>1. Count(t, a)' = Count(t, a)
          BY <1>2, <2>2, <4>4, OwnCount
        <5>2. mem'[a] = mem[a]
          BY <4>1, <4>4 DEF TypeOK
        <5>3. \A u \in Thread : Count(u, a)' = Count(u, a)
          BY <3>4, <5>1
        <5> QED BY <3>3, <5>2, <5>3, SumsKept
      <4> QED BY <4>3, <4>4
    <3>6. CASE ~ (pc[t] = "store" /\ cur[t] <= Len(wset[t]))
      <4>1. mem' = mem
        <5>1. CASE begin(t) \/ read(t) \/ write(t) \/ end(t)
          BY <5>1 DEF begin, tm_begin, read, tm_read, write, tm_write, end, tm_end
        <5>2. CASE proceed(t)
          BY <3>6, <5>2 DEF proceed, Proceed, read_lock, read_version, acquire, spin, unlock, increment,
             validate_lock, validate_version, store, update, release
        <5> QED BY <2>2, <5>1, <5>2 DEF Worker
      <4>2. \A u \in Thread : Count(u, a)' = Count(u, a)
        BY <1>2, <2>2, <3>4, <3>6, OwnCount
      <4> QED BY <3>3, <4>1, <4>2, SumsKept
    <3> QED BY <3>5, <3>6
  <2> QED BY <1>2, <2>1, <2>2 DEF WorkerNext
<1> QED BY <1>1, <1>2 DEF CountInv

\* The invariant of the bank.
BankInv == BankCore /\ NoneMissed /\ CountInv

LEMMA BankInvariant == WorkerSpec => []BankInv
<1>1. WorkerInit => BankInv
  BY CoreKept, NoneMissedKept, CountKept DEF BankInv
<1>2. BankInv /\ [WorkerNext]_allVars => BankInv'
  BY CoreKept, NoneMissedKept, CountKept DEF BankInv
<1> QED BY <1>1, <1>2, PTL DEF WorkerSpec

(* When no transfer is between its first store and its return, each account *)
(* of the bank has changed by what the returned transfers add to it: none  *)
(* is lost or stored twice by a retry, by an abort, or by a transfer that  *)
(* read the account while another stored it, whatever locks accounts share. *)
THEOREM TransfersAppliedOnce == WorkerSpec => []TransfersApplyOnce
<1>1. BankInv => TransfersApplyOnce
  <2> SUFFICES ASSUME BankInv, Settled, ~tainted, NEW a \in Addr PROVE mem[a] = Applied(a)
    BY DEF TransfersApplyOnce
  <2> WorkerTypeOK /\ ClosureInv
    BY DEF BankInv, BankCore
  <2>1. mem[a] = SumFunctionOnSet([t \in Thread |-> Count(t, a)], Thread)
    BY DEF BankInv, CountInv
  <2>2. \A t \in Thread : Count(t, a) = Returned(t, a)
    <3> TAKE t \in Thread
    <3>1. ~Stored(t, a) /\ Returned(t, a) \in Int
      BY CountType DEF Settled, Stored
    <3> QED BY <3>1 DEF Count
  <2>3. [t \in Thread |-> Count(t, a)] = [t \in Thread |-> Returned(t, a)]
    BY <2>2
  <2>4. Applied(a) = SumFunctionOnSet([t \in Thread |-> Returned(t, a)], Thread)
    BY DEF Applied, SumFunction
  <2> QED BY <2>1, <2>3, <2>4
<1> QED BY <1>1, BankInvariant, PTL
-----------------------------------------------------------------------------
(* The audits.  The argument: a transaction that no commit was about to     *)
(* store for when it began has memory as it then was for its snapshot; each*)
(* call was counted in it with all its amounts or with none, and the       *)
(* amounts of a call add up to nothing.                                    *)

\* The amounts of the first n operations are those of all accounts together, ...
LEMMA PartsTotal ==
  ASSUME NEW c \in Closures, NEW n \in 0 .. Len(c.ops)
  PROVE  Total([a \in Addr |-> Part(c, a, n)])
            = SumFunctionOnSet([i \in DOMAIN c.ops |-> c.ops[i].amount], 1 .. n)
<1> PICK amount : amount = [i \in DOMAIN c.ops |-> c.ops[i].amount]
  OBVIOUS
<1> DEFINE Parts(m) == [a \in Addr |-> Part(c, a, m)]
           T == {m \in 0 .. Len(c.ops) : Total(Parts(m)) # SumFunctionOnSet(amount, 1 .. m)}
<1> SUFFICES ASSUME T # {} PROVE FALSE
  OBVIOUS
<1>1. PICK m \in T : \A k \in T : m <= k
  <2>1. T \in SUBSET Nat
    OBVIOUS
  <2> HIDE DEF T
  <2> QED BY <2>1, LeastNat
<1>2. m \in 0 .. Len(c.ops) /\ m \in Nat /\ Len(c.ops) \in Nat
      /\ Total(Parts(m)) # SumFunctionOnSet(amount, 1 .. m)
  BY <1>1, OperationType
<1>3. IsFiniteSet(Addr)
  BY BankAssumption
<1>4. CASE m = 0
  <2>1. \A a \in Addr : Parts(0)[a] = 0
    BY PartNone
  <2> PICK p : p = Parts(0)
    OBVIOUS
  <2>2. \A a \in Addr : p[a] = 0
    BY <2>1
  <2>3. SumFunctionOnSet(p, Addr) = 0 * Cardinality(Addr) /\ Cardinality(Addr) \in Nat
    BY ONLY <2>2, <1>3, 0 \in Nat, SumConst, FS_CardinalityType
  <2>4. 1 .. 0 = {}
    OBVIOUS
  <2>5. SumFunctionOnSet(amount, 1 .. 0) = 0
    BY <2>4, SumEmpty
  <2> HIDE DEF Parts
  <2> QED BY <1>2, <1>4, <2>3, <2>5 DEF Total
<1>5. CASE m # 0
  <2>1. m \in 1 .. Len(c.ops) /\ m - 1 \in 0 .. Len(c.ops) /\ m - 1 \in Nat /\ m > 0
    BY <1>2, <1>5
  <2>2. Total(Parts(m - 1)) = SumFunctionOnSet(amount, 1 .. m - 1)
    <3>1. m - 1 \notin T
      <4> HIDE DEF T
      <4> QED BY <1>1, <1>2, <2>1
    <3> QED BY <2>1, <3>1
  <2>3. c.ops[m].address \in Addr /\ c.ops[m].amount \in Int /\ amount[m] = c.ops[m].amount
    BY <2>1, OperationType
  <2> PICK b \in Addr : b = c.ops[m].address
    BY <2>3
  <2> PICK p : p = Parts(m)
    OBVIOUS
  <2> PICK q : q = Parts(m - 1)
    OBVIOUS
  <2>4. \A a \in Addr : q[a] \in Int /\ p[a] \in Int /\ (a # b => q[a] = p[a])
    BY <2>1, <2>3, PartNext
  <2>5. p[b] = q[b] + amount[m]
    BY <2>1, <2>3, PartNext
  <2>6. SumFunctionOnSet(p, Addr) = SumFunctionOnSet(q, Addr) - q[b] + p[b]
    BY ONLY <1>3, <2>4, b \in Addr, SumChange
  <2>7. SumFunctionOnSet(q, Addr) \in Int /\ q[b] \in Int /\ amount[m] \in Int
    BY <1>3, <2>3, <2>4, SumType
  <2>8. \A i \in 1 .. m : amount[i] \in Int
    <3>1. \A i \in 1 .. m : i \in 1 .. Len(c.ops)
      BY <2>1, <1>2
    <3> QED BY <3>1, OperationType
  <2>9. SumFunctionOnSet(amount, 1 .. m) = SumFunctionOnSet(amount, 1 .. m - 1) + amount[m]
    BY ONLY <1>2, <2>1, <2>8, SumUpTo
  <2> HIDE DEF Parts
  <2>10. SumFunctionOnSet(p, Addr) = SumFunctionOnSet(q, Addr) + amount[m]
    BY ONLY <2>5, <2>6, <2>7
  <2> QED BY <1>2, <2>2, <2>9, <2>10 DEF Total
<1> QED BY <1>4, <1>5

\* ... so a call moves money and makes none, ...
LEMMA EffectsTotal ==
  ASSUME NEW c \in Closures
  PROVE  Total([a \in Addr |-> Effect(c, a)]) = 0
<1>1. Len(c.ops) \in 0 .. Len(c.ops) /\ DOMAIN c.ops = 1 .. Len(c.ops)
  BY OperationType
<1>2. [a \in Addr |-> Part(c, a, Len(c.ops))] = [a \in Addr |-> Effect(c, a)]
  BY PartAll
<1> PICK amount : amount = [i \in DOMAIN c.ops |-> c.ops[i].amount]
  OBVIOUS
<1>3. DOMAIN amount = DOMAIN c.ops
  OBVIOUS
<1>4. SumFunction(amount) = 0
  BY DEF Closures
<1>5. SumFunctionOnSet(amount, 1 .. Len(c.ops)) = 0
  BY <1>1, <1>3, <1>4, Zenon DEF SumFunction
<1> QED BY <1>1, <1>2, <1>5, PartsTotal

\* ... nor do all the calls that have returned.
LEMMA ReturnedTotal ==
  ASSUME NEW t \in Thread, NEW n \in 1 .. Len(Calls[t]) + 1
  PROVE  Total([a \in Addr |-> ReturnedBy(t, a, n)]) = 0
<1> DEFINE K == 1 .. n - 1
<1> PICK f : f = [a \in Addr |-> [k \in K |-> Effect(Calls[t][k], a)]]
  OBVIOUS
<1>1. Len(Calls[t]) \in Nat
  BY BankAssumption, LenProperties
<1>2. \A k \in K : k \in 1 .. Len(Calls[t])
  BY <1>1
<1>3. IsFiniteSet(Addr) /\ IsFiniteSet(K)
  <2>1. 1 \in Int /\ n - 1 \in Int
    BY <1>1
  <2> QED BY <2>1, BankAssumption, FS_Interval
<1>4. \A a \in Addr, k \in K : f[a][k] \in Int
  BY <1>2, CallType, PartAll
<1>5. ASSUME NEW k \in K PROVE SumFunctionOnSet([a \in Addr |-> f[a][k]], Addr) = 0
  <2>1. [a \in Addr |-> f[a][k]] = [a \in Addr |-> Effect(Calls[t][k], a)]
    OBVIOUS
  <2>2. Calls[t][k] \in Closures
    BY <1>2, CallType
  <2> QED BY <2>1, <2>2, EffectsTotal DEF Total
<1>6. \A a \in Addr : ReturnedBy(t, a, n) = SumFunctionOnSet(f[a], K)
  BY DEF ReturnedBy, SumFunction
<1> HIDE DEF K
<1>7. SumFunctionOnSet([a \in Addr |-> SumFunctionOnSet(f[a], K)], Addr) = 0
  BY ONLY <1>3, <1>4, <1>5, SumColumns
<1>8. [a \in Addr |-> ReturnedBy(t, a, n)] = [a \in Addr |-> SumFunctionOnSet(f[a], K)]
  BY <1>6
<1> QED BY <1>7, <1>8 DEF Total

\* No word is stored twice under one version.
OneStorePerVersion == \A a \in Addr : \A r, q \in hist[a] : r.wv = q.wv => r = q

LEMMA OneStoreKept ==
  /\ Init => OneStorePerVersion
  /\ CoreInv /\ OneStorePerVersion /\ [Next]_vars => OneStorePerVersion'
<1>1. Init => OneStorePerVersion
  BY DEF Init, OneStorePerVersion
<1>2. ASSUME CoreInv, OneStorePerVersion, [Next]_vars PROVE OneStorePerVersion'
  <2> TypeOK /\ LockInv /\ VersionInv /\ AllCovered
    BY <1>2 DEF CoreInv, LockInv, HistInv
  <2>1. CASE hist' = hist
    BY <1>2, <2>1 DEF OneStorePerVersion
  <2>2. ASSUME NEW t \in Thread, store(t), cur[t] <= Len(wset[t]) PROVE OneStorePerVersion'
    <3> DEFINE k == cur[t]
               b == wset[t][k].address
               new == [wv |-> wv[t], value |-> wset[t][k].value]
    <3>1. /\ pc[t] = "store" /\ k \in DOMAIN wset[t] /\ b \in Addr
          /\ hist' = [hist EXCEPT ![b] = @ \cup {new}]
      BY <2>2, StoreEffect
    <3>2. \A r \in hist[b] : r.wv \in Nat /\ r.wv < wv[t]
      <4>1. Holds(t, k) /\ pc[t] \in Committing \ {"update", "release"}
        BY <3>1 DEF Holds, Committing, Storing, TypeOK
      <4>2. \A r \in hist[b] : r.wv < wv[t]
        BY <3>1, <4>1, StoreIsNewest
      <4> QED BY <3>1, <4>2 DEF TypeOK
    <3>3. wv[t] \in Nat /\ new.wv = wv[t]
      BY DEF TypeOK
    <3> HIDE DEF b, new
    <3>4. \A a \in Addr : hist'[a] = IF a = b THEN hist[b] \cup {new} ELSE hist[a]
      BY <3>1 DEF TypeOK
    <3>5. ASSUME NEW a \in Addr, NEW r \in hist'[a], NEW q \in hist'[a], r.wv = q.wv PROVE r = q
      <4>1. CASE a # b
        BY <1>2, <3>4, <3>5, <4>1 DEF OneStorePerVersion
      <4>2. CASE a = b
        <5>1. r \in hist[b] \cup {new} /\ q \in hist[b] \cup {new}
          BY <3>4, <3>5, <4>2
        <5>2. CASE r \in hist[b] /\ q \in hist[b]
          BY <1>2, <3>1, <3>5, <5>2 DEF OneStorePerVersion
        <5>3. CASE r = new \/ q = new
          BY <3>2, <3>3, <3>5, <5>1, <5>3
        <5> QED BY <5>1, <5>2, <5>3
      <4> QED BY <4>1, <4>2
    <3> QED BY <3>5 DEF OneStorePerVersion
  <2>3. CASE UNCHANGED vars
    BY <2>1, <2>3 DEF vars, history
  <2>4. ASSUME NEW t \in Thread, Call(t) \/ Proceed(t), ~(store(t) /\ cur[t] <= Len(wset[t]))
        PROVE  hist' = hist
    BY <2>4, CallVersions, QuietVersions
       DEF Proceed, Quiet, increment, store, update, transaction_free, history
  <2> QED BY <1>2, <2>1, <2>2, <2>3, <2>4 DEF Next
<1> QED BY <1>1, <1>2

\* A snapshot has one value per word.
LEMMA SnapshotUnique ==
  ASSUME TypeOK, OneStorePerVersion, NEW a \in Addr, NEW n, NEW v, NEW w,
         IsSnapshot(a, n, v), IsSnapshot(a, n, w)
  PROVE  v = w
<1>1. PICK r \in hist[a] : r.wv <= n /\ r.value = v /\ \A q \in hist[a] : q.wv <= n => q.wv <= r.wv
  BY DEF IsSnapshot
<1>2. PICK q \in hist[a] : q.wv <= n /\ q.value = w /\ \A p \in hist[a] : p.wv <= n => p.wv <= q.wv
  BY DEF IsSnapshot
<1>3. q.wv <= r.wv /\ r.wv <= q.wv
  BY <1>1, <1>2
<1>4. r.wv \in Nat /\ q.wv \in Nat
  BY DEF TypeOK
<1> QED BY <1>1, <1>2, <1>3, <1>4 DEF OneStorePerVersion

\* What is stored has a version the clock has reached, so memory is a snapshot.
LEMMA MemoryIsSnapshot ==
  ASSUME CoreInv, NEW a \in Addr
  PROVE  IsSnapshot(a, clock, mem[a])
<1> TypeOK
  BY DEF CoreInv, LockInv
<1>1. PICK r \in hist[a] : r.value = mem[a] /\ \A q \in hist[a] : q # r => q.wv < r.wv
  BY DEF CoreInv, HistInv, MemoryIsNewestStore
<1>2. clock \in Nat /\ \A q \in hist[a] : q.wv \in Nat
  BY DEF TypeOK
<1>3. r.wv <= clock
  <2>1. CASE r.wv <= version[find_lock(a)]
    <3>1. version[find_lock(a)] \in Nat /\ version[find_lock(a)] <= clock
      BY FindLockType DEF TypeOK, CoreInv, VersionInv
    <3> QED BY <1>2, <2>1, <3>1
  <2>2. ASSUME NEW u \in Thread, pc[u] = "update", wv[u] = r.wv PROVE r.wv <= clock
    BY <2>2 DEF CoreInv, VersionInv, VersionOK, Committing, Storing
  <2> QED BY <2>1, <2>2 DEF CoreInv, HistInv, AllCovered, Covered
<1> QED BY <1>1, <1>2, <1>3 DEF IsSnapshot

\* A worker that owes no store counts with all the amounts of its calls.
LEMMA CountTotal ==
  ASSUME TypeOK, WorkerTypeOK, ClosureInv, NEW t \in Thread, \A a \in Addr : ~PendingStore(t, a)
  PROVE  Total([a \in Addr |-> Count(t, a)]) = 0
<1>1. call[t] \in 1 .. Len(Calls[t]) + 1
  <2>1. call[t] \in Nat \ {0} /\ Len(Calls[t]) \in Nat /\ call[t] <= Len(Calls[t]) + 1
    BY BankAssumption, LenProperties DEF WorkerTypeOK, ClosureInv, ClosureOK
  <2> QED BY <2>1
<1> PICK r : r = [a \in Addr |-> Returned(t, a)]
  OBVIOUS
<1>2. SumFunctionOnSet(r, Addr) = 0
  <2> PICK n \in 1 .. Len(Calls[t]) + 1 : n = call[t]
    BY <1>1
  <2>1. r = [a \in Addr |-> ReturnedBy(t, a, n)]
    BY ReturnedIs
  <2> QED BY <2>1, ReturnedTotal DEF Total
<1>3. CASE pc[t] \notin Storing
  <2>1. \A a \in Addr : Count(t, a) = Returned(t, a)
    <3> TAKE a \in Addr
    <3>1. ~Stored(t, a) /\ Returned(t, a) \in Int
      BY <1>3, CountType DEF Stored
    <3> QED BY <3>1 DEF Count
  <2>2. [a \in Addr |-> Count(t, a)] = r
    BY <2>1
  <2> QED BY <1>2, <2>2 DEF Total
<1>4. CASE pc[t] \in Storing
  <2>1. /\ pc[t] # "idle" /\ op[t] = Len(Closure(t).ops) + 1 /\ call[t] <= Len(Calls[t])
    BY <1>4 DEF ClosureInv, ClosureOK, Storing, InCopy
  <2>2. Closure(t) \in Closures
    BY <2>1, CurrentCall
  <2> PICK e : e = [a \in Addr |-> Effect(Closure(t), a)]
    OBVIOUS
  <2>3. SumFunctionOnSet(e, Addr) = 0
    BY <2>2, EffectsTotal DEF Total
  <2>4. ASSUME NEW a \in Addr
        PROVE  /\ Count(t, a) = r[a] + e[a] /\ r[a] \in Int /\ e[a] \in Int
    <3>1. Returned(t, a) \in Int /\ Effect(Closure(t), a) \in Int
      BY <2>1, CountType
    <3>2. CASE \E i \in DOMAIN wset[t] : wset[t][i].address = a
      <4>1. PICK i \in DOMAIN wset[t] : wset[t][i].address = a
        BY <3>2
      <4>2. i \in Nat /\ cur[t] \in Nat
        BY LenProperties DEF TypeOK
      <4>3. Stored(t, a)
        BY <1>4, <4>1, <4>2 DEF Stored, Storing, PendingStore
      <4> QED BY <3>1, <4>3 DEF Count
    <3>3. CASE \A i \in DOMAIN wset[t] : wset[t][i].address # a
      <4>1. Effect(Closure(t), a) = 0
        BY <2>1, <3>3, NoNodeNoEffect
      <4>2. ~Stored(t, a)
        BY <3>3 DEF Stored
      <4> QED BY <3>1, <4>1, <4>2 DEF Count
    <3> QED BY <3>2, <3>3
  <2> PICK c : c = [a \in Addr |-> Count(t, a)]
    OBVIOUS
  <2>5. \A a \in Addr : r[a] \in Int /\ e[a] \in Int /\ c[a] = r[a] + e[a]
    BY <2>4
  <2>6. SumFunctionOnSet(c, Addr) = SumFunctionOnSet(r, Addr) + SumFunctionOnSet(e, Addr)
    BY ONLY <2>5, BankAssumption, SumPlus
  <2> QED BY <1>2, <2>3, <2>6 DEF Total
<1> QED BY <1>3, <1>4

\* With no store to come, the money in memory is all there.
LEMMA MemoryTotal ==
  ASSUME BankInv, ~tainted, \A u \in Thread, a \in Addr : ~PendingStore(u, a)
  PROVE  Total(mem) = 0
<1> TypeOK /\ WorkerTypeOK /\ ClosureInv
  BY DEF BankInv, BankCore, CoreInv, LockInv
<1> PICK f : f = [a \in Addr |-> [u \in Thread |-> Count(u, a)]]
  OBVIOUS
<1>1. \A a \in Addr, u \in Thread : f[a][u] \in Int
  BY CountType
<1>2. ASSUME NEW u \in Thread PROVE SumFunctionOnSet([a \in Addr |-> f[a][u]], Addr) = 0
  <2>1. [a \in Addr |-> f[a][u]] = [a \in Addr |-> Count(u, a)]
    OBVIOUS
  <2> QED BY <2>1, CountTotal DEF Total
<1>3. SumFunctionOnSet([a \in Addr |-> SumFunctionOnSet(f[a], Thread)], Addr) = 0
  <2>1. IsFiniteSet(Addr) /\ IsFiniteSet(Thread)
    BY BankAssumption
  <2> QED BY ONLY <1>1, <1>2, <2>1, SumColumns
<1>4. mem = [a \in Addr |-> SumFunctionOnSet(f[a], Thread)]
  <2>1. \A a \in Addr : mem[a] = SumFunctionOnSet(f[a], Thread)
    BY DEF BankInv, CountInv
  <2>2. mem \in [Addr -> Val]
    BY DEF TypeOK
  <2> QED BY <2>1, <2>2
<1> QED BY <1>3, <1>4 DEF Total

(* A transaction that missed nothing reads a snapshot that adds up.        *)
Snapshot(t, s) ==
    /\ s \in [Addr -> Int] /\ Total(s) = 0
    /\ \A a \in Addr : IsSnapshot(a, rv[t], s[a])

SnapshotInv ==
    ~tainted => \A t \in Thread :
        pc[t] # "idle" /\ missed[t] = {} => \E s : Snapshot(t, s)

\* A step within a transaction leaves its read version and what it missed alone.
LEMMA SameTransaction ==
  ASSUME TypeOK, NEW t \in Thread, Worker(t), pc[t] # "idle", pc'[t] # "idle"
  PROVE  SameStart(t)
<1>1. ~transaction_free(t)
  BY DEF transaction_free, Goto, TypeOK
<1>2. CASE begin(t) \/ read(t) \/ write(t)
  BY <1>2 DEF begin, tm_begin, read, tm_read, write, tm_write, history, SameStart
<1>3. CASE end(t)
  BY <1>1, <1>3 DEF end, tm_end, locals, history, SameStart
<1>4. CASE proceed(t)
  <2>1. CASE read_lock(t) \/ read_version(t)
    BY <1>1, <2>1 DEF read_lock, read_version, locals, history, SameStart
  <2>2. CASE acquire(t) \/ spin(t) \/ unlock(t) \/ increment(t)
    BY <1>1, <2>2 DEF acquire, spin, unlock, increment, locals, history, SameStart
  <2>3. CASE validate_lock(t) \/ validate_version(t)
    BY <2>3 DEF validate_lock, validate_version, history, SameStart
  <2>4. CASE store(t) \/ update(t) \/ release(t)
    BY <1>1, <2>4 DEF store, update, release, locals, history, SameStart
  <2> QED BY <1>4, <2>1, <2>2, <2>3, <2>4 DEF proceed, Proceed
<1> QED BY <1>2, <1>3, <1>4 DEF Worker

\* Every transaction that missed nothing keeps the snapshot it began with.
LEMMA SnapshotKept ==
  /\ WorkerInit => SnapshotInv
  /\ BankInv /\ SnapshotInv /\ [WorkerNext]_allVars => SnapshotInv'
<1>1. WorkerInit => SnapshotInv
  BY DEF WorkerInit, Init, SnapshotInv
<1>2. ASSUME BankInv, SnapshotInv, [WorkerNext]_allVars, ~tainted',
             NEW u \in Thread, pc'[u] # "idle", missed'[u] = {}
      PROVE  \E s : Snapshot(u, s)'
  <2> TypeOK /\ WorkerTypeOK /\ ClosureInv /\ CoreInv /\ ReadOK(u)
    BY <1>2 DEF BankInv, BankCore, CoreInv, LockInv, ReadInv
  <2>1. CASE UNCHANGED allVars
    <3>1. UNCHANGED <<tainted, pc, missed, rv, hist>>
      BY <2>1 DEF allVars, workerVars, vars, locals, history
    <3>2. PICK s : Snapshot(u, s)
      BY <1>2, <3>1 DEF SnapshotInv
    <3>3. Snapshot(u, s)'
      BY <3>1, <3>2 DEF Snapshot, IsSnapshot
    <3> QED BY <3>3
  <2>2. ASSUME NEW t \in Thread, Worker(t) PROVE \E s : Snapshot(u, s)'
    <3>1. ClosureOK(t)
      BY DEF ClosureInv
    <3>2. ~tainted
      <4>1. tainted' = tainted \/ tainted' = (tainted \/ (pc'[t] = "store" /\ Missed(t)))
        BY <2>2 DEF Worker, begin, read, write, end, proceed, workerVars
      <4> QED BY <1>2, <4>1 DEF WorkerTypeOK
    <3>3. HistGrows
      BY <2>2, <3>1, WorkerIsCall, StepMoves DEF Moves
    <3>4. CASE SameStart(u)
      <4>1. PICK s : Snapshot(u, s)
        BY <1>2, <3>2, <3>4 DEF SnapshotInv, SameStart
      <4>2. ASSUME NEW a \in Addr PROVE IsSnapshot(a, rv[u], s[a])'
        <5> PICK w : w = [address |-> a, value |-> s[a]]
          OBVIOUS
        <5>1. SnapOK(u, w) /\ MissedOK(u)
          BY <3>4, <4>1 DEF Snapshot, SnapOK, SameStart, ReadOK
        <5>2. SnapOK(u, w)'
          BY <3>3, <3>4, <5>1, SnapStable
        <5> QED BY <1>2, <5>2 DEF SnapOK
      <4>3. Snapshot(u, s)'
        BY <4>1, <4>2 DEF Snapshot
      <4> QED BY <4>3
    <3>5. CASE u = t /\ begin(t)
      <4>1. /\ rv'[u] = clock /\ hist' = hist
            /\ missed'[u] = {a \in Addr : \E v \in Thread : PendingStore(v, a)}
        BY <3>5 DEF begin, tm_begin, TypeOK
      <4>2. Total(mem) = 0
        BY <1>2, <3>2, <4>1, MemoryTotal
      <4>3. mem \in [Addr -> Int] /\ \A a \in Addr : IsSnapshot(a, clock, mem[a])
        BY MemoryIsSnapshot, BankAssumption DEF TypeOK
      <4> PICK s : s = mem
        OBVIOUS
      <4>4. Snapshot(u, s)'
        BY <4>1, <4>2, <4>3 DEF Snapshot, IsSnapshot
      <4> QED BY <4>4
    <3>6. CASE u # t
      <4>1. Frame(t)
        BY <2>2, <3>1, WorkerIsCall, CallFrame, ProceedFrame
      <4>2. SameStart(u)
        BY <1>2, <3>6, <4>1 DEF Frame, SameStart
      <4> QED BY <3>4, <4>2
    <3>7. CASE u = t /\ ~begin(t)
      <4>1. pc[t] # "idle"
        BY <2>2, <3>7 DEF Worker, read, tm_read, write, tm_write, end, tm_end, proceed, Proceed, read_lock,
           read_version, acquire, spin, unlock, increment, validate_lock, validate_version, store, update, release
      <4> QED BY <1>2, <2>2, <3>4, <3>7, <4>1, SameTransaction
    <3> QED BY <3>5, <3>6, <3>7
  <2> QED BY <1>2, <2>1, <2>2 DEF WorkerNext
<1> QED BY <1>1, <1>2 DEF SnapshotInv

(* An audit that runs among transfers adds up to what the bank began with,  *)
(* in whatever order their steps come, if it read no word a commit of an   *)
(* older version was still to store when it began, and nobody stored after *)
(* such a read before.                                                     *)
THEOREM AuditsAlwaysAddUp == WorkerSpec => []AuditsAddUp
<1>1. WorkerInit => SnapshotInv /\ OneStorePerVersion
  BY SnapshotKept, OneStoreKept DEF WorkerInit
<1>2. BankInv /\ SnapshotInv /\ OneStorePerVersion /\ [WorkerNext]_allVars
         => SnapshotInv' /\ OneStorePerVersion'
  BY SnapshotKept, OneStoreKept, WorkerIsNext DEF BankInv, BankCore, CoreInv, LockInv
<1>3. BankInv /\ SnapshotInv /\ OneStorePerVersion => AuditsAddUp
  <2> SUFFICES ASSUME BankInv, SnapshotInv, OneStorePerVersion, ~tainted,
                      NEW t \in Thread, AtEnd(t), Closure(t).ro, ~Missed(t)
               PROVE  SumFunction(got[t]) = 0
    BY DEF AuditsAddUp
  <2> TypeOK /\ WorkerTypeOK /\ ClosureOK(t) /\ ReadOK(t)
    BY DEF BankInv, BankCore, CoreInv, LockInv, ClosureInv, ReadInv
  <2> PICK c : c = Closure(t)
    OBVIOUS
  <2> DEFINE n == Len(c.ops)
  <2>1. /\ pc[t] = "running" /\ is_ro[t] /\ call[t] <= Len(Calls[t]) /\ AuditRead(t)
        /\ op[t] > n /\ op[t] <= n + 1
    BY DEF AtEnd, ClosureOK
  <2>2. c \in Closures /\ op[t] \in Nat
    BY <2>1, CurrentCall
  <2>3. /\ n \in Nat /\ op[t] - 1 = n /\ DOMAIN c.ops = 1 .. n
        /\ \A i \in 1 .. n : c.ops[i].address \in Addr
    BY <2>1, <2>2, OperationType
  <2>4. /\ got[t] \in Seq(Int) /\ Len(got[t]) = n /\ DOMAIN got[t] = 1 .. n
        /\ \A i \in 1 .. n : got[t][i] \in Int
    <3>1. got[t] \in Seq(Int) /\ Len(got[t]) = n
      BY <2>1, <2>3 DEF AuditRead, WorkerTypeOK
    <3> HIDE DEF n
    <3>2. DOMAIN got[t] = 1 .. n
      BY ONLY <3>1, LenProperties
    <3>3. \A i \in 1 .. n : got[t][i] \in Int
      BY ONLY <3>1, ElementOfSeq
    <3> QED BY <3>1, <3>2, <3>3
  <2>5. /\ \A a \in Addr : \E i \in 1 .. n : c.ops[i].address = a
        /\ \A i, j \in 1 .. n : c.ops[i].address = c.ops[j].address => i = j
    <3>1. c.ro
      OBVIOUS
    <3>2. /\ \A a \in Addr : \E i \in DOMAIN c.ops : c.ops[i].address = a
          /\ \A i, j \in DOMAIN c.ops : c.ops[i].address = c.ops[j].address => i = j
      BY ONLY <2>2, <3>1 DEF Closures
    <3> QED BY <2>3, <3>2, Zenon
  <2>6. \A i \in 1 .. n : [address |-> c.ops[i].address, value |-> got[t][i]] \in obs[t]
    BY <2>1, <2>3 DEF AuditRead
  <2>7. missed[t] = {}
    <3>1. \A i \in 1 .. n : c.ops[i].address \notin missed[t]
      BY <2>6 DEF Missed
    <3>2. missed[t] \subseteq Addr
      BY DEF TypeOK
    <3> QED BY <2>5, <3>1, <3>2
  <2>8. PICK s : Snapshot(t, s)
    BY <2>1, <2>7 DEF SnapshotInv
  <2>9. ASSUME NEW i \in 1 .. n PROVE got[t][i] = s[c.ops[i].address]
    <3> PICK a \in Addr : a = c.ops[i].address
      BY <2>3
    <3> PICK w : w = [address |-> a, value |-> got[t][i]]
      OBVIOUS
    <3>1. w \in obs[t] /\ w.address = a /\ w.value = got[t][i]
      BY <2>6
    <3>2. IsSnapshot(a, rv[t], got[t][i])
      BY <2>7, <3>1 DEF ReadOK, SnapOK
    <3>3. IsSnapshot(a, rv[t], s[a])
      BY <2>8 DEF Snapshot
    <3> QED BY <3>2, <3>3, SnapshotUnique
  <2> PICK p : p = [i \in 1 .. n |-> c.ops[i].address]
    OBVIOUS
  <2> PICK f : f = got[t]
    OBVIOUS
  <2> PICK I : I = 1 .. n
    OBVIOUS
  <2>10. IsFiniteSet(I) /\ \A i, j \in I : p[i] = p[j] => i = j
    BY <2>3, <2>5, FS_Interval
  <2>11. \A i \in I : f[i] \in Int /\ f[i] = s[p[i]]
    BY <2>4, <2>9
  <2>12. SumFunctionOnSet(s, {p[i] : i \in I}) = SumFunctionOnSet(f, I)
    BY ONLY <2>10, <2>11, SumReindex
  <2>13. {p[i] : i \in I} = Addr
    BY <2>3, <2>5
  <2>14. SumFunction(got[t]) = SumFunctionOnSet(f, I)
    BY <2>4 DEF SumFunction
  <2> QED BY <2>8, <2>12, <2>13, <2>14 DEF Snapshot, Total
<1> QED BY <1>1, <1>2, <1>3, BankInvariant, PTL DEF WorkerSpec
=============================================================================
