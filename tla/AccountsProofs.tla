--------------------------- MODULE AccountsProofs ---------------------------
(***************************************************************************)
(* The bank of the workload, for any number of workers, of accounts,       *)
(* any balance and any number of transactions: no money is lost, segments  *)
(* stay filled, and over an atomic memory no worker reports an error.      *)
(* The sums of a bank are related to those of the bank after each operation*)
(* by the lemmas on sums; AccountsInv says in addition where workers can be*)
(* in a round, what they have left to do, and that the counter is the sum  *)
(* of it.                                                                  *)
(***************************************************************************)
EXTENDS Accounts, InductionTheorems, SequenceTheorems

\* Banks, and their sums as functions of the bank alone.
Segments == [parity : Int, accounts : Seq(Nat)]
Banks    == Seq(Segments)

SizesOf(b) == [m \in DOMAIN b |-> Len(b[m].accounts)]
HeldOf(b)  == [m \in DOMAIN b |-> Held(b[m])]
TotalOf(b) == SumFunctionOnSet(SizesOf(b), 1 .. Len(b))
MoneyOf(b) == SumFunctionOnSet(HeldOf(b), 1 .. Len(b))

\* The balances of a segment, and their sum: ...
LEMMA BalancesType ==
  ASSUME NEW a \in Seq(Nat)
  PROVE  /\ Len(a) \in Nat /\ DOMAIN a = 1 .. Len(a) /\ IsFiniteSet(1 .. Len(a))
         /\ \A i \in 1 .. Len(a) : a[i] \in Nat /\ a[i] \in Int
         /\ SumFunction(a) = SumFunctionOnSet(a, 1 .. Len(a)) /\ SumFunction(a) \in Int
<1>1. Len(a) \in Nat /\ DOMAIN a = 1 .. Len(a)
  BY LenProperties
<1>2. IsFiniteSet(1 .. Len(a))
  BY <1>1, FS_Interval
<1>3. \A i \in 1 .. Len(a) : a[i] \in Nat /\ a[i] \in Int
  BY ElementOfSeq
<1>4. SumFunction(a) = SumFunctionOnSet(a, 1 .. Len(a))
  BY <1>1, Zenon DEF SumFunction
<1>5. SumFunctionOnSet(a, 1 .. Len(a)) \in Int
  BY <1>2, <1>3, SumType
<1> QED BY <1>1, <1>2, <1>3, <1>4, <1>5

Replaced(f, i, new) == [f EXCEPT ![i] = new]

\* ... when one of them changes, ...
LEMMA BalanceReplaced ==
  ASSUME NEW a, a \in Seq(Nat), NEW k, k \in 1 .. Len(a), NEW x, x \in Nat
  PROVE  /\ Replaced(a, k, x) \in Seq(Nat) /\ Len(Replaced(a, k, x)) = Len(a)
         /\ SumFunction(Replaced(a, k, x)) = SumFunction(a) - a[k] + x
<1> DEFINE c == Replaced(a, k, x)
<1>1. c \in Seq(Nat) /\ Len(c) = Len(a) /\ \A j \in 1 .. Len(a) : c[j] = IF j = k THEN x ELSE a[j]
  BY ExceptSeq DEF Replaced
<1> HIDE DEF c
<1>2. SumFunctionOnSet(c, 1 .. Len(a)) = SumFunctionOnSet(a, 1 .. Len(a)) - a[k] + c[k]
  <2>1. \A i \in 1 .. Len(a) : a[i] \in Int /\ c[i] \in Int /\ (i # k => a[i] = c[i])
    BY <1>1, BalancesType
  <2>2. Len(a) \in Nat
    BY BalancesType
  <2> QED BY ONLY <2>1, <2>2, k \in 1 .. Len(a), SumChangeUpTo
<1>3. SumFunction(c) = SumFunctionOnSet(c, 1 .. Len(a))
  BY <1>1, BalancesType
<1>4. SumFunction(c) = SumFunction(a) - a[k] + x
  BY <1>1, <1>2, <1>3, BalancesType
<1> QED BY <1>1, <1>4 DEF c

\* ... when an account is added, ...
LEMMA BalanceAppended ==
  ASSUME NEW a \in Seq(Nat), NEW x \in Nat
  PROVE  /\ Append(a, x) \in Seq(Nat) /\ Len(Append(a, x)) = Len(a) + 1
         /\ SumFunction(Append(a, x)) = SumFunction(a) + x
<1> DEFINE c == Append(a, x)
<1>1. /\ c \in Seq(Nat) /\ Len(c) = Len(a) + 1 /\ c[Len(a) + 1] = x
      /\ \A i \in 1 .. Len(a) : c[i] = a[i]
  BY AppendProperties
<1> HIDE DEF c
<1>2. Len(a) \in Nat /\ IsFiniteSet(1 .. Len(a))
  BY BalancesType
<1>3. SumFunction(c) = SumFunctionOnSet(c, 1 .. Len(a) + 1)
  BY <1>1, BalancesType
<1>4. SumFunctionOnSet(c, 1 .. Len(a) + 1) = SumFunctionOnSet(c, 1 .. Len(a)) + x
  <2>1. \A i \in 1 .. Len(a) + 1 : c[i] \in Int
    BY <1>1, BalancesType
  <2>2. SumFunctionOnSet(c, 1 .. Len(a) + 1)
          = SumFunctionOnSet(c, 1 .. (Len(a) + 1) - 1) + c[Len(a) + 1]
    BY <1>2, <2>1, SumUpTo
  <2>3. (Len(a) + 1) - 1 = Len(a)
    BY <1>2
  <2> QED BY <1>1, <2>2, <2>3
<1>5. SumFunctionOnSet(c, 1 .. Len(a)) = SumFunctionOnSet(a, 1 .. Len(a))
  BY <1>1, <1>2, SumSame
<1>6. SumFunction(c) = SumFunction(a) + x
  BY <1>3, <1>4, <1>5, BalancesType
<1> QED BY <1>1, <1>6 DEF c

\* ... and when the last one is taken away.
LEMMA BalanceDropped ==
  ASSUME NEW a \in Seq(Nat), Len(a) > 0
  PROVE  /\ Front(a) \in Seq(Nat) /\ Len(Front(a)) = Len(a) - 1 /\ Last(a) \in Nat
         /\ SumFunction(Front(a)) = SumFunction(a) - Last(a)
<1> DEFINE c == Front(a)
           n == Len(a) - 1
<1>1. Len(a) \in Nat /\ n \in Nat /\ IsFiniteSet(1 .. n)
  <2>1. Len(a) \in Nat /\ n \in Nat
    BY BalancesType
  <2> HIDE DEF n
  <2> QED BY <2>1, FS_Interval
<1>2. c \in Seq(Nat) /\ Len(c) = n /\ \A i \in 1 .. n : c[i] = a[i]
  <2>1. \A i \in 1 .. n : a[i] \in Nat
    BY BalancesType
  <2>2. /\ c \in Seq(Nat) /\ Len(c) = IF 1 <= n THEN n - 1 + 1 ELSE 0
        /\ \A i \in 1 .. n - 1 + 1 : c[i] = a[1 + i - 1]
    <3> HIDE DEF n
    <3>1. c = SubSeq(a, 1, n)
      BY DEF Front, n
    <3> HIDE DEF c
    <3> QED BY <1>1, <2>1, <3>1, SubSeqProperties
  <2> HIDE DEF c, n
  <2>3. n - 1 + 1 = n
    BY <1>1
  <2>4. ASSUME NEW i \in 1 .. n PROVE c[i] = a[i]
    <3>1. 1 + i - 1 = i
      OBVIOUS
    <3> QED BY ONLY <2>2, <2>3, <3>1, i \in 1 .. n, Zenon
  <2> QED BY <1>1, <2>2, <2>3, <2>4
<1> HIDE DEF c
<1>3. SumFunction(c) = SumFunctionOnSet(c, 1 .. Len(a) - 1)
  BY <1>2, BalancesType
<1>4. SumFunctionOnSet(c, 1 .. Len(a) - 1) = SumFunctionOnSet(a, 1 .. Len(a) - 1)
  BY <1>1, <1>2, SumSame
<1>5. SumFunctionOnSet(a, 1 .. Len(a)) = SumFunctionOnSet(a, 1 .. Len(a) - 1) + Last(a)
  BY <1>1, SumUpTo, BalancesType DEF Last
<1>6. Last(a) \in Nat /\ SumFunctionOnSet(a, 1 .. Len(a) - 1) \in Int
  BY <1>1, BalancesType, SumType DEF Last
<1>7. SumFunction(c) = SumFunction(a) - Last(a)
  BY <1>3, <1>4, <1>5, <1>6, BalancesType
<1> QED BY <1>2, <1>6, <1>7 DEF c

\* A bank has a number of segments, ...
LEMMA BankType ==
  ASSUME NEW b \in Banks
  PROVE  Len(b) \in Nat /\ DOMAIN b = 1 .. Len(b) /\ IsFiniteSet(1 .. Len(b))
<1>1. Len(b) \in Nat /\ DOMAIN b = 1 .. Len(b)
  BY LenProperties DEF Banks
<1> QED BY <1>1, FS_Interval

\* ... each of them has a number of accounts and an amount of money, ...
LEMMA SegmentType ==
  ASSUME NEW b \in Banks, NEW m \in 1 .. Len(b)
  PROVE  /\ b[m] \in Segments /\ b[m].parity \in Int /\ b[m].accounts \in Seq(Nat)
         /\ Len(b[m].accounts) \in Nat /\ Held(b[m]) \in Int
         /\ SizesOf(b)[m] = Len(b[m].accounts) /\ HeldOf(b)[m] = Held(b[m])
         /\ SizesOf(b)[m] \in Nat /\ SizesOf(b)[m] \in Int /\ HeldOf(b)[m] \in Int
<1>1. b[m] \in Segments
  BY ElementOfSeq DEF Banks
<1>2. b[m].parity \in Int /\ b[m].accounts \in Seq(Nat)
  BY <1>1 DEF Segments
<1>3. Len(b[m].accounts) \in Nat /\ SumFunction(b[m].accounts) \in Int
  BY <1>2, BalancesType
<1>4. Held(b[m]) \in Int
  BY <1>2, <1>3 DEF Held
<1>5. m \in DOMAIN b
  BY BankType
<1>6. SizesOf(b)[m] = Len(b[m].accounts) /\ HeldOf(b)[m] = Held(b[m])
  BY <1>5, Zenon DEF SizesOf, HeldOf
<1> QED BY ONLY <1>1, <1>2, <1>3, <1>4, <1>6

\* ... and so has the bank.
LEMMA TotalsType ==
  ASSUME NEW b \in Banks
  PROVE  /\ MoneyOf(b) \in Int /\ TotalOf(b) \in Nat
         /\ \A k \in 0 .. Len(b) : SumFunctionOnSet(SizesOf(b), 1 .. k) \in Nat
<1>1. MoneyOf(b) \in Int
  BY BankType, SegmentType, SumType DEF MoneyOf
<1>2. ASSUME NEW k \in 0 .. Len(b)
      PROVE  SumFunctionOnSet(SizesOf(b), 1 .. k) \in Nat
  <2>1. Len(b) \in Nat /\ \A m \in 1 .. Len(b) : SizesOf(b)[m] \in Nat
    BY BankType, SegmentType
  <2>2. IsFiniteSet(1 .. k) /\ \A m \in 1 .. k : SizesOf(b)[m] \in Nat
    BY <2>1, FS_Interval
  <2> QED BY <2>2, SumNat
<1>3. Len(b) \in 0 .. Len(b)
  BY BankType
<1> QED BY <1>1, <1>2, <1>3 DEF TotalOf

\* Two banks that agree at a segment.
LEMMA SameSegment ==
  ASSUME NEW b \in Banks, NEW c \in Banks, NEW m \in 1 .. Len(b), m \in 1 .. Len(c),
         b[m] = c[m]
  PROVE  HeldOf(b)[m] = HeldOf(c)[m] /\ SizesOf(b)[m] = SizesOf(c)[m]
<1>1. HeldOf(b)[m] = Held(b[m]) /\ SizesOf(b)[m] = Len(b[m].accounts)
  BY SegmentType
<1>2. HeldOf(c)[m] = Held(c[m]) /\ SizesOf(c)[m] = Len(c[m].accounts)
  BY SegmentType
<1> QED BY ONLY <1>1, <1>2, b[m] = c[m], Zenon

\* Two banks that differ in one segment.
LEMMA OtherSegment ==
  ASSUME NEW b, b \in Banks, NEW c, c \in Banks, Len(c) = Len(b), NEW h, h \in 1 .. Len(b),
         \A m \in 1 .. Len(b) : m # h => c[m] = b[m]
  PROVE  /\ MoneyOf(c) = MoneyOf(b) - Held(b[h]) + Held(c[h])
         /\ TotalOf(c) = TotalOf(b) - Len(b[h].accounts) + Len(c[h].accounts)
<1>1. ASSUME NEW m \in 1 .. Len(b)
      PROVE  /\ HeldOf(b)[m] \in Int /\ HeldOf(c)[m] \in Int
             /\ SizesOf(b)[m] \in Int /\ SizesOf(c)[m] \in Int
             /\ m # h => HeldOf(b)[m] = HeldOf(c)[m] /\ SizesOf(b)[m] = SizesOf(c)[m]
  <2>1. c \in Banks /\ m \in 1 .. Len(c)
    OBVIOUS
  <2>2. HeldOf(b)[m] \in Int /\ SizesOf(b)[m] \in Int
    BY SegmentType
  <2>3. HeldOf(c)[m] \in Int /\ SizesOf(c)[m] \in Int
    BY ONLY <2>1, SegmentType
  <2>4. m # h => HeldOf(b)[m] = HeldOf(c)[m] /\ SizesOf(b)[m] = SizesOf(c)[m]
    BY <2>1, SameSegment
  <2> QED BY ONLY <2>2, <2>3, <2>4
<1>2. /\ HeldOf(b)[h] = Held(b[h]) /\ HeldOf(c)[h] = Held(c[h])
      /\ SizesOf(b)[h] = Len(b[h].accounts) /\ SizesOf(c)[h] = Len(c[h].accounts)
  BY SegmentType
<1> DEFINE I == 1 .. Len(b)
<1>3. IsFiniteSet(I) /\ h \in I
  BY BankType
<1>4. MoneyOf(c) = MoneyOf(b) - Held(b[h]) + Held(c[h])
  <2> PICK f, g : f = HeldOf(b) /\ g = HeldOf(c)
    OBVIOUS
  <2>2. \A m \in I : f[m] \in Int /\ g[m] \in Int /\ (m # h => f[m] = g[m])
    BY <1>1
  <2> HIDE DEF I
  <2>1. SumFunctionOnSet(g, I) = SumFunctionOnSet(f, I) - f[h] + g[h]
    BY ONLY <1>3, <2>2, SumChange
  <2>3. MoneyOf(b) = SumFunctionOnSet(f, I) /\ MoneyOf(c) = SumFunctionOnSet(g, I)
    BY Zenon DEF MoneyOf, I
  <2> QED BY ONLY <1>2, <2>1, <2>3, f = HeldOf(b) /\ g = HeldOf(c), Zenon
<1>5. TotalOf(c) = TotalOf(b) - Len(b[h].accounts) + Len(c[h].accounts)
  <2> PICK f, g : f = SizesOf(b) /\ g = SizesOf(c)
    OBVIOUS
  <2>2. \A m \in I : f[m] \in Int /\ g[m] \in Int /\ (m # h => f[m] = g[m])
    BY <1>1
  <2> HIDE DEF I
  <2>1. SumFunctionOnSet(g, I) = SumFunctionOnSet(f, I) - f[h] + g[h]
    BY ONLY <1>3, <2>2, SumChange
  <2>3. TotalOf(b) = SumFunctionOnSet(f, I) /\ TotalOf(c) = SumFunctionOnSet(g, I)
    BY Zenon DEF TotalOf, I
  <2> QED BY ONLY <1>2, <2>1, <2>3, f = SizesOf(b) /\ g = SizesOf(c), Zenon
<1> QED BY <1>4, <1>5

\* The sums of a bank when a segment changes, ...
LEMMA SegmentReplaced ==
  ASSUME NEW b, b \in Banks, NEW h, h \in 1 .. Len(b), NEW new, new \in Segments
  PROVE  /\ Replaced(b, h, new) \in Banks /\ Len(Replaced(b, h, new)) = Len(b)
         /\ Replaced(b, h, new)[h] = new
         /\ \A m \in 1 .. Len(b) : m # h => Replaced(b, h, new)[m] = b[m]
         /\ MoneyOf(Replaced(b, h, new)) = MoneyOf(b) - Held(b[h]) + Held(new)
         /\ TotalOf(Replaced(b, h, new)) = TotalOf(b) - Len(b[h].accounts) + Len(new.accounts)
<1> DEFINE c == Replaced(b, h, new)
<1>1. /\ c \in Banks /\ Len(c) = Len(b) /\ c[h] = new
      /\ \A m \in 1 .. Len(b) : m # h => c[m] = b[m]
  BY ExceptSeq DEF Banks, Replaced
<1> HIDE DEF c
<1>2. /\ MoneyOf(c) = MoneyOf(b) - Held(b[h]) + Held(c[h])
      /\ TotalOf(c) = TotalOf(b) - Len(b[h].accounts) + Len(c[h].accounts)
  BY <1>1, OtherSegment
<1> QED BY ONLY <1>1, <1>2 DEF c

\* ... when the last one goes, ...
LEMMA SegmentDropped ==
  ASSUME NEW b \in Banks, Len(b) > 0
  PROVE  /\ Front(b) \in Banks /\ Len(Front(b)) = Len(b) - 1
         /\ \A m \in 1 .. Len(b) - 1 : Front(b)[m] = b[m]
         /\ MoneyOf(Front(b)) = MoneyOf(b) - Held(b[Len(b)])
         /\ TotalOf(Front(b)) = TotalOf(b) - Len(b[Len(b)].accounts)
<1> DEFINE c == Front(b)
           n == Len(b) - 1
<1>1. Len(b) \in Nat /\ n \in Nat /\ IsFiniteSet(1 .. n) /\ Len(b) \in 1 .. Len(b)
  BY BankType, FS_Interval
<1>2. c \in Banks /\ Len(c) = n /\ \A m \in 1 .. n : c[m] = b[m]
  <2>1. \A m \in 1 .. n : b[m] \in Segments
    BY SegmentType
  <2>2. /\ c \in Seq(Segments) /\ Len(c) = IF 1 <= n THEN n - 1 + 1 ELSE 0
        /\ \A m \in 1 .. n - 1 + 1 : c[m] = b[1 + m - 1]
    <3> HIDE DEF n
    <3>1. c = SubSeq(b, 1, n)
      BY DEF Front, n
    <3> HIDE DEF c
    <3> QED BY <1>1, <2>1, <3>1, SubSeqProperties
  <2> HIDE DEF c, n
  <2>3. n - 1 + 1 = n
    BY <1>1
  <2>4. ASSUME NEW m \in 1 .. n PROVE c[m] = b[m]
    <3>1. 1 + m - 1 = m
      OBVIOUS
    <3> QED BY ONLY <2>2, <2>3, <3>1, m \in 1 .. n, Zenon
  <2> QED BY <1>1, <2>2, <2>3, <2>4 DEF Banks
<1> HIDE DEF c
<1>3. \A m \in 1 .. n : HeldOf(c)[m] = HeldOf(b)[m] /\ SizesOf(c)[m] = SizesOf(b)[m]
  <2>1. \A m \in 1 .. n : m \in 1 .. Len(b) /\ m \in 1 .. Len(c)
    BY <1>1, <1>2
  <2> QED BY <1>2, <2>1, SameSegment
<1>4. \A m \in 1 .. Len(b) : HeldOf(b)[m] \in Int /\ SizesOf(b)[m] \in Int
  BY SegmentType
<1>5. MoneyOf(c) = MoneyOf(b) - Held(b[Len(b)])
  <2>1. SumFunctionOnSet(HeldOf(c), 1 .. n) = SumFunctionOnSet(HeldOf(b), 1 .. n)
    BY <1>1, <1>3, SumSame
  <2>2. SumFunctionOnSet(HeldOf(b), 1 .. Len(b))
          = SumFunctionOnSet(HeldOf(b), 1 .. n) + HeldOf(b)[Len(b)]
    BY <1>1, <1>4, SumUpTo
  <2>3. HeldOf(b)[Len(b)] = Held(b[Len(b)]) /\ Held(b[Len(b)]) \in Int /\ MoneyOf(c) \in Int
    BY <1>1, <1>2, SegmentType, TotalsType
  <2> QED BY <1>2, <2>1, <2>2, <2>3 DEF MoneyOf
<1>6. TotalOf(c) = TotalOf(b) - Len(b[Len(b)].accounts)
  <2>1. SumFunctionOnSet(SizesOf(c), 1 .. n) = SumFunctionOnSet(SizesOf(b), 1 .. n)
    BY <1>1, <1>3, SumSame
  <2>2. SumFunctionOnSet(SizesOf(b), 1 .. Len(b))
          = SumFunctionOnSet(SizesOf(b), 1 .. n) + SizesOf(b)[Len(b)]
    BY <1>1, <1>4, SumUpTo
  <2>3. /\ SizesOf(b)[Len(b)] = Len(b[Len(b)].accounts)
        /\ Len(b[Len(b)].accounts) \in Nat /\ TotalOf(c) \in Nat
    BY <1>1, <1>2, SegmentType, TotalsType
  <2> QED BY <1>2, <2>1, <2>2, <2>3 DEF TotalOf
<1> QED BY <1>2, <1>5, <1>6 DEF c

\* ... and when one is added.
LEMMA SegmentAppended ==
  ASSUME NEW b \in Banks, NEW new \in Segments
  PROVE  /\ Append(b, new) \in Banks /\ Len(Append(b, new)) = Len(b) + 1
         /\ \A m \in 1 .. Len(b) : Append(b, new)[m] = b[m]
         /\ Append(b, new)[Len(b) + 1] = new
         /\ MoneyOf(Append(b, new)) = MoneyOf(b) + Held(new)
         /\ TotalOf(Append(b, new)) = TotalOf(b) + Len(new.accounts)
<1> DEFINE c == Append(b, new)
<1>1. /\ c \in Banks /\ Len(c) = Len(b) + 1 /\ c[Len(b) + 1] = new
      /\ \A m \in 1 .. Len(b) : c[m] = b[m]
  BY AppendProperties DEF Banks
<1> HIDE DEF c
<1>2. Len(c) > 0 /\ Len(c) - 1 = Len(b) /\ Len(b) \in Nat
  BY <1>1, BankType
<1>3. /\ Front(c) \in Banks /\ Len(Front(c)) = Len(b)
      /\ \A m \in 1 .. Len(b) : Front(c)[m] = b[m]
      /\ MoneyOf(Front(c)) = MoneyOf(c) - Held(new)
      /\ TotalOf(Front(c)) = TotalOf(c) - Len(new.accounts)
  BY <1>1, <1>2, SegmentDropped
<1>4. Front(c) = b
  BY <1>3, SeqEqual DEF Banks
<1>5. /\ Held(new) \in Int /\ Len(new.accounts) \in Nat
      /\ MoneyOf(c) \in Int /\ TotalOf(c) \in Int
  <2>1. PICK n : n = Len(b) + 1
    OBVIOUS
  <2>2. c \in Banks /\ n \in 1 .. Len(c) /\ c[n] = new
    BY <1>1, <1>2, <2>1
  <2>3. Held(c[n]) \in Int /\ Len(c[n].accounts) \in Nat
    BY ONLY <2>2, SegmentType
  <2>4. MoneyOf(c) \in Int /\ TotalOf(c) \in Nat
    BY ONLY <2>2, TotalsType
  <2> QED BY ONLY <2>2, <2>3, <2>4
<1>6. MoneyOf(c) = MoneyOf(b) + Held(new) /\ TotalOf(c) = TotalOf(b) + Len(new.accounts)
  BY <1>3, <1>4, <1>5
<1> QED BY <1>1, <1>6 DEF c
-----------------------------------------------------------------------------
\* What the state says of its bank is what the sums above say of it.
LEMMA SumsOfBank ==
  ASSUME bank \in Banks
  PROVE  Sizes = SizesOf(bank) /\ Total = TotalOf(bank) /\ Money = MoneyOf(bank)
<1>1. Sizes = SizesOf(bank)
  BY Zenon DEF Sizes, SizesOf
<1>2. Total = TotalOf(bank)
  BY <1>1, Zenon DEF Total, Before, TotalOf
<1>3. DOMAIN HeldOf(bank) = 1 .. Len(bank)
  <2>1. DOMAIN HeldOf(bank) = DOMAIN bank
    BY Zenon DEF HeldOf
  <2> QED BY <2>1, BankType
<1>4. Money = SumFunction(HeldOf(bank))
  BY Zenon DEF Money, HeldOf
<1>5. Money = MoneyOf(bank)
  BY <1>3, <1>4, Zenon DEF SumFunction, MoneyOf
<1> QED BY <1>1, <1>2, <1>5

\* The least element, of numbers.
LEMMA MinIs ==
  ASSUME NEW T \in SUBSET Nat, T # {}
  PROVE  Min(T) \in T /\ \A n \in T : Min(T) <= n
BY LeastNat DEF Min

\* At least so many accounts stay.
Least == Min({NbAccounts, 2})

\* The parts of SegmentsFilled and BankAddsUp, of any bank.
Filled(b) ==
    /\ Len(b) > 0
    /\ \A m \in 1 .. Len(b) - 1 : Len(b[m].accounts) = NbAccounts
    /\ Len(b[Len(b)].accounts) \in 1 .. NbAccounts
    /\ TotalOf(b) >= Least

AddsUp(b) == MoneyOf(b) = InitBalance * TotalOf(b)

LEMMA LeastType == Least \in Nat \ {0} /\ Least <= 2 /\ Least <= NbAccounts
BY MinIs, AccountsAssumption DEF Least

\* Times is applied to integers only.
LEMMA OneMore ==
  ASSUME NEW n \in Nat
  PROVE  /\ InitBalance * (n + 1) = InitBalance * n + InitBalance
         /\ n > 0 => InitBalance * (n - 1) = InitBalance * n - InitBalance
         /\ InitBalance * n \in Int /\ InitBalance * 0 = 0
BY AccountsAssumption

\* alloc_tx, adding an account: to the last segment, or as a new one.
LEMMA AddedKept ==
  ASSUME bank \in Banks, Filled(bank), AddsUp(bank)
  PROVE  Added \in Banks /\ Filled(Added) /\ AddsUp(Added)
<1> DEFINE n == Len(bank)
           seg == bank[n]
<1>1. /\ n \in Nat \ {0} /\ n \in 1 .. n /\ seg.parity \in Int /\ seg.accounts \in Seq(Nat)
      /\ Len(seg.accounts) \in Nat /\ Held(seg) \in Int /\ seg \in Segments
  BY BankType, SegmentType DEF Filled
<1>2. MoneyOf(bank) \in Int /\ TotalOf(bank) \in Nat
  BY TotalsType
<1>3. InitBalance \in Nat /\ NbAccounts \in Nat \ {0}
  BY AccountsAssumption
<1>4. CASE HasRoom
  <2> DEFINE new == [seg EXCEPT !.accounts = Append(@, InitBalance)]
  <2>1. Added = Replaced(bank, n, new) /\ Len(seg.accounts) < NbAccounts
    BY <1>4 DEF Added, HasRoom, Last, Replaced
  <2>2. /\ new.parity = seg.parity /\ new.accounts = Append(seg.accounts, InitBalance)
        /\ new \in Segments
    BY <1>1, <1>3, BalanceAppended DEF Segments
  <2>3. Held(new) = Held(seg) + InitBalance /\ Len(new.accounts) = Len(seg.accounts) + 1
    <3>1. /\ SumFunction(new.accounts) = SumFunction(seg.accounts) + InitBalance
          /\ Len(new.accounts) = Len(seg.accounts) + 1 /\ SumFunction(seg.accounts) \in Int
      BY <1>1, <1>3, <2>2, BalanceAppended, BalancesType
    <3> HIDE DEF new, seg
    <3> QED BY <1>1, <1>3, <2>2, <3>1 DEF Held
  <2> HIDE DEF new
  <2>4. /\ Added \in Banks /\ Len(Added) = n /\ Added[n] = new
        /\ \A m \in 1 .. n : m # n => Added[m] = bank[m]
        /\ MoneyOf(Added) = MoneyOf(bank) - Held(seg) + Held(new)
        /\ TotalOf(Added) = TotalOf(bank) - Len(seg.accounts) + Len(new.accounts)
    <3>1. bank \in Banks /\ n \in 1 .. Len(bank) /\ new \in Segments
      BY <1>1, <2>2
    <3>2. Added \in Banks /\ Len(Added) = n /\ Added[n] = new
      BY ONLY <2>1, <3>1, SegmentReplaced
    <3>3. \A m \in 1 .. n : m # n => Added[m] = bank[m]
      BY ONLY <2>1, <3>1, SegmentReplaced
    <3>4. MoneyOf(Added) = MoneyOf(bank) - Held(seg) + Held(new)
      BY ONLY <2>1, <3>1, SegmentReplaced
    <3>5. TotalOf(Added) = TotalOf(bank) - Len(seg.accounts) + Len(new.accounts)
      BY ONLY <2>1, <3>1, SegmentReplaced
    <3> QED BY <3>2, <3>3, <3>4, <3>5
  <2> HIDE DEF n, seg
  <2>5. MoneyOf(Added) = MoneyOf(bank) + InitBalance /\ TotalOf(Added) = TotalOf(bank) + 1
    BY <1>1, <1>2, <1>3, <2>3, <2>4
  <2>6. AddsUp(Added)
    BY <1>2, <2>5, OneMore DEF AddsUp
  <2>7. Filled(Added)
    <3>1. \A m \in 1 .. n - 1 : Len(Added[m].accounts) = NbAccounts
      BY <1>1, <2>4 DEF Filled, n
    <3>2. Len(Added[n].accounts) \in 1 .. NbAccounts
      BY <1>1, <1>3, <2>1, <2>3, <2>4
    <3>3. TotalOf(Added) >= Least
      BY <1>2, <2>5, LeastType DEF Filled
    <3> QED BY <1>1, <2>4, <3>1, <3>2, <3>3 DEF Filled
  <2> QED BY <2>4, <2>6, <2>7
<1>5. CASE ~HasRoom
  <2> DEFINE new == [parity |-> 0, accounts |-> <<InitBalance>>]
  <2>1. Added = Append(bank, new) /\ Len(seg.accounts) = NbAccounts
    BY <1>1, <1>3, <1>5 DEF Added, HasRoom, Last, Filled
  <2>2. new \in Segments /\ new.parity = 0 /\ new.accounts = <<InitBalance>>
    BY <1>3 DEF Segments
  <2>3. Held(new) = InitBalance /\ Len(new.accounts) = 1
    <3>1. SumFunction(Append(<< >>, InitBalance)) = SumFunction(<< >>) + InitBalance
      BY <1>3, EmptySeq, BalanceAppended
    <3>2. SumFunction(<< >>) = 0
      <4>1. DOMAIN << >> = {}
        OBVIOUS
      <4> QED BY <4>1, SumEmpty DEF SumFunction
    <3>3. Append(<< >>, InitBalance) = <<InitBalance>>
      OBVIOUS
    <3> HIDE DEF new
    <3> QED BY <1>3, <2>2, <3>1, <3>2, <3>3 DEF Held
  <2> HIDE DEF new
  <2>4. /\ Added \in Banks /\ Len(Added) = n + 1 /\ Added[n + 1] = new
        /\ \A m \in 1 .. n : Added[m] = bank[m]
        /\ MoneyOf(Added) = MoneyOf(bank) + Held(new)
        /\ TotalOf(Added) = TotalOf(bank) + Len(new.accounts)
    BY <2>1, <2>2, SegmentAppended
  <2> HIDE DEF n, seg
  <2>5. MoneyOf(Added) = MoneyOf(bank) + InitBalance /\ TotalOf(Added) = TotalOf(bank) + 1
    BY <1>2, <1>3, <2>3, <2>4
  <2>6. AddsUp(Added)
    BY <1>2, <2>5, OneMore DEF AddsUp
  <2>7. Filled(Added)
    <3>1. \A m \in 1 .. n : Len(bank[m].accounts) = NbAccounts
      BY <1>1, <2>1 DEF Filled, n, seg
    <3>2. (n + 1) - 1 = n /\ n + 1 > 0
      BY <1>1
    <3>3. \A m \in 1 .. (n + 1) - 1 : Len(Added[m].accounts) = NbAccounts
      <4>1. ASSUME NEW m \in 1 .. n PROVE Len(Added[m].accounts) = NbAccounts
        <5>1. Added[m] = bank[m] /\ Len(bank[m].accounts) = NbAccounts
          BY <2>4, <3>1
        <5> QED BY ONLY <5>1, Zenon
      <4> QED BY <3>2, <4>1, Zenon
    <3>4. Len(Added[n + 1].accounts) \in 1 .. NbAccounts
      <4>1. Len(Added[n + 1].accounts) = 1
        BY ONLY <2>3, <2>4, Zenon
      <4> QED BY ONLY <1>3, <4>1
    <3>5. TotalOf(Added) >= Least
      BY <1>2, <2>5, LeastType DEF Filled
    <3> QED BY <2>4, <3>2, <3>3, <3>4, <3>5 DEF Filled
  <2> QED BY <2>4, <2>6, <2>7
<1> QED BY <1>4, <1>5

\* What goes with the last account of a segment is in its correction.
LEMMA AccountTaken ==
  ASSUME NEW seg, seg \in Segments, Len(seg.accounts) > 0
  PROVE  /\ Correction(seg) \in Int
         /\ Correction(seg) + SumFunction(Front(seg.accounts)) = Held(seg) - InitBalance
         /\ Len(seg.accounts) = 1 => Held(seg) = Correction(seg) + InitBalance
<1> DEFINE a == seg.accounts
<1>1. a \in Seq(Nat) /\ seg.parity \in Int /\ Len(a) > 0
  BY DEF Segments
<1>2. /\ Front(a) \in Seq(Nat) /\ Last(a) \in Nat /\ Len(Front(a)) = Len(a) - 1
      /\ SumFunction(Front(a)) = SumFunction(a) - Last(a)
  <2> HIDE DEF a
  <2> QED BY <1>1, BalanceDropped
<1>3. SumFunction(a) \in Int /\ InitBalance \in Nat
  <2> HIDE DEF a
  <2> QED BY <1>1, BalancesType, AccountsAssumption
<1>4. /\ Correction(seg) = seg.parity + Last(a) - InitBalance
      /\ Held(seg) = seg.parity + SumFunction(a)
  BY DEF Correction, Held
<1>5. Len(a) = 1 => SumFunction(Front(a)) = 0
  <2> SUFFICES ASSUME Len(a) = 1 PROVE SumFunction(Front(a)) = 0
    OBVIOUS
  <2>1. Len(Front(a)) = 0
    BY ONLY <1>2, Len(a) = 1
  <2>2. SumFunction(Front(a)) = SumFunctionOnSet(Front(a), 1 .. 0)
    BY ONLY <1>2, <2>1, BalancesType
  <2>3. 1 .. 0 = {}
    OBVIOUS
  <2> QED BY ONLY <2>2, <2>3, SumEmpty, Zenon
<1> HIDE DEF a
<1>6. Correction(seg) \in Int
  BY ONLY <1>1, <1>2, <1>3, <1>4
<1>7. Correction(seg) + SumFunction(Front(a)) = Held(seg) - InitBalance
  BY ONLY <1>1, <1>2, <1>3, <1>4
<1>8. Len(a) = 1 => Held(seg) = Correction(seg) + InitBalance
  BY ONLY <1>1, <1>3, <1>5, <1>6, <1>7, <1>4
<1> QED BY <1>6, <1>7, <1>8 DEF a

\* alloc_tx, taking one away: from the last segment, or with it.
LEMMA RemovedKept ==
  ASSUME bank \in Banks, Filled(bank), AddsUp(bank), TotalOf(bank) > 2
  PROVE  Removed \in Banks /\ Filled(Removed) /\ AddsUp(Removed)
<1> DEFINE n == Len(bank)
           seg == bank[n]
<1>1. /\ n \in Nat \ {0} /\ n \in 1 .. n /\ seg \in Segments /\ Held(seg) \in Int
      /\ Len(seg.accounts) \in 1 .. NbAccounts /\ seg = Last(bank)
      /\ seg.parity \in Int /\ seg.accounts \in Seq(Nat)
  BY BankType, SegmentType DEF Filled, Last
<1>2. MoneyOf(bank) \in Int /\ TotalOf(bank) \in Nat
  BY TotalsType
<1>3. InitBalance \in Nat /\ NbAccounts \in Nat \ {0}
  BY AccountsAssumption
<1>4. CASE Len(seg.accounts) > 1
  <2> DEFINE new == [parity |-> Correction(seg), accounts |-> Front(seg.accounts)]
  <2>1. Removed = Replaced(bank, n, new)
    BY <1>1, <1>4 DEF Removed, Replaced
  <2>2. /\ Correction(seg) \in Int
        /\ Correction(seg) + SumFunction(Front(seg.accounts)) = Held(seg) - InitBalance
    <3> HIDE DEF n, seg
    <3> QED BY <1>1, <1>4, AccountTaken
  <2>3. Front(seg.accounts) \in Seq(Nat) /\ Len(Front(seg.accounts)) = Len(seg.accounts) - 1
    <3> HIDE DEF n, seg
    <3>1. PICK a \in Seq(Nat) : a = seg.accounts
      BY <1>1
    <3>2. Len(a) > 0
      BY ONLY <1>4, <3>1
    <3> QED BY ONLY <3>1, <3>2, BalanceDropped
  <2>4. /\ new \in Segments /\ Held(new) = Held(seg) - InitBalance
        /\ Len(new.accounts) = Len(seg.accounts) - 1
    BY <2>2, <2>3 DEF Segments, Held
  <2> HIDE DEF new
  <2>5. bank \in Banks /\ n \in 1 .. Len(bank) /\ new \in Segments
    BY <1>1, <2>4
  <2>6. Removed \in Banks /\ Len(Removed) = n /\ Removed[n] = new
    BY ONLY <2>1, <2>5, SegmentReplaced
  <2>7. \A m \in 1 .. n : m # n => Removed[m] = bank[m]
    BY ONLY <2>1, <2>5, SegmentReplaced
  <2>8. MoneyOf(Removed) = MoneyOf(bank) - Held(seg) + Held(new)
    BY ONLY <2>1, <2>5, SegmentReplaced
  <2>9. TotalOf(Removed) = TotalOf(bank) - Len(seg.accounts) + Len(new.accounts)
    BY ONLY <2>1, <2>5, SegmentReplaced
  <2> HIDE DEF n, seg
  <2>10. MoneyOf(Removed) = MoneyOf(bank) - InitBalance /\ TotalOf(Removed) = TotalOf(bank) - 1
    <3>1. /\ MoneyOf(bank) \in Int /\ TotalOf(bank) \in Int
          /\ Held(seg) \in Int /\ Len(seg.accounts) \in Int
      BY <1>1, <1>2
    <3>2. MoneyOf(Removed) = MoneyOf(bank) - InitBalance
      BY ONLY <1>3, <2>4, <2>8, <3>1
    <3>3. TotalOf(Removed) = TotalOf(bank) - 1
      BY ONLY <2>4, <2>9, <3>1
    <3> QED BY ONLY <3>2, <3>3
  <2>11. AddsUp(Removed)
    BY <1>2, <2>10, OneMore DEF AddsUp
  <2>12. Filled(Removed)
    <3>1. \A m \in 1 .. n - 1 : Len(Removed[m].accounts) = NbAccounts
      <4>1. ASSUME NEW m, m \in 1 .. n - 1 PROVE Len(Removed[m].accounts) = NbAccounts
        <5>1. m \in 1 .. n /\ m # n
          BY ONLY <1>1, <4>1
        <5>2. Removed[m] = bank[m]
          BY ONLY <2>7, <5>1, Zenon
        <5>3. Len(bank[m].accounts) = NbAccounts
          BY <4>1, Zenon DEF Filled, n
        <5> QED BY ONLY <5>2, <5>3, Zenon
      <4> QED BY ONLY <4>1, Zenon
    <3>2. Len(Removed[n].accounts) \in 1 .. NbAccounts
      <4>1. Len(Removed[n].accounts) = Len(seg.accounts) - 1
        BY ONLY <2>4, <2>6, Zenon
      <4> QED BY ONLY <1>1, <1>3, <1>4, <4>1
    <3>3. TotalOf(Removed) >= Least
      BY <1>2, <2>10, LeastType
    <3> QED BY <1>1, <2>6, <3>1, <3>2, <3>3 DEF Filled
  <2> QED BY <2>6, <2>11, <2>12
<1>5. CASE Len(seg.accounts) = 1
  <2> DEFINE f == Front(bank)
             old == f[n - 1]
             new == [old EXCEPT !.parity = @ + Correction(seg)]
  <2>1. Len(seg.accounts) = 1 /\ Len(seg.accounts) > 0
    BY <1>5
  <2>2. f \in Banks /\ Len(f) = n - 1
    BY <1>1, SegmentDropped
  <2>3. \A m \in 1 .. n - 1 : f[m] = bank[m]
    BY <1>1, SegmentDropped
  <2>4. MoneyOf(f) = MoneyOf(bank) - Held(seg)
    BY <1>1, SegmentDropped
  <2>5. TotalOf(f) = TotalOf(bank) - 1
    <3>1. TotalOf(f) = TotalOf(bank) - Len(seg.accounts)
      BY <1>1, SegmentDropped
    <3> QED BY ONLY <2>1, <3>1
  <2>6. Removed = Replaced(f, n - 1, new)
    BY <1>1, <1>5 DEF Removed, Replaced
  <2> HIDE DEF f
  <2>7. n > 1
    <3>1. ASSUME n = 1 PROVE FALSE
      <4>1. Len(f) = 0
        BY <2>2, <3>1
      <4>2. TotalOf(f) = SumFunctionOnSet(SizesOf(f), 1 .. 0)
        BY ONLY <4>1, Zenon DEF TotalOf
      <4>3. 1 .. 0 = {}
        OBVIOUS
      <4>4. TotalOf(f) = 0
        BY ONLY <4>2, <4>3, SumEmpty, Zenon
      <4> QED BY ONLY <1>2, <2>5, <4>4, TotalOf(bank) > 2
    <3> HIDE DEF n, seg
    <3> QED BY <1>1, <3>1
  <2>8. /\ n - 1 \in 1 .. Len(f) /\ old \in Segments /\ old.parity \in Int
        /\ old.accounts \in Seq(Nat) /\ Held(old) \in Int /\ Len(old.accounts) = NbAccounts
    <3>1. n - 1 \in 1 .. Len(f)
      BY <1>1, <2>2, <2>7
    <3>2. old = bank[n - 1] /\ Len(bank[n - 1].accounts) = NbAccounts
      BY <1>1, <2>3, <2>7 DEF Filled
    <3>3. /\ old \in Segments /\ old.parity \in Int
          /\ old.accounts \in Seq(Nat) /\ Held(old) \in Int
      BY ONLY <2>2, <3>1, SegmentType
    <3> QED BY <3>1, <3>2, <3>3
  <2>9. Correction(seg) \in Int /\ Held(seg) = Correction(seg) + InitBalance
    <3> HIDE DEF n, seg
    <3> QED BY ONLY <1>1, <2>1, AccountTaken
  <2> HIDE DEF old
  <2>10. /\ new \in Segments /\ new.accounts = old.accounts
         /\ new.parity = old.parity + Correction(seg)
    <3>1. PICK p : p = old.parity + Correction(seg)
      OBVIOUS
    <3>2. p \in Int
      BY ONLY <2>8, <2>9, <3>1
    <3>3. new = [old EXCEPT !.parity = p]
      BY ONLY <3>1, Zenon DEF new
    <3> HIDE DEF new
    <3>4. new \in Segments /\ new.accounts = old.accounts /\ new.parity = p
      BY ONLY <2>8, <3>2, <3>3 DEF Segments
    <3> QED BY ONLY <3>1, <3>4
  <2> HIDE DEF new
  <2>11. Held(new) = Held(old) + Correction(seg)
    <3>1. SumFunction(old.accounts) \in Int
      BY ONLY <2>8, BalancesType
    <3> QED BY ONLY <2>8, <2>9, <2>10, <3>1 DEF Held
  <2>12. PICK h : h = n - 1
    OBVIOUS
  <2>13. f \in Banks /\ h \in 1 .. Len(f) /\ new \in Segments /\ Removed = Replaced(f, h, new)
         /\ f[h] = old
    BY <2>2, <2>6, <2>8, <2>10, <2>12 DEF old
  <2>14. Removed \in Banks /\ Len(Removed) = Len(f) /\ Removed[h] = new
    BY ONLY <2>13, SegmentReplaced
  <2>15. \A m \in 1 .. Len(f) : m # h => Removed[m] = f[m]
    BY ONLY <2>13, SegmentReplaced
  <2>16. MoneyOf(Removed) = MoneyOf(f) - Held(old) + Held(new)
    BY ONLY <2>13, SegmentReplaced
  <2>17. TotalOf(Removed) = TotalOf(f) - Len(old.accounts) + Len(new.accounts)
    BY ONLY <2>13, SegmentReplaced
  <2> HIDE DEF n, seg
  <2>18. MoneyOf(Removed) = MoneyOf(bank) - InitBalance /\ TotalOf(Removed) = TotalOf(bank) - 1
    <3>1. Len(new.accounts) = Len(old.accounts)
      BY ONLY <2>10, Zenon
    <3> QED BY ONLY <1>1, <1>2, <1>3, <2>4, <2>5, <2>8, <2>9, <2>11, <2>16, <2>17, <3>1
  <2>19. AddsUp(Removed)
    BY <1>2, <2>18, OneMore DEF AddsUp
  <2>20. Filled(Removed)
    <3>1. ASSUME NEW m \in 1 .. h - 1 PROVE Len(Removed[m].accounts) = NbAccounts
      <4>1. Removed[m] = f[m] /\ f[m] = bank[m]
        BY <1>1, <2>2, <2>3, <2>12, <2>15
      <4>2. Len(bank[m].accounts) = NbAccounts
        BY <1>1, <2>12 DEF Filled, n
      <4> QED BY ONLY <4>1, <4>2, Zenon
    <3>2. Len(Removed[h].accounts) = NbAccounts
      <4>1. Len(new.accounts) = NbAccounts
        BY ONLY <2>8, <2>10, Zenon
      <4> QED BY ONLY <2>14, <4>1, Zenon
    <3>3. TotalOf(Removed) >= Least
      BY <1>2, <2>18, LeastType
    <3>4. Len(Removed) = h /\ h > 0
      BY <1>1, <2>2, <2>7, <2>12, <2>14
    <3> QED BY <1>3, <3>1, <3>2, <3>3, <3>4 DEF Filled
  <2> QED BY <2>14, <2>19, <2>20
<1> HIDE DEF n, seg
<1>6. \A k \in 1 .. NbAccounts : k = 1 \/ k > 1
  BY <1>3
<1>7. Len(seg.accounts) = 1 \/ Len(seg.accounts) > 1
  BY ONLY <1>1, <1>6, Zenon
<1> QED BY ONLY <1>4, <1>5, <1>7
-----------------------------------------------------------------------------
\* Before grows from 0, ...
LEMMA BeforeIs ==
  ASSUME bank \in Banks
  PROVE  /\ Before(0) = 0 /\ Total = Before(Len(bank))
         /\ \A k \in 0 .. Len(bank) : Before(k) \in Nat
         /\ \A k \in 1 .. Len(bank) : Before(k) = Before(k - 1) + Len(bank[k].accounts)
<1>1. \A k : Before(k) = SumFunctionOnSet(SizesOf(bank), 1 .. k)
  BY SumsOfBank, Zenon DEF Before
<1>2. Before(0) = 0
  <2>1. 1 .. 0 = {}
    OBVIOUS
  <2> QED BY ONLY <1>1, <2>1, SumEmpty, Zenon
<1>3. \A k \in 0 .. Len(bank) : Before(k) \in Nat
  BY <1>1, TotalsType
<1>4. ASSUME NEW k, k \in 1 .. Len(bank)
      PROVE  Before(k) = Before(k - 1) + Len(bank[k].accounts)
  <2>1. k \in Nat /\ k > 0 /\ Len(bank) \in Nat
    BY <1>4, BankType
  <2>2. ASSUME NEW m, m \in 1 .. k PROVE SizesOf(bank)[m] \in Int
    <3>1. m \in 1 .. Len(bank)
      BY ONLY <1>4, <2>1, <2>2
    <3> QED BY <3>1, SegmentType
  <2>3. SumFunctionOnSet(SizesOf(bank), 1 .. k)
          = SumFunctionOnSet(SizesOf(bank), 1 .. k - 1) + SizesOf(bank)[k]
    BY ONLY <2>1, <2>2, SumUpTo
  <2>4. SizesOf(bank)[k] = Len(bank[k].accounts)
    BY <1>4, SegmentType
  <2> QED BY ONLY <1>1, <2>3, <2>4
<1> QED BY <1>2, <1>3, <1>4 DEF Total

\* ... so an index below it is in the segment where it first exceeds the index, ...
LEMMA HomeIs ==
  ASSUME bank \in Banks, NEW i, i \in Nat
  PROVE  /\ Home(i) \in 1 .. Len(bank) + 1
         /\ \A m \in 1 .. Len(bank) : m < Home(i) => Before(m) <= i
         /\ Home(i) <= Len(bank) => i < Before(Home(i))
<1> DEFINE T == {m \in DOMAIN bank : i < Before(m)} \cup {Len(bank) + 1}
<1>1. Len(bank) \in Nat /\ DOMAIN bank = 1 .. Len(bank)
  BY BankType
<1>2. T \in SUBSET Nat /\ T # {}
  BY <1>1
<1>3. Home(i) \in T /\ \A m \in T : Home(i) <= m
  <2>1. Home(i) = Min(T)
    BY Zenon DEF Home
  <2> HIDE DEF T
  <2> QED BY ONLY <1>2, <2>1, MinIs
<1>4. Home(i) \in 1 .. Len(bank) + 1
  BY <1>1, <1>3
<1>5. ASSUME NEW m, m \in 1 .. Len(bank), m < Home(i) PROVE Before(m) <= i
  <2>1. ~ i < Before(m)
    BY <1>1, <1>3, <1>4, <1>5
  <2>2. Before(m) \in Nat
    BY <1>1, <1>5, BeforeIs
  <2> QED BY ONLY <2>1, <2>2, i \in Nat
<1>6. Home(i) <= Len(bank) => i < Before(Home(i))
  BY <1>1, <1>3
<1> QED BY <1>4, <1>5, <1>6

\* ... what is left of an index as segments are looked at is never negative, ...
LEMMA LookedType ==
  ASSUME bank \in Banks, NEW i, i \in Nat, NEW k, k \in 1 .. Len(bank)
  PROVE  Looked(i, k) \in Nat
<1> DEFINE j == Min({k, Home(i) - 1})
<1>1. Len(bank) \in Nat /\ Home(i) - 1 \in 0 .. Len(bank) /\ k \in Nat
  BY BankType, HomeIs
<1>2. j \in 0 .. Len(bank) /\ j <= Home(i) - 1
  <2>1. {k, Home(i) - 1} \in SUBSET Nat /\ {k, Home(i) - 1} # {}
    BY <1>1
  <2>2. j \in {k, Home(i) - 1} /\ \A m \in {k, Home(i) - 1} : j <= m
    BY ONLY <2>1, MinIs
  <2> HIDE DEF j
  <2> QED BY <1>1, <2>2
<1>3. Looked(i, k) = i - Before(j)
  BY DEF Looked
<1> HIDE DEF j
<1>4. Before(j) \in Nat
  BY <1>2, BeforeIs
<1>5. Before(j) <= i
  <2>1. CASE j = 0
    BY <2>1, BeforeIs
  <2>2. CASE j # 0
    <3>1. j \in 1 .. Len(bank) /\ j < Home(i)
      BY <1>1, <1>2, <2>2, HomeIs
    <3> QED BY <3>1, HomeIs
  <2> QED BY <2>1, <2>2
<1> QED BY <1>3, <1>4, <1>5

\* ... and an index below the number of accounts is the index of one.
LEMMA AccountAt ==
  ASSUME bank \in Banks, NEW i, i \in Nat, i < Total
  PROVE  /\ Home(i) \in 1 .. Len(bank)
         /\ Looked(i, Len(bank)) + 1 \in 1 .. Len(bank[Home(i)].accounts)
<1> DEFINE h == Home(i)
           n == Len(bank)
<1>1. n \in Nat /\ h \in 1 .. n + 1 /\ (h <= n => i < Before(h))
  BY BankType, HomeIs
<1>2. h <= n
  <2>1. ASSUME h = n + 1 PROVE FALSE
    <3>1. Total \in Nat /\ Total = Before(n) /\ Before(0) = 0
      BY <1>1, BeforeIs
    <3>2. n # 0
      BY <3>1
    <3>3. n \in 1 .. Len(bank) /\ n < Home(i)
      BY <1>1, <2>1, <3>2
    <3>4. Before(n) <= i
      BY ONLY bank \in Banks, i \in Nat, <3>3, HomeIs
    <3> QED BY ONLY <3>1, <3>4, i < Total, i \in Nat
  <2> HIDE DEF h, n
  <2> QED BY <1>1, <2>1
<1>3. h \in 1 .. Len(bank)
  BY <1>1, <1>2
<1>4. /\ Before(h) = Before(h - 1) + Len(bank[h].accounts)
      /\ Before(h - 1) \in Nat /\ Len(bank[h].accounts) \in Nat
  BY <1>1, <1>3, BeforeIs, SegmentType
<1>5. Before(h - 1) <= i
  <2>1. CASE h = 1
    BY <2>1, BeforeIs
  <2>2. CASE h # 1
    <3>1. h - 1 \in 1 .. Len(bank) /\ h - 1 < Home(i)
      BY <1>1, <1>3, <2>2
    <3> QED BY <3>1, HomeIs
  <2> QED BY <2>1, <2>2
<1>6. Looked(i, Len(bank)) = i - Before(h - 1)
  <2> DEFINE D == {Len(bank), h - 1}
  <2>1. D \in SUBSET Nat /\ D # {}
    BY <1>1, <1>3
  <2>2. Min(D) \in D /\ Min(D) <= h - 1 /\ Min(D) <= Len(bank)
    <3>1. Min(D) \in D /\ \A m \in D : Min(D) <= m
      <4> HIDE DEF D
      <4> QED BY ONLY <2>1, MinIs
    <3> QED BY <3>1
  <2>3. Min(D) = h - 1
    <3>1. Min(D) = Len(bank) \/ Min(D) = h - 1
      BY <2>2
    <3> QED BY <1>1, <1>3, <2>2, <3>1
  <2> QED BY <2>3, Zenon DEF Looked
<1> HIDE DEF h, n
<1>7. i < Before(h)
  BY ONLY <1>1, <1>2
<1>8. Looked(i, Len(bank)) + 1 \in 1 .. Len(bank[h].accounts)
  BY ONLY <1>4, <1>5, <1>6, <1>7, i \in Nat
<1> QED BY <1>3, <1>8 DEF h

\* A transfer changes balances only: the indices mean the same in between.
SameShape(b) ==
    Len(b) = Len(bank) /\ \A m \in 1 .. Len(bank) : Len(b[m].accounts) = Len(bank[m].accounts)

\* What the account at an index holds.
LEMMA BalanceType ==
  ASSUME bank \in Banks, NEW b, b \in Banks, SameShape(b), NEW i, i \in Nat, i < Total
  PROVE  Balance(b, i) \in Nat
<1>1. /\ Home(i) \in 1 .. Len(b)
      /\ Looked(i, Len(bank)) + 1 \in 1 .. Len(b[Home(i)].accounts)
  BY AccountAt DEF SameShape
<1>2. b[Home(i)].accounts \in Seq(Nat)
  BY <1>1, SegmentType
<1> DEFINE a == b[Home(i)].accounts
           k == Looked(i, Len(bank)) + 1
<1>3. a[k] \in Nat
  <2>1. a \in Seq(Nat) /\ k \in 1 .. Len(a)
    BY <1>1, <1>2
  <2> HIDE DEF a, k
  <2> QED BY ONLY <2>1, BalancesType
<1> QED BY <1>3, Zenon DEF Balance

\* One leg of a transfer.
LEMMA LegPaid ==
  ASSUME bank \in Banks, NEW b, b \in Banks, SameShape(b), NEW i, i \in Nat, i < Total,
         NEW amount, amount \in Int, Balance(b, i) + amount \in Nat
  PROVE  /\ Pay(b, i, amount) \in Banks /\ SameShape(Pay(b, i, amount))
         /\ MoneyOf(Pay(b, i, amount)) = MoneyOf(b) + amount
         /\ TotalOf(Pay(b, i, amount)) = TotalOf(b)
<1> DEFINE h == Home(i)
           k == Looked(i, Len(bank)) + 1
           seg == b[h]
           a == seg.accounts
           a2 == Replaced(a, k, a[k] + amount)
           new == [seg EXCEPT !.accounts = a2]
           c == Pay(b, i, amount)
<1>1. h \in 1 .. Len(b) /\ k \in 1 .. Len(a)
  BY AccountAt DEF SameShape
<1>2. seg \in Segments /\ a \in Seq(Nat) /\ seg.parity \in Int /\ Held(seg) \in Int
  BY <1>1, SegmentType
<1>3. a[k] = Balance(b, i) /\ a[k] + amount \in Nat
  BY DEF Balance
<1>4. c = Replaced(b, h, new)
  BY DEF Pay, Replaced
<1> HIDE DEF c
<1>5. a2 \in Seq(Nat) /\ Len(a2) = Len(a) /\ SumFunction(a2) = SumFunction(a) - a[k] + (a[k] + amount)
  <2>1. k \in 1 .. Len(a) /\ a \in Seq(Nat) /\ a[k] + amount \in Nat
    BY <1>1, <1>2, <1>3
  <2>2. PICK x : x = a[k] + amount
    OBVIOUS
  <2>3. a2 = Replaced(a, k, x) /\ x \in Nat
    BY <2>1, <2>2
  <2> HIDE DEF a, k, a2
  <2>4. SumFunction(a2) = SumFunction(a) - a[k] + x
    BY ONLY <2>1, <2>3, BalanceReplaced
  <2>5. a2 \in Seq(Nat) /\ Len(a2) = Len(a)
    BY ONLY <2>1, <2>3, BalanceReplaced
  <2> QED BY ONLY <2>2, <2>4, <2>5
<1>6. SumFunction(a) \in Int /\ a[k] \in Int
  <2>1. k \in 1 .. Len(a) /\ a \in Seq(Nat)
    BY <1>1, <1>2
  <2> HIDE DEF a, k
  <2> QED BY ONLY <2>1, BalancesType
<1>7. new \in Segments /\ new.accounts = a2 /\ new.parity = seg.parity
  <2> HIDE DEF a2
  <2> QED BY <1>2, <1>5 DEF Segments
<1>8. Held(seg) = seg.parity + SumFunction(a)
  BY DEF Held
<1> HIDE DEF a2, new, a, k
<1>9. Held(new) = Held(seg) + amount
  <2>1. Held(new) = seg.parity + SumFunction(a2)
    BY ONLY <1>7 DEF Held
  <2> HIDE DEF seg
  <2>2. SumFunction(a2) = SumFunction(a) + amount
    BY ONLY <1>5, <1>6, amount \in Int
  <2>3. seg.parity \in Int
    BY ONLY <1>2
  <2> QED BY ONLY <1>6, <1>8, <2>1, <2>2, <2>3, amount \in Int
<1> HIDE DEF h
<1>20. b \in Banks /\ h \in 1 .. Len(b) /\ new \in Segments /\ c = Replaced(b, h, new)
  BY ONLY <1>1, <1>4, <1>7, b \in Banks, Zenon
<1>10. c \in Banks /\ Len(c) = Len(b) /\ c[h] = new
  BY ONLY <1>20, SegmentReplaced
<1>11. \A m \in 1 .. Len(b) : m # h => c[m] = b[m]
  BY ONLY <1>20, SegmentReplaced
<1>12. MoneyOf(c) = MoneyOf(b) - Held(seg) + Held(new)
  BY ONLY <1>20, SegmentReplaced
<1>13. TotalOf(c) = TotalOf(b) - Len(b[h].accounts) + Len(new.accounts)
  BY ONLY <1>20, SegmentReplaced
<1>14. Len(new.accounts) = Len(b[h].accounts) /\ Len(b[h].accounts) \in Nat
  <2>1. Len(new.accounts) = Len(b[h].accounts)
    BY ONLY <1>5, <1>7, Zenon DEF a
  <2> QED BY <1>1, <2>1, SegmentType
<1>15. MoneyOf(b) \in Int /\ TotalOf(b) \in Int
  BY TotalsType
<1>16. SameShape(c)
  <2>1. ASSUME NEW m, m \in 1 .. Len(b) PROVE Len(c[m].accounts) = Len(b[m].accounts)
    <3>1. CASE m = h
      BY ONLY <1>10, <1>14, <3>1, Zenon
    <3>2. CASE m # h
      BY ONLY <1>11, <2>1, <3>2, Zenon
    <3> QED BY <3>1, <3>2
  <2> QED BY <1>10, <2>1 DEF SameShape
<1> HIDE DEF seg
<1>17. MoneyOf(c) = MoneyOf(b) + amount
  BY ONLY <1>2, <1>9, <1>12, <1>15, amount \in Int
<1>18. TotalOf(c) = TotalOf(b)
  BY ONLY <1>13, <1>14, <1>15
<1> QED BY <1>10, <1>16, <1>17, <1>18 DEF c

\* A whole transfer.
LEMMA TransferKept ==
  ASSUME bank \in Banks, NEW s, s \in Nat, s < Total, NEW r, r \in Nat, r < Total, Solvent(s)
  PROVE  LET c == Pay(Pay(bank, s, -1), r, 1)
         IN  c \in Banks /\ SameShape(c) /\ MoneyOf(c) = MoneyOf(bank) /\ TotalOf(c) = TotalOf(bank)
<1> DEFINE b == Pay(bank, s, -1)
           c == Pay(b, r, 1)
<1>1. SameShape(bank)
  BY DEF SameShape
<1>2. Balance(bank, s) + (-1) \in Nat
  BY <1>1, BalanceType DEF Solvent
<1>3. -1 \in Int /\ 1 \in Int
  OBVIOUS
<1>4. /\ b \in Banks /\ SameShape(b) /\ MoneyOf(b) = MoneyOf(bank) + (-1)
      /\ TotalOf(b) = TotalOf(bank)
  BY <1>1, <1>2, <1>3, LegPaid
<1> HIDE DEF b
<1>5. Balance(b, r) + 1 \in Nat
  <2>1. Balance(b, r) \in Nat
    BY <1>4, BalanceType
  <2> QED BY <2>1
<1>6. /\ c \in Banks /\ SameShape(c) /\ MoneyOf(c) = MoneyOf(b) + 1
      /\ TotalOf(c) = TotalOf(b)
  BY <1>3, <1>4, <1>5, LegPaid
<1> HIDE DEF c
<1>7. MoneyOf(bank) \in Int
  BY TotalsType
<1>8. MoneyOf(c) = MoneyOf(bank) /\ TotalOf(c) = TotalOf(bank)
  BY ONLY <1>4, <1>6, <1>7
<1> QED BY <1>6, <1>8 DEF b, c
-----------------------------------------------------------------------------
\* The inductive invariant: what init_fill makes of the first segment, ...
Full == [parity |-> 0, accounts |-> [i \in 1 .. NbAccounts |-> InitBalance]]

\* ... where a worker can be in each round ("bad" is nowhere), ...
PlaceInv ==
    \A w \in Worker :
       /\ round = "init"  => pc[w] \in {"fill", "verify", "done"}
       /\ round = "run"   => pc[w] \in {"loop", "short", "done", "thrown"}
       /\ round = "check" => /\ pc[w] \in {"set", "see", "fetch", "decrease", "zero", "done"}
                             /\ pc[w] \in {"set", "see", "zero"} => w = First

\* ... what is left to do there, ...
LeftInv ==
    \A w \in Worker :
       /\ pc[w] \in {"short", "fetch", "decrease"} => left[w] > 0
       /\ round = "check" =>
             /\ pc[w] \in {"done", "zero"} => left[w] = 0
             /\ pc[First] \in {"set", "see"} =>
                   left[w] = NbCheck /\ (w # First => pc[w] = "fetch")

\* ... the first segment, zero until somebody has filled it, ...
FirstInv ==
    round = "init" =>
       /\ Len(bank) = 1
       /\ \/ bank[1] = Full
          \/ /\ bank[1] = [parity |-> 0, accounts |-> <<>>]
             /\ \A w \in Worker : pc[w] = "fill"

\* ... the bank, ...
BankInv == (round = "run" => Filled(bank)) /\ AddsUp(bank)

\* ... and the counter: what all have still to count down, and nobody has fetched less.
CounterInv ==
    /\ round = "check" /\ pc[First] # "set" => counter = SumFunctionOnSet(left, Worker)
    /\ \A w \in Worker : pc[w] = "decrease" => last[w] >= counter

AccountsInv ==
    AccountsTypeOK /\ PlaceInv /\ LeftInv /\ FirstInv /\ BankInv /\ CounterInv

LEMMA BankTyped == AccountsTypeOK => bank \in Banks
BY DEF AccountsTypeOK, Banks, Segments

\* The audit of long_tx never fails.
LEMMA SoundHolds ==
  ASSUME AccountsInv
  PROVE  Sound
<1>1. bank \in Banks
  BY BankTyped DEF AccountsInv
<1>2. ASSUME NEW m \in DOMAIN bank, NEW i \in DOMAIN bank[m].accounts
      PROVE  bank[m].accounts[i] >= 0
  <2>1. m \in 1 .. Len(bank)
    BY <1>1, BankType
  <2>2. bank[m].accounts \in Seq(Nat)
    BY <1>1, <2>1, SegmentType
  <2> DEFINE a == bank[m].accounts
  <2>3. a[i] \in Nat
    <3>1. a \in Seq(Nat) /\ i \in DOMAIN a
      BY <2>2
    <3> HIDE DEF a
    <3> QED BY ONLY <3>1, BalancesType
  <2> QED BY <2>3
<1>3. Money = InitBalance * Total
  BY <1>1, SumsOfBank DEF AccountsInv, BankInv, AddsUp
<1> QED BY <1>2, <1>3 DEF Sound

\* The bank in the transactions of init: a full segment, ...
LEMMA FullType ==
  /\ Full \in Segments /\ Full.parity = 0 /\ Len(Full.accounts) = NbAccounts
  /\ Full.accounts \in Seq(Nat) /\ Full.accounts[1] = InitBalance
  /\ Held(Full) = InitBalance * NbAccounts
<1> DEFINE a == [i \in 1 .. NbAccounts |-> InitBalance]
<1>1. NbAccounts \in Nat \ {0} /\ InitBalance \in Nat
  BY AccountsAssumption
<1>2. a \in Seq(Nat) /\ Len(a) = NbAccounts /\ a[1] = InitBalance
  BY <1>1
<1>3. SumFunction(a) = InitBalance * NbAccounts
  <2>1. IsFiniteSet(1 .. NbAccounts) /\ Cardinality(1 .. NbAccounts) = NbAccounts
    BY <1>1, FS_Interval
  <2>2. \A i \in 1 .. NbAccounts : a[i] = InitBalance
    OBVIOUS
  <2>3. DOMAIN a = 1 .. NbAccounts
    OBVIOUS
  <2> HIDE DEF a
  <2>4. SumFunctionOnSet(a, 1 .. NbAccounts) = InitBalance * Cardinality(1 .. NbAccounts)
    BY ONLY <1>1, <2>1, <2>2, SumConst
  <2> QED BY ONLY <2>1, <2>3, <2>4, Zenon DEF SumFunction
<1>4. Full.parity = 0 /\ Full.accounts = a
  BY DEF Full
<1> HIDE DEF a
<1>5. Held(Full) = 0 + SumFunction(a)
  BY ONLY <1>4, Zenon DEF Held
<1>6. InitBalance * NbAccounts \in Int
  BY <1>1
<1>7. Full \in Segments
  BY <1>2, <1>4 DEF Full, Segments, a
<1> QED BY <1>2, <1>3, <1>4, <1>5, <1>6, <1>7

\* ... alone in its bank, ...
LEMMA OneSegment ==
  ASSUME NEW b, b \in Banks, Len(b) = 1
  PROVE  MoneyOf(b) = Held(b[1]) /\ TotalOf(b) = Len(b[1].accounts)
<1>1. 1 \in 1 .. Len(b) /\ 1 .. 1 = {1}
  OBVIOUS
<1>2. /\ HeldOf(b)[1] = Held(b[1]) /\ SizesOf(b)[1] = Len(b[1].accounts)
      /\ HeldOf(b)[1] \in Int /\ SizesOf(b)[1] \in Int
  BY <1>1, SegmentType
<1>3. SumFunctionOnSet(HeldOf(b), {1}) = HeldOf(b)[1] /\ SumFunctionOnSet(SizesOf(b), {1}) = SizesOf(b)[1]
  BY ONLY <1>2, SumOne
<1>4. MoneyOf(b) = SumFunctionOnSet(HeldOf(b), {1}) /\ TotalOf(b) = SumFunctionOnSet(SizesOf(b), {1})
  BY <1>1, Zenon DEF MoneyOf, TotalOf
<1> QED BY ONLY <1>2, <1>3, <1>4, Zenon

\* ... one that is zero, ...
LEMMA EmptyType ==
  LET none == [parity |-> 0, accounts |-> << >>]
  IN  none \in Segments /\ Held(none) = 0 /\ Len(none.accounts) = 0
<1> DEFINE none == [parity |-> 0, accounts |-> << >>]
<1>1. none \in Segments /\ none.parity = 0 /\ none.accounts = << >> /\ Len(<< >>) = 0
  BY EmptySeq DEF Segments
<1>2. SumFunction(<< >>) = 0
  <2>1. DOMAIN << >> = {}
    OBVIOUS
  <2> QED BY <2>1, SumEmpty DEF SumFunction
<1> HIDE DEF none
<1>3. Held(none) = 0 + 0
  BY ONLY <1>1, <1>2, Zenon DEF Held
<1>4. Held(none) = 0
  BY ONLY <1>3
<1> QED BY ONLY <1>1, <1>4, Zenon DEF none

\* ... as it is when the region is created, ...
LEMMA InitAccounts == Init => AccountsInv
<1> SUFFICES ASSUME Init PROVE AccountsInv
  OBVIOUS
<1> DEFINE none == [parity |-> 0, accounts |-> << >>]
<1> USE AccountsAssumption
<1>1. bank = <<none>> /\ none \in Segments /\ Held(none) = 0 /\ Len(none.accounts) = 0
  BY EmptyType DEF Init
<1>2. bank \in Banks /\ Len(bank) = 1 /\ bank[1] = none
  <2> HIDE DEF none
  <2> QED BY <1>1 DEF Banks
<1>3. AccountsTypeOK
  <2>1. bank \in Seq([parity : Int, accounts : Seq(Nat)])
    BY <1>2 DEF Banks, Segments
  <2> QED BY <2>1 DEF Init, AccountsTypeOK
<1>4. AddsUp(bank)
  <2>1. MoneyOf(bank) = 0 /\ TotalOf(bank) = 0
    BY ONLY <1>1, <1>2, OneSegment
  <2> QED BY <2>1, OneMore DEF AddsUp
<1>5. PlaceInv /\ LeftInv /\ CounterInv
  BY DEF Init, PlaceInv, LeftInv, CounterInv
<1>6. FirstInv
  BY <1>2 DEF Init, FirstInv
<1> QED BY <1>3, <1>4, <1>5, <1>6 DEF Init, AccountsInv, BankInv

\* ... and each transaction.
LEMMA FillKept ==
  ASSUME AccountsInv, NEW w \in Worker, init_fill(w)
  PROVE  AccountsInv'
<1> USE AccountsAssumption DEF AccountsInv
<1>1. pc[w] = "fill" /\ pc' = [pc EXCEPT ![w] = "verify"]
  BY DEF init_fill, Goto
<1>2. UNCHANGED <<counter, round, repeats, left, count, asked, ids, last>>
  BY DEF init_fill
<1>3. round = "init"
  BY <1>1 DEF PlaceInv, AccountsTypeOK
<1>4. bank \in Banks /\ Len(bank) = 1 /\ bank[1].parity = 0 /\ DOMAIN bank = {1} /\ bank[1] \in Segments
  <2>1. bank \in Banks /\ Len(bank) = 1 /\ bank[1].parity = 0
    BY <1>3, BankTyped, FullType DEF FirstInv
  <2>2. 1 \in 1 .. Len(bank) /\ DOMAIN bank = 1 .. Len(bank) /\ 1 .. 1 = {1}
    BY <2>1, BankType
  <2>3. bank[1] \in Segments
    BY ONLY <2>1, <2>2, SegmentType
  <2> QED BY ONLY <2>1, <2>2, <2>3
<1>5. bank' = Replaced(bank, 1, Full)
  <2>1. Full = [bank[1] EXCEPT !.accounts = [i \in 1 .. NbAccounts |-> InitBalance]]
    <3>1. PICK p \in Int, a \in Seq(Nat) : bank[1] = [parity |-> p, accounts |-> a]
      BY <1>4 DEF Segments
    <3>2. p = 0
      BY <1>4, <3>1
    <3>3. bank[1] = [parity |-> 0, accounts |-> a]
      BY <3>1, <3>2
    <3> DEFINE full == [i \in 1 .. NbAccounts |-> InitBalance]
    <3> HIDE DEF full
    <3>4. [[parity |-> 0, accounts |-> a] EXCEPT !.accounts = full] = [parity |-> 0, accounts |-> full]
      OBVIOUS
    <3> QED BY ONLY <3>3, <3>4, Zenon DEF Full, full
  <2> QED BY <2>1, Zenon DEF init_fill, Replaced
<1>6. bank' \in Banks /\ Len(bank') = 1 /\ bank'[1] = Full
  <2>1. PICK h : h = 1
    OBVIOUS
  <2>2. /\ bank \in Banks /\ h \in 1 .. Len(bank) /\ Full \in Segments
        /\ bank' = Replaced(bank, h, Full)
    BY <1>4, <1>5, <2>1, FullType
  <2>3. bank' \in Banks /\ Len(bank') = Len(bank) /\ bank'[h] = Full
    BY ONLY <2>2, SegmentReplaced
  <2> QED BY ONLY <1>4, <2>1, <2>3
<1>7. AddsUp(bank')
  <2>1. MoneyOf(bank') = InitBalance * NbAccounts /\ TotalOf(bank') = NbAccounts
    BY ONLY <1>6, FullType, OneSegment
  <2> QED BY ONLY <2>1, Zenon DEF AddsUp
<1>8. AccountsTypeOK'
  BY <1>1, <1>2, <1>6 DEF AccountsTypeOK, Banks, Segments
<1>9. PlaceInv' /\ LeftInv' /\ CounterInv'
  BY <1>1, <1>2, <1>3 DEF PlaceInv, LeftInv, CounterInv
<1>10. FirstInv'
  BY <1>6 DEF FirstInv
<1> QED BY <1>2, <1>3, <1>7, <1>8, <1>9, <1>10 DEF BankInv

LEMMA VerifyKept ==
  ASSUME AccountsInv, NEW w \in Worker, init_verify(w)
  PROVE  AccountsInv'
<1> USE AccountsAssumption DEF AccountsInv
<1>1. pc[w] = "verify" /\ UNCHANGED <<bank, counter, round, repeats, left, count, asked, ids, last>>
  BY DEF init_verify
<1>2. round = "init"
  BY <1>1 DEF PlaceInv, AccountsTypeOK
<1>3. bank[1] = Full
  BY <1>1, <1>2 DEF FirstInv
<1>4. pc' = [pc EXCEPT ![w] = "done"]
  BY <1>3, FullType DEF init_verify, Goto
<1>5. AccountsTypeOK'
  BY <1>1, <1>4 DEF AccountsTypeOK
<1>6. PlaceInv' /\ LeftInv' /\ CounterInv'
  BY <1>1, <1>2, <1>4 DEF PlaceInv, LeftInv, CounterInv, AccountsTypeOK
<1>7. FirstInv' /\ BankInv'
  BY <1>1, <1>3 DEF FirstInv, BankInv
<1> QED BY <1>5, <1>6, <1>7

\* Between the rounds.
LEMMA RoundKept ==
  ASSUME AccountsInv, next_round
  PROVE  AccountsInv'
<1> USE AccountsAssumption DEF AccountsInv
<1>1. /\ \A w \in Worker : pc[w] = "done"
      /\ UNCHANGED <<bank, counter, asked, ids, last>>
  BY DEF next_round
<1>2. CASE /\ round = "init" /\ round' = "run" /\ pc' = [w \in Worker |-> "loop"]
           /\ repeats > 0 /\ repeats' = repeats - 1
           /\ left' = [w \in Worker |-> NbTx] /\ count' = [w \in Worker |-> NbAccounts]
  <2>1. bank \in Banks /\ Len(bank) = 1 /\ bank[1] = Full
    BY <1>1, <1>2, BankTyped DEF FirstInv
  <2>2. TotalOf(bank) = NbAccounts
    BY ONLY <2>1, FullType, OneSegment
  <2>3. Filled(bank)
    <3>1. PICK n : n = Len(bank)
      OBVIOUS
    <3>2. n = 1 /\ Len(bank[n].accounts) = NbAccounts
      BY <2>1, <3>1, FullType
    <3>3. n > 0 /\ (\A m \in 1 .. n - 1 : Len(bank[m].accounts) = NbAccounts)
      BY <3>2
    <3>4. Len(bank[n].accounts) \in 1 .. NbAccounts /\ TotalOf(bank) >= Least
      BY <2>2, <3>2, LeastType
    <3> QED BY ONLY <3>1, <3>3, <3>4 DEF Filled
  <2>4. AccountsTypeOK'
    BY <1>1, <1>2 DEF AccountsTypeOK
  <2>5. PlaceInv' /\ LeftInv' /\ FirstInv' /\ CounterInv'
    BY <1>1, <1>2 DEF PlaceInv, LeftInv, FirstInv, CounterInv
  <2> QED BY <1>1, <1>2, <2>3, <2>4, <2>5 DEF BankInv
<1>3. CASE /\ round = "run" /\ round' = "run" /\ pc' = [w \in Worker |-> "loop"]
           /\ repeats > 0 /\ repeats' = repeats - 1
           /\ left' = [w \in Worker |-> NbTx] /\ count' = [w \in Worker |-> NbAccounts]
  <2>1. AccountsTypeOK'
    BY <1>1, <1>3 DEF AccountsTypeOK
  <2>2. PlaceInv' /\ LeftInv' /\ FirstInv' /\ CounterInv'
    BY <1>1, <1>3 DEF PlaceInv, LeftInv, FirstInv, CounterInv
  <2> QED BY <1>1, <1>3, <2>1, <2>2 DEF BankInv
<1>4. CASE /\ round' = "check" /\ repeats' = repeats /\ count' = count
           /\ pc' = [w \in Worker |-> IF w = First THEN "set" ELSE "fetch"]
           /\ left' = [w \in Worker |-> NbCheck]
  <2>1. AccountsTypeOK'
    BY <1>1, <1>4 DEF AccountsTypeOK
  <2>2. PlaceInv' /\ LeftInv' /\ FirstInv' /\ CounterInv'
    BY <1>1, <1>4 DEF PlaceInv, LeftInv, FirstInv, CounterInv
  <2> QED BY <1>1, <1>4, <2>1, <2>2 DEF BankInv
<1> QED BY <1>2, <1>3, <1>4 DEF next_round, AccountsTypeOK

\* Counting down the transactions of a worker.
LEMMA DoneType ==
  ASSUME AccountsTypeOK, NEW w \in Worker, left[w] > 0, Done(w)
  PROVE  /\ left' \in [Worker -> 0 .. NbTx + NbCheck] /\ left'[w] = left[w] - 1
         /\ \A v \in Worker : v # w => left'[v] = left[v]
<1> DEFINE n == NbTx + NbCheck
<1>1. n \in Nat
  BY AccountsAssumption
<1> HIDE DEF n
<1>2. left \in [Worker -> 0 .. n] /\ left' = [left EXCEPT ![w] = left[w] - 1]
  BY DEF AccountsTypeOK, Done, n
<1>3. left[w] - 1 \in 0 .. n
  BY <1>1, <1>2
<1>4. left' \in [Worker -> 0 .. n]
  BY <1>2, <1>3
<1> QED BY <1>2, <1>4 DEF n

\* The bank in the transactions of run: whatever keeps it filled and adding up, ...
LEMMA RunKept ==
  ASSUME AccountsInv, NEW w \in Worker, round = "run", UNCHANGED <<counter, round, repeats, last>>,
         NEW to, to \in {"loop", "short", "done", "thrown"}, pc' = [pc EXCEPT ![w] = to],
         left' = left \/ Done(w), to = "short" => left'[w] > 0,
         AccountsTypeOK', Filled(bank'), AddsUp(bank')
  PROVE  AccountsInv'
<1> USE DEF AccountsInv
<1>1. \A v \in Worker : pc'[v] = IF v = w THEN to ELSE pc[v]
  BY DEF AccountsTypeOK
<1>2. \A v \in Worker : v # w => left'[v] = left[v]
  BY DEF Done, AccountsTypeOK
<1>3. PlaceInv' /\ FirstInv' /\ CounterInv'
  BY <1>1 DEF PlaceInv, FirstInv, CounterInv
<1>4. LeftInv'
  BY <1>1, <1>2 DEF PlaceInv, LeftInv
<1> QED BY <1>3, <1>4 DEF BankInv

\* ... and each transaction.
LEMMA LongKept ==
  ASSUME AccountsInv, NEW w \in Worker, long_tx(w) \/ last_long_tx(w)
  PROVE  AccountsInv'
<1> USE DEF AccountsInv
<1>1. /\ round = "run" /\ pc[w] = "loop" /\ Sound
      /\ UNCHANGED <<bank, counter, round, repeats, asked, ids, last>>
  BY SoundHolds DEF long_tx, last_long_tx, Running
<1>2. Filled(bank') /\ AddsUp(bank')
  BY <1>1 DEF BankInv
<1>3. CASE long_tx(w)
  <2>1. /\ left[w] > 0 /\ Done(w) /\ pc' = pc /\ count' = [count EXCEPT ![w] = Total]
    BY <1>1, <1>3 DEF long_tx
  <2>2. Total \in Nat \ {0}
    BY <1>1, BankTyped, SumsOfBank, TotalsType, LeastType DEF BankInv, Filled
  <2>3. AccountsTypeOK'
    <3>1. left' \in [Worker -> 0 .. NbTx + NbCheck]
      BY <2>1, DoneType
    <3> QED BY <1>1, <2>1, <2>2, <3>1 DEF AccountsTypeOK
  <2>4. pc' = [pc EXCEPT ![w] = "loop"]
    BY <1>1, <2>1 DEF AccountsTypeOK
  <2> QED BY <1>1, <1>2, <2>1, <2>3, <2>4, RunKept
<1>4. CASE last_long_tx(w)
  <2>1. left' = left /\ count' = count /\ pc' = [pc EXCEPT ![w] = "done"]
    BY <1>1, <1>4 DEF last_long_tx, Goto
  <2>2. AccountsTypeOK'
    BY <1>1, <2>1 DEF AccountsTypeOK
  <2> QED BY <1>1, <1>2, <2>1, <2>2, RunKept
<1> QED BY <1>3, <1>4

LEMMA AllocTxKept ==
  ASSUME AccountsInv, NEW w \in Worker, alloc_tx(w) \/ alloc_tx_throws(w)
  PROVE  AccountsInv'
<1> USE DEF AccountsInv
<1>1. /\ round = "run" /\ pc[w] = "loop" /\ left[w] > 0
      /\ UNCHANGED <<counter, round, repeats, count, asked, ids, last>>
  BY DEF alloc_tx, alloc_tx_throws, Running
<1>2. bank \in Banks /\ Filled(bank) /\ AddsUp(bank)
  BY <1>1, BankTyped DEF BankInv
<1>3. CASE alloc_tx(w)
  <2>1. PICK trigger \in 0 .. MaxTrigger : bank' = IF TooMany(trigger) THEN Removed ELSE Added
    BY <1>3 DEF alloc_tx
  <2>2. bank' \in Banks /\ Filled(bank') /\ AddsUp(bank')
    <3>1. CASE TooMany(trigger)
      <4>1. TotalOf(bank) > 2
        BY <1>2, <3>1, SumsOfBank DEF TooMany
      <4> QED BY <1>2, <2>1, <3>1, <4>1, RemovedKept
    <3>2. CASE ~ TooMany(trigger)
      BY <1>2, <2>1, <3>2, AddedKept
    <3> QED BY <3>1, <3>2
  <2>3. Done(w) /\ pc' = pc /\ pc' = [pc EXCEPT ![w] = "loop"]
    BY <1>1, <1>3 DEF alloc_tx, AccountsTypeOK
  <2>4. AccountsTypeOK'
    <3>1. left' \in [Worker -> 0 .. NbTx + NbCheck]
      BY <1>1, <2>3, DoneType
    <3> QED BY <1>1, <2>2, <2>3, <3>1 DEF AccountsTypeOK, Banks, Segments
  <2> QED BY <1>1, <2>2, <2>3, <2>4, RunKept
<1>4. CASE alloc_tx_throws(w)
  <2>1. bank' = bank /\ left' = left /\ pc' = [pc EXCEPT ![w] = "thrown"]
    BY <1>4 DEF alloc_tx_throws, Goto
  <2>2. AccountsTypeOK'
    BY <1>1, <2>1 DEF AccountsTypeOK
  <2> QED BY <1>1, <1>2, <2>1, <2>2, RunKept
<1> QED BY <1>3, <1>4

LEMMA ShortKept ==
  ASSUME AccountsInv, NEW w \in Worker,
         short_tx(w) \/ short_tx_refused(w) \/ short_tx_missing(w)
  PROVE  AccountsInv'
<1> USE DEF AccountsInv
<1>1. UNCHANGED <<bank, counter, round, repeats, left, count, last>> /\ round = "run"
  BY DEF short_tx, short_tx_refused, short_tx_missing, Back, Running, PlaceInv, AccountsTypeOK
<1>2. bank \in Banks /\ Filled(bank') /\ AddsUp(bank')
  BY <1>1, BankTyped DEF BankInv
<1>3. CASE short_tx(w)
  <2>1. pc' = [pc EXCEPT ![w] = "short"] /\ left'[w] > 0
    BY <1>1, <1>3 DEF short_tx, Goto
  <2>2. AccountsTypeOK'
    <3>1. PICK a, r \in 0 .. count[w] - 1 : asked' = [asked EXCEPT ![w] = <<a, r>>]
      BY <1>3 DEF short_tx
    <3>2. a \in Nat /\ r \in Nat /\ ids' = asked'
      BY <1>3 DEF short_tx, AccountsTypeOK
    <3> QED BY <1>1, <2>1, <3>1, <3>2 DEF AccountsTypeOK
  <2> QED BY <1>1, <1>2, <2>1, <2>2, RunKept
<1>4. CASE short_tx_refused(w)
  <2>1. pc[w] = "short" /\ pc' = pc /\ left[w] > 0 /\ pc' = [pc EXCEPT ![w] = "short"]
    BY <1>4 DEF short_tx_refused, LeftInv, AccountsTypeOK
  <2>2. AccountsTypeOK'
    <3>1. PICK k \in DOMAIN bank :
            ids' = [ids EXCEPT ![w] = <<Looked(ids[w][1], k), Looked(ids[w][2], k)>>]
      BY <1>4 DEF short_tx_refused
    <3>2. ids[w][1] \in Nat /\ ids[w][2] \in Nat /\ k \in 1 .. Len(bank)
      BY <1>2, BankType DEF AccountsTypeOK
    <3>3. Looked(ids[w][1], k) \in Nat /\ Looked(ids[w][2], k) \in Nat
      BY ONLY <1>2, <3>2, LookedType
    <3>4. ids' \in [Worker -> Nat \X Nat] /\ asked' = asked
      BY <1>4, <3>1, <3>3 DEF AccountsTypeOK, short_tx_refused
    <3> QED BY <1>1, <2>1, <3>4 DEF AccountsTypeOK
  <2> QED BY <1>1, <1>2, <2>1, <2>2, RunKept
<1>5. CASE short_tx_missing(w)
  <2>1. /\ pc' = [pc EXCEPT ![w] = "loop"]
        /\ asked' = [asked EXCEPT ![w] = <<0, 0>>] /\ ids' = [ids EXCEPT ![w] = <<0, 0>>]
    BY <1>5 DEF short_tx_missing, Back, Goto
  <2>2. AccountsTypeOK'
    BY <1>1, <2>1 DEF AccountsTypeOK
  <2> QED BY <1>1, <1>2, <2>1, <2>2, RunKept
<1> QED BY <1>3, <1>4, <1>5

LEMMA CommitKept ==
  ASSUME AccountsInv, NEW w \in Worker, short_tx_commits(w)
  PROVE  AccountsInv'
<1> USE DEF AccountsInv
<1>1. /\ pc[w] = "short" /\ Done(w) /\ pc' = [pc EXCEPT ![w] = "loop"]
      /\ asked' = [asked EXCEPT ![w] = <<0, 0>>] /\ ids' = [ids EXCEPT ![w] = <<0, 0>>]
      /\ UNCHANGED <<counter, round, repeats, count, last>>
  BY DEF short_tx_commits, Back, Goto
<1>2. round = "run" /\ left[w] > 0
  BY <1>1 DEF PlaceInv, LeftInv, AccountsTypeOK
<1>3. bank \in Banks /\ Filled(bank) /\ AddsUp(bank)
  BY <1>2, BankTyped DEF BankInv
<1>4. bank' \in Banks /\ Filled(bank') /\ AddsUp(bank')
  <2> DEFINE s == ids[w][1]
             r == ids[w][2]
  <2>1. s \in Nat /\ s < Total /\ r \in Nat /\ r < Total
    BY DEF short_tx_commits, Exists, AccountsTypeOK
  <2>2. bank' = IF Solvent(s) THEN Pay(Pay(bank, s, -1), r, 1) ELSE bank
    BY DEF short_tx_commits
  <2> HIDE DEF s, r
  <2>3. CASE Solvent(s)
    <3>1. /\ bank' \in Banks /\ SameShape(bank')
          /\ MoneyOf(bank') = MoneyOf(bank) /\ TotalOf(bank') = TotalOf(bank)
      BY ONLY <1>3, <2>1, <2>2, <2>3, TransferKept
    <3>2. AddsUp(bank')
      BY ONLY <1>3, <3>1, Zenon DEF AddsUp
    <3>3. Len(bank) \in Nat
      BY <1>3, BankType
    <3>4. Filled(bank')
      BY ONLY <1>3, <3>1, <3>3 DEF Filled, SameShape
    <3> QED BY <3>1, <3>2, <3>4
  <2>4. CASE ~ Solvent(s)
    BY <1>3, <2>2, <2>4
  <2> QED BY <2>3, <2>4
<1>5. AccountsTypeOK'
  <2>1. left' \in [Worker -> 0 .. NbTx + NbCheck]
    BY <1>1, <1>2, DoneType
  <2> QED BY <1>1, <1>2, <1>4, <2>1 DEF AccountsTypeOK, Banks, Segments
<1> QED BY <1>1, <1>2, <1>4, <1>5, RunKept

-----------------------------------------------------------------------------
\* The counter in the transactions of check: those that leave it alone, ...
LEMMA CheckKept ==
  ASSUME AccountsInv, NEW w \in Worker, round = "check",
         UNCHANGED <<bank, counter, round, repeats, left, count, asked, ids>>,
         NEW to, to \in {"fetch", "decrease", "done"}, pc' = [pc EXCEPT ![w] = to],
         last' \in [Worker -> Nat], \A v \in Worker : v # w => last'[v] = last[v],
         to = "fetch" => pc[w] = "see", to = "decrease" => last'[w] = counter /\ pc[w] = "fetch",
         to = "done" => pc[w] = "zero", pc[First] # "set", pc[First] = "see" => w = First
  PROVE  AccountsInv'
<1> USE AccountsAssumption DEF AccountsInv
<1>1. \A v \in Worker : pc'[v] = IF v = w THEN to ELSE pc[v]
  BY DEF AccountsTypeOK
<1>2. AccountsTypeOK'
  BY DEF AccountsTypeOK
<1>3. PlaceInv' /\ FirstInv' /\ BankInv'
  BY <1>1 DEF PlaceInv, FirstInv, BankInv
<1>4. LeftInv'
  BY <1>1 DEF PlaceInv, LeftInv
<1>5. CounterInv'
  <2>1. counter \in Nat
    BY DEF AccountsTypeOK
  <2> QED BY <1>1, <2>1 DEF PlaceInv, CounterInv
<1> QED BY <1>2, <1>3, <1>4, <1>5

LEMMA LeftOfCheck ==
  AccountsTypeOK => /\ IsFiniteSet(Worker) /\ Cardinality(Worker) \in Nat
                    /\ \A v \in Worker : left[v] \in Nat
<1>1. IsFiniteSet(Worker) /\ Cardinality(Worker) \in Nat
  BY AccountsAssumption, FS_CardinalityType
<1>2. AccountsTypeOK => \A v \in Worker : left[v] \in Nat
  BY AccountsAssumption DEF AccountsTypeOK
<1> QED BY <1>1, <1>2

\* ... and each transaction.
LEMMA SetKept ==
  ASSUME AccountsInv, NEW w \in Worker, check_set(w)
  PROVE  AccountsInv'
<1> USE AccountsAssumption DEF AccountsInv
<1>1. /\ pc[w] = "set" /\ pc' = [pc EXCEPT ![w] = "see"]
      /\ counter' = NbCheck * Cardinality(Worker) /\ bank' = << >>
      /\ UNCHANGED <<round, repeats, left, count, asked, ids, last>>
  BY DEF check_set, Goto
<1>2. round = "check" /\ w = First
  BY <1>1 DEF PlaceInv, AccountsTypeOK
<1>3. \A v \in Worker : left[v] = NbCheck /\ (v # w => pc[v] = "fetch")
  BY <1>1, <1>2 DEF LeftInv
<1>4. counter' \in Nat /\ counter' = SumFunctionOnSet(left', Worker)
  <2>1. SumFunctionOnSet(left, Worker) = NbCheck * Cardinality(Worker)
    BY ONLY <1>3, LeftOfCheck, AccountsInv, AccountsAssumption, SumConst DEF AccountsInv
  <2>2. NbCheck * Cardinality(Worker) \in Nat
    BY LeftOfCheck
  <2> QED BY <1>1, <2>1, <2>2
<1>5. bank' \in Banks /\ Len(bank') = 0
  BY <1>1, EmptySeq DEF Banks
<1>6. AddsUp(bank')
  <2>1. 1 .. Len(bank') = {}
    BY <1>5
  <2>2. MoneyOf(bank') = 0 /\ TotalOf(bank') = 0
    BY ONLY <2>1, SumEmpty DEF MoneyOf, TotalOf
  <2> QED BY <2>2, OneMore DEF AddsUp
<1>7. AccountsTypeOK'
  BY <1>1, <1>4, <1>5 DEF AccountsTypeOK, Banks, Segments
<1>8. \A v \in Worker : pc'[v] = IF v = w THEN "see" ELSE "fetch"
  BY <1>1, <1>3 DEF AccountsTypeOK
<1>9. PlaceInv' /\ LeftInv'
  BY <1>1, <1>2, <1>3, <1>8 DEF PlaceInv, LeftInv
<1>10. FirstInv' /\ BankInv'
  BY <1>1, <1>2, <1>6 DEF FirstInv, BankInv
<1>11. CounterInv'
  BY <1>1, <1>4, <1>8 DEF CounterInv
<1> QED BY <1>7, <1>9, <1>10, <1>11

LEMMA SeeKept ==
  ASSUME AccountsInv, NEW w \in Worker, check_see(w)
  PROVE  AccountsInv'
<1> USE AccountsAssumption DEF AccountsInv
<1>1. pc[w] = "see" /\ UNCHANGED <<bank, counter, round, repeats, left, count, asked, ids, last>>
  BY DEF check_see
<1>2. round = "check" /\ w = First
  BY <1>1 DEF PlaceInv, AccountsTypeOK
<1>3. counter = NbCheck * Cardinality(Worker)
  <2>1. \A v \in Worker : left[v] = NbCheck
    BY <1>1, <1>2 DEF LeftInv
  <2>2. counter = SumFunctionOnSet(left, Worker)
    BY <1>1, <1>2 DEF CounterInv
  <2> QED BY ONLY <2>1, <2>2, LeftOfCheck, AccountsInv, AccountsAssumption, SumConst
          DEF AccountsInv
<1>4. pc' = [pc EXCEPT ![w] = "fetch"]
  BY <1>3 DEF check_see, Goto
<1>5. last' \in [Worker -> Nat] /\ last' = last
  BY <1>1 DEF AccountsTypeOK
<1> QED BY <1>1, <1>2, <1>4, <1>5, CheckKept

LEMMA FetchKept ==
  ASSUME AccountsInv, NEW w \in Worker, check_fetch(w)
  PROVE  AccountsInv'
<1> USE AccountsAssumption DEF AccountsInv
<1>1. /\ pc[w] = "fetch" /\ pc[First] \notin {"set", "see"}
      /\ pc' = [pc EXCEPT ![w] = "decrease"] /\ last' = [last EXCEPT ![w] = counter]
      /\ UNCHANGED <<bank, counter, round, repeats, left, count, asked, ids>>
  BY DEF check_fetch, Goto
<1>2. round = "check"
  BY <1>1 DEF PlaceInv, AccountsTypeOK
<1>3. /\ last' \in [Worker -> Nat] /\ last'[w] = counter
      /\ \A v \in Worker : v # w => last'[v] = last[v]
  BY <1>1 DEF AccountsTypeOK
<1> QED BY <1>1, <1>2, <1>3, CheckKept

LEMMA ZeroKept ==
  ASSUME AccountsInv, NEW w \in Worker, check_zero(w)
  PROVE  AccountsInv'
<1> USE AccountsAssumption DEF AccountsInv
<1>1. /\ pc[w] = "zero" /\ \A v \in Worker \ {w} : pc[v] \in {"done", "bad"}
      /\ UNCHANGED <<bank, counter, round, repeats, left, count, asked, ids, last>>
  BY DEF check_zero
<1>2. round = "check" /\ w = First
  BY <1>1 DEF PlaceInv, AccountsTypeOK
<1>3. counter = 0
  <2>1. \A v \in Worker : left[v] = 0
    BY <1>1, <1>2 DEF LeftInv, PlaceInv
  <2>2. counter = SumFunctionOnSet(left, Worker)
    BY <1>1, <1>2 DEF CounterInv
  <2>3. SumFunctionOnSet(left, Worker) = 0 * Cardinality(Worker)
    BY ONLY <2>1, LeftOfCheck, AccountsInv, SumConst DEF AccountsInv
  <2> QED BY ONLY <2>2, <2>3, LeftOfCheck, AccountsInv DEF AccountsInv
<1>4. pc' = [pc EXCEPT ![w] = "done"]
  BY <1>3 DEF check_zero, Goto
<1>5. last' \in [Worker -> Nat] /\ last' = last
  BY <1>1 DEF AccountsTypeOK
<1> QED BY <1>1, <1>2, <1>4, <1>5, CheckKept

LEMMA DecreaseKept ==
  ASSUME AccountsInv, NEW w \in Worker, check_decrease(w)
  PROVE  AccountsInv'
<1> USE AccountsAssumption DEF AccountsInv
<1> DEFINE to == IF left[w] > 1 THEN "fetch" ELSE IF w = First THEN "zero" ELSE "done"
<1>1. pc[w] = "decrease" /\ UNCHANGED <<bank, round, repeats, count, asked, ids, last>>
  BY DEF check_decrease
<1>2. round = "check" /\ left[w] > 0 /\ last[w] >= counter
  BY <1>1 DEF PlaceInv, LeftInv, CounterInv, AccountsTypeOK
<1>3. /\ counter \in Nat /\ last[w] \in Nat /\ left[w] \in Nat
      /\ \A v \in Worker : left[v] \in Nat
  BY LeftOfCheck DEF AccountsTypeOK
<1>4. counter' = counter - 1 /\ Done(w) /\ pc' = [pc EXCEPT ![w] = to]
  BY <1>2, <1>3 DEF check_decrease, Decreased, Goto
<1>5. /\ left' \in [Worker -> 0 .. NbTx + NbCheck] /\ left'[w] = left[w] - 1
      /\ \A v \in Worker : v # w => left'[v] = left[v]
  BY <1>2, <1>4, DoneType
<1>6. to \in {"fetch", "zero", "done"} /\ (to = "fetch" => left'[w] > 0)
      /\ (to # "fetch" => left'[w] = 0) /\ (to = "zero" => w = First)
  BY <1>2, <1>3, <1>5
<1> HIDE DEF to
<1>7. pc[First] \notin {"set", "see"}
  BY <1>1, <1>2 DEF LeftInv
<1>8. \A v \in Worker : pc'[v] = IF v = w THEN to ELSE pc[v]
  BY <1>4 DEF AccountsTypeOK
<1>9. counter' = SumFunctionOnSet(left', Worker)
  <2>1. counter = SumFunctionOnSet(left, Worker)
    BY <1>2, <1>7 DEF CounterInv
  <2>2. \A v \in Worker : left[v] \in Int /\ left'[v] \in Int /\ (v # w => left[v] = left'[v])
    BY <1>3, <1>5
  <2>3. SumFunctionOnSet(left', Worker) = SumFunctionOnSet(left, Worker) - left[w] + left'[w]
    BY ONLY <2>2, AccountsAssumption, w \in Worker, SumChange
  <2> QED BY ONLY <1>3, <1>4, <1>5, <2>1, <2>3
<1>10. counter' \in Nat
  <2>1. \A v \in Worker : left'[v] \in Nat
    BY <1>5
  <2>2. SumFunctionOnSet(left', Worker) \in Nat
    BY ONLY <2>1, AccountsAssumption, SumNat
  <2> QED BY <1>9, <2>2
<1>11. AccountsTypeOK'
  BY <1>1, <1>4, <1>5, <1>6, <1>10 DEF AccountsTypeOK
<1>12. PlaceInv' /\ FirstInv' /\ BankInv'
  BY <1>1, <1>2, <1>6, <1>8 DEF PlaceInv, FirstInv, BankInv
<1>13. LeftInv'
  BY <1>1, <1>2, <1>5, <1>6, <1>7, <1>8 DEF PlaceInv, LeftInv
<1>14. CounterInv'
  <2>1. \A v \in Worker : last[v] \in Nat
    BY DEF AccountsTypeOK
  <2>2. \A v \in Worker : pc'[v] = "decrease" => last'[v] >= counter'
    BY <1>1, <1>3, <1>4, <1>6, <1>8, <2>1 DEF CounterInv
  <2> QED BY <1>9, <2>2 DEF CounterInv
<1> QED BY <1>11, <1>12, <1>13, <1>14

\* Every step keeps the invariant, ...
LEMMA NextKept == AccountsInv /\ [Next]_vars => AccountsInv'
<1> SUFFICES ASSUME AccountsInv, [Next]_vars PROVE AccountsInv'
  OBVIOUS
<1>1. CASE next_round
  BY <1>1, RoundKept
<1>2. ASSUME NEW w \in Worker, init_fill(w) \/ init_verify(w) PROVE AccountsInv'
  BY <1>2, FillKept, VerifyKept
<1>3. ASSUME NEW w \in Worker, run(w) PROVE AccountsInv'
  BY <1>3, LongKept, AllocTxKept, ShortKept, CommitKept DEF run
<1>4. ASSUME NEW w \in Worker, check(w) PROVE AccountsInv'
  BY <1>4, SetKept, SeeKept, FetchKept, DecreaseKept, ZeroKept DEF check
<1>5. CASE UNCHANGED vars
  BY <1>5 DEF vars, workerVars, AccountsInv, AccountsTypeOK, PlaceInv, LeftInv, FirstInv,
              BankInv, CounterInv
<1> QED BY <1>1, <1>2, <1>3, <1>4, <1>5 DEF Next

\* ... which therefore always holds.
THEOREM AccountsHold == Spec => []AccountsInv
BY InitAccounts, NextKept, PTL DEF Spec
-----------------------------------------------------------------------------
\* Every variable of WorkloadBank keeps its type.
THEOREM AccountsTypeCorrect == Spec => []AccountsTypeOK
<1>1. AccountsInv => AccountsTypeOK
  BY DEF AccountsInv
<1> QED BY <1>1, AccountsHold, PTL

\* Whatever transfers, additions and removals the workers make, in any order, the balances
\* and parities of the segments add up to the initial balance of every account.
THEOREM BankAlwaysAddsUp == Spec => []BankAddsUp
<1>1. AccountsInv => BankAddsUp
  BY BankTyped, SumsOfBank DEF AccountsInv, BankInv, AddsUp, BankAddsUp
<1> QED BY <1>1, AccountsHold, PTL

\* alloc_tx never frees the first segment, leaves no gap and no empty segment, and at least
\* two accounts (or all, if there is one).
THEOREM SegmentsStayFilled == Spec => []SegmentsFilled
<1>1. AccountsInv => SegmentsFilled
  <2> SUFFICES ASSUME AccountsInv, round = "run" PROVE SegmentsFilled
    BY DEF SegmentsFilled
  <2>1. bank \in Banks /\ Filled(bank)
    BY BankTyped DEF AccountsInv, BankInv
  <2>2. Total >= Min({NbAccounts, 2})
    BY <2>1, SumsOfBank DEF Filled, Least
  <2>3. Len(Last(bank).accounts) \in 1 .. NbAccounts
    BY <2>1 DEF Filled, Last
  <2> QED BY <2>1, <2>2, <2>3 DEF Filled, SegmentsFilled
<1> QED BY <1>1, AccountsHold, PTL

\* Over an atomic memory no worker of any round ever reports an error: neither init's check,
\* nor an audit of run, nor any test of the counter in check fails.
THEOREM NoFalseAlarmEver == Spec => []NoFalseAlarm
<1>1. AccountsInv => NoFalseAlarm
  BY DEF AccountsInv, AccountsTypeOK, PlaceInv, NoFalseAlarm
<1> QED BY <1>1, AccountsHold, PTL
=============================================================================
