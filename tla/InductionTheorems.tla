------------------------- MODULE InductionTheorems --------------------------
(***************************************************************************)
(* Induction over numbers and over finite sets, and what it says of sums.  *)
(* No instance of a theorem that takes a predicate is within reach of the  *)
(* provers, so induction is over a SET of counterexamples: LeastNat and    *)
(* LeastSubset give a least one, and each proof then makes a smaller one.  *)
(* SumFunctionOnSet is a fold, which the library CHOOSEs; FoldExists and   *)
(* FoldUnique say what has been chosen.                                    *)
(***************************************************************************)
EXTENDS Functions, FiniteSetTheorems, NaturalsInduction, TLAPS

\* A nonempty set of numbers has a least one.
LEMMA LeastNat ==
  ASSUME NEW T \in SUBSET Nat, T # {}
  PROVE  \E n \in T : \A m \in T : n <= m
<1> DEFINE R == OpToRel(<, Nat)
<1>1. IsWellFoundedOn(R, Nat)
  BY NatLessThanWellFounded
<1>2. \A x, y \in Nat : <<x, y>> \in R <=> x < y
  BY DEF OpToRel
<1> HIDE DEF R
<1>3. PICK n \in T : \A m \in T : ~ <<m, n>> \in R
  BY <1>1, WFMin
<1>4. ASSUME NEW m \in T PROVE n <= m
  <2>1. m \in Nat /\ n \in Nat /\ ~ <<m, n>> \in R
    BY <1>3
  <2>2. ~ m < n
    BY <1>2, <2>1
  <2> QED BY <2>1, <2>2
<1> QED
  BY <1>4

\* A nonempty collection of subsets of a finite set has one that contains no other of them.
LEMMA LeastSubset ==
  ASSUME NEW S, IsFiniteSet(S), NEW T \in SUBSET SUBSET S, T # {}
  PROVE  \E A \in T : \A B \in T : B \subseteq A => B = A
<1>1. IsWellFoundedOn(StrictSubsetOrdering(S), SUBSET S)
  BY FS_FiniteSubsetsOfFinite, FS_StrictSubsetOrderingWellFounded
<1>2. \E A \in T : \A B \in T : ~ <<B, A>> \in StrictSubsetOrdering(S)
  BY <1>1, WFMin
<1>3. \A A, B \in SUBSET S : B \subseteq A /\ B # A => <<B, A>> \in StrictSubsetOrdering(S)
  BY DEF StrictSubsetOrdering
<1> QED
  BY <1>2, <1>3
-----------------------------------------------------------------------------
\* The fold of SumFunctionOnSet: what it takes from a set first, and its equation.
SomeOf(s) == CHOOSE x \in s : TRUE

SumStep(f, g, s) == IF s = {} THEN 0 ELSE f[SomeOf(s)] + g[s \ {SomeOf(s)}]

IsSumFold(f, A, g) == g = [s \in SUBSET A |-> SumStep(f, g, s)]

SumFold(f, A) == CHOOSE g : IsSumFold(f, A, g)

\* SumFunctionOnSet is that fold, ...
LEMMA SumIsFold == \A f, S : SumFunctionOnSet(f, S) = SumFold(f, S)[S]
BY Zenon DEF SumFunctionOnSet, FoldFunctionOnSet, MapThenFoldSet, SumFold, IsSumFold, SumStep, SomeOf

\* ... which takes out an element of the set; ...
LEMMA PickIn == \A s : s # {} => SomeOf(s) \in s
BY DEF SomeOf

\* ... two functions with the equation agree on the subsets they share, ...
LEMMA FoldUnique ==
  ASSUME NEW f, NEW A, NEW B, NEW g, NEW h, IsFiniteSet(A),
         IsSumFold(f, A, g), IsSumFold(f, B, h), NEW C \in SUBSET (A \cap B)
  PROVE  g[C] = h[C]
<1> DEFINE T == {D \in SUBSET (A \cap B) : g[D] # h[D]}
<1> SUFFICES ASSUME T # {} PROVE FALSE
  OBVIOUS
<1>1. T \in SUBSET SUBSET A
  OBVIOUS
<1>2. PICK D \in T : \A E \in T : E \subseteq D => E = D
  <2> HIDE DEF T
  <2> QED BY <1>1, LeastSubset
<1>3. g[D] = SumStep(f, g, D) /\ h[D] = SumStep(f, h, D)
  BY DEF IsSumFold
<1>4. CASE D = {}
  BY <1>3, <1>4 DEF SumStep
<1>5. CASE D # {}
  <2>1. SomeOf(D) \in D
    BY <1>5, PickIn
  <2>2. g[D \ {SomeOf(D)}] = h[D \ {SomeOf(D)}]
    BY <1>2, <2>1
  <2> QED
    BY <1>3, <1>5, <2>2 DEF SumStep
<1> QED
  BY <1>4, <1>5

\* ... and there is one on the subsets of any finite set.
LEMMA FoldExists ==
  ASSUME NEW f, NEW S, IsFiniteSet(S)
  PROVE  \E g : IsSumFold(f, S, g)
<1> DEFINE T == {A \in SUBSET S : ~ \E g : IsSumFold(f, A, g)}
<1> SUFFICES ASSUME T # {} PROVE FALSE
  OBVIOUS
<1>1. PICK A \in T : \A B \in T : B \subseteq A => B = A
  <2>1. T \in SUBSET SUBSET S
    OBVIOUS
  <2> HIDE DEF T
  <2> QED BY <2>1, LeastSubset
<1>2. ASSUME NEW B \in SUBSET A, B # A PROVE IsSumFold(f, B, SumFold(f, B))
  BY <1>1, <1>2 DEF SumFold
<1> DEFINE h == [B \in SUBSET A |->
                   IF B = {} THEN 0
                   ELSE f[SomeOf(B)] + SumFold(f, B \ {SomeOf(B)})[B \ {SomeOf(B)}]]
<1>3. ASSUME NEW B \in SUBSET A, B # A PROVE h[B] = SumFold(f, B)[B]
  <2>0. IsSumFold(f, B, SumFold(f, B))
    BY <1>2, <1>3
  <2>1. SumFold(f, B)[B] = SumStep(f, SumFold(f, B), B)
    BY <2>0 DEF IsSumFold
  <2>2. CASE B = {}
    BY <2>1, <2>2 DEF SumStep
  <2>3. CASE B # {}
    <3> DEFINE C == B \ {SomeOf(B)}
    <3>1. C \in SUBSET A /\ C # A /\ C \in SUBSET (B \cap C)
      BY <1>3, <2>3, PickIn
    <3>2. IsSumFold(f, C, SumFold(f, C)) /\ IsFiniteSet(B)
      BY <1>2, <3>1, FS_Subset
    <3>3. SumFold(f, B)[C] = SumFold(f, C)[C]
      BY <2>0, <3>1, <3>2, FoldUnique
    <3> QED
      BY <2>1, <2>3, <3>3 DEF SumStep
  <2> QED BY <2>2, <2>3
<1>4. ASSUME NEW B \in SUBSET A PROVE h[B] = SumStep(f, h, B)
  <2>1. CASE B = {}
    BY <2>1 DEF SumStep
  <2>2. CASE B # {}
    <3> DEFINE C == B \ {SomeOf(B)}
    <3>1. C \in SUBSET A /\ C # A
      BY <2>2, PickIn
    <3>2. h[C] = SumFold(f, C)[C]
      BY <1>3, <3>1
    <3> QED
      BY <2>2, <3>2 DEF SumStep
  <2> QED BY <2>1, <2>2
<1>5. IsSumFold(f, A, h)
  <2>1. h = [B \in SUBSET A |-> h[B]]
    OBVIOUS
  <2> HIDE DEF h
  <2> QED BY <1>4, <2>1 DEF IsSumFold
<1> QED
  BY <1>5

\* Sums of integers over finite sets: of nothing, ...
LEMMA SumEmpty == \A f : SumFunctionOnSet(f, {}) = 0
<1> SUFFICES ASSUME NEW f PROVE SumFold(f, {})[{}] = 0
  BY SumIsFold
<1>1. IsSumFold(f, {}, SumFold(f, {}))
  BY FoldExists, FS_EmptySet DEF SumFold
<1> QED BY <1>1 DEF IsSumFold, SumStep

\* ... of the element that the fold takes, and the others, ...
LEMMA SumPick ==
  ASSUME NEW f, NEW S, IsFiniteSet(S), S # {}
  PROVE  SumFunctionOnSet(f, S) = f[SomeOf(S)] + SumFunctionOnSet(f, S \ {SomeOf(S)})
<1> DEFINE C == S \ {SomeOf(S)}
<1>1. C \in SUBSET (S \cap C) /\ IsFiniteSet(C)
  BY FS_Subset
<1>2. IsSumFold(f, S, SumFold(f, S)) /\ IsSumFold(f, C, SumFold(f, C))
  BY <1>1, FoldExists DEF SumFold
<1>3. SumFold(f, S)[C] = SumFold(f, C)[C]
  BY <1>1, <1>2, FoldUnique
<1>4. SumFold(f, S)[S] = SumStep(f, SumFold(f, S), S)
  BY <1>2 DEF IsSumFold
<1> QED BY <1>3, <1>4, SumIsFold DEF SumStep

\* ... which are integers, ...
LEMMA SumType ==
  ASSUME NEW f, NEW S, IsFiniteSet(S), \A x \in S : f[x] \in Int
  PROVE  SumFunctionOnSet(f, S) \in Int
<1> DEFINE T == {A \in SUBSET S : SumFunctionOnSet(f, A) \notin Int}
<1> SUFFICES ASSUME T # {} PROVE FALSE
  OBVIOUS
<1>1. PICK A \in T : \A B \in T : B \subseteq A => B = A
  <2>1. T \in SUBSET SUBSET S
    OBVIOUS
  <2> HIDE DEF T
  <2> QED BY <2>1, LeastSubset
<1>2. IsFiniteSet(A)
  BY FS_Subset
<1>3. A # {}
  BY SumEmpty
<1>4. SomeOf(A) \in A /\ A \ {SomeOf(A)} \in SUBSET S /\ A \ {SomeOf(A)} # A
  BY <1>3, PickIn
<1>5. SumFunctionOnSet(f, A \ {SomeOf(A)}) \in Int
  BY <1>1, <1>4
<1> QED
  BY <1>2, <1>3, <1>4, <1>5, SumPick

\* ... of any element, and the others: the order does not matter, ...
LEMMA SumRemove ==
  ASSUME NEW f, NEW S, IsFiniteSet(S), \A x \in S : f[x] \in Int, NEW a \in S
  PROVE  SumFunctionOnSet(f, S) = f[a] + SumFunctionOnSet(f, S \ {a})
<1> DEFINE Sum(A) == SumFunctionOnSet(f, A)
           T == {A \in SUBSET S : \E x \in A : Sum(A) # f[x] + Sum(A \ {x})}
<1> SUFFICES ASSUME T # {} PROVE FALSE
  OBVIOUS
<1>1. PICK A \in T : \A B \in T : B \subseteq A => B = A
  <2>1. T \in SUBSET SUBSET S
    OBVIOUS
  <2> HIDE DEF T
  <2> QED BY <2>1, LeastSubset
<1>2. PICK x \in A : Sum(A) # f[x] + Sum(A \ {x})
  BY <1>1
<1> DEFINE c == SomeOf(A)
<1>3. c \in A /\ Sum(A) = f[c] + Sum(A \ {c})
  <2>1. IsFiniteSet(A)
    BY FS_Subset
  <2> QED BY <1>2, <2>1, SumPick, PickIn
<1> HIDE DEF c
<1>4. x # c
  BY <1>2, <1>3
<1>5. Sum(A \ {c}) = f[x] + Sum((A \ {c}) \ {x})
  <2>1. A \ {c} \in SUBSET S /\ A \ {c} # A /\ x \in A \ {c}
    BY <1>3, <1>4
  <2> QED BY <1>1, <2>1
<1>6. Sum(A \ {x}) = f[c] + Sum((A \ {x}) \ {c})
  <2>1. A \ {x} \in SUBSET S /\ A \ {x} # A /\ c \in A \ {x}
    BY <1>3, <1>4
  <2> QED BY <1>1, <2>1
<1>7. (A \ {c}) \ {x} = (A \ {x}) \ {c}
  OBVIOUS
<1>8. f[c] \in Int /\ f[x] \in Int /\ Sum((A \ {x}) \ {c}) \in Int
  <2>1. IsFiniteSet((A \ {x}) \ {c}) /\ \A y \in (A \ {x}) \ {c} : f[y] \in Int
    BY FS_Subset
  <2> QED BY <1>3, <2>1, SumType
<1>10. Sum(A) = f[c] + (f[x] + Sum((A \ {x}) \ {c}))
  BY <1>3, <1>5, <1>7, Zenon
<1>11. f[c] + (f[x] + Sum((A \ {x}) \ {c})) = f[x] + (f[c] + Sum((A \ {x}) \ {c}))
  BY <1>8
<1> QED
  BY <1>2, <1>6, <1>10, <1>11, Zenon

\* ... of one element, ...
LEMMA SumOne ==
  ASSUME NEW f, NEW x, f[x] \in Int
  PROVE  SumFunctionOnSet(f, {x}) = f[x]
<1>1. IsFiniteSet({x}) /\ {x} \ {x} = {}
  BY FS_Singleton
<1>2. SumFunctionOnSet(f, {x}) = f[x] + SumFunctionOnSet(f, {})
  BY <1>1, SumRemove
<1>3. SumFunctionOnSet(f, {}) = 0
  BY SumEmpty
<1> QED BY ONLY <1>2, <1>3, f[x] \in Int

\* ... of one element more, ...
LEMMA SumAdd ==
  ASSUME NEW f, NEW S, IsFiniteSet(S), NEW a, a \notin S, \A x \in S \cup {a} : f[x] \in Int
  PROVE  SumFunctionOnSet(f, S \cup {a}) = f[a] + SumFunctionOnSet(f, S)
<1>1. IsFiniteSet(S \cup {a}) /\ (S \cup {a}) \ {a} = S
  BY FS_AddElement
<1> QED BY <1>1, SumRemove

\* ... of functions that agree, ...
LEMMA SumSame ==
  ASSUME NEW f, NEW g, NEW S, IsFiniteSet(S), \A x \in S : f[x] = g[x]
  PROVE  SumFunctionOnSet(f, S) = SumFunctionOnSet(g, S)
<1> DEFINE T == {A \in SUBSET S : SumFunctionOnSet(f, A) # SumFunctionOnSet(g, A)}
<1> SUFFICES ASSUME T # {} PROVE FALSE
  OBVIOUS
<1>1. PICK A \in T : \A B \in T : B \subseteq A => B = A
  <2>1. T \in SUBSET SUBSET S
    OBVIOUS
  <2> HIDE DEF T
  <2> QED BY <2>1, LeastSubset
<1>2. IsFiniteSet(A)
  BY FS_Subset
<1>3. A # {}
  BY SumEmpty
<1>4. SomeOf(A) \in A /\ A \ {SomeOf(A)} \in SUBSET S /\ A \ {SomeOf(A)} # A
  BY <1>3, PickIn
<1>5. SumFunctionOnSet(f, A \ {SomeOf(A)}) = SumFunctionOnSet(g, A \ {SomeOf(A)})
  BY <1>1, <1>4
<1> QED
  BY <1>2, <1>3, <1>4, <1>5, SumPick

\* ... of functions that differ at one element, ...
LEMMA SumChange ==
  ASSUME NEW f, NEW g, NEW S, IsFiniteSet(S), NEW a \in S,
         \A x \in S : f[x] \in Int /\ g[x] \in Int /\ (x # a => f[x] = g[x])
  PROVE  SumFunctionOnSet(g, S) = SumFunctionOnSet(f, S) - f[a] + g[a]
<1>1. IsFiniteSet(S \ {a}) /\ f[a] \in Int /\ g[a] \in Int
  BY FS_Subset
<1>2. SumFunctionOnSet(f, S \ {a}) = SumFunctionOnSet(g, S \ {a})
  BY <1>1, SumSame
<1>3. SumFunctionOnSet(f, S \ {a}) \in Int
  BY <1>1, SumType
<1>4. SumFunctionOnSet(f, S) = f[a] + SumFunctionOnSet(f, S \ {a})
  BY SumRemove
<1>5. SumFunctionOnSet(g, S) = g[a] + SumFunctionOnSet(g, S \ {a})
  BY SumRemove
<1> QED
  BY ONLY <1>1, <1>2, <1>3, <1>4, <1>5

\* ... of natural numbers, ...
LEMMA SumNat ==
  ASSUME NEW f, NEW S, IsFiniteSet(S), \A x \in S : f[x] \in Nat
  PROVE  SumFunctionOnSet(f, S) \in Nat
<1> DEFINE T == {A \in SUBSET S : SumFunctionOnSet(f, A) \notin Nat}
<1> SUFFICES ASSUME T # {} PROVE FALSE
  OBVIOUS
<1>1. PICK A \in T : \A B \in T : B \subseteq A => B = A
  <2>1. T \in SUBSET SUBSET S
    OBVIOUS
  <2> HIDE DEF T
  <2> QED BY <2>1, LeastSubset
<1>2. IsFiniteSet(A)
  BY FS_Subset
<1>3. A # {}
  BY SumEmpty
<1>4. SomeOf(A) \in A /\ A \ {SomeOf(A)} \in SUBSET S /\ A \ {SomeOf(A)} # A
  BY <1>3, PickIn
<1>5. SumFunctionOnSet(f, A \ {SomeOf(A)}) \in Nat
  BY <1>1, <1>4
<1> QED
  BY <1>2, <1>3, <1>4, <1>5, SumPick

\* ... and of one number time and again.
LEMMA SumConst ==
  ASSUME NEW f, NEW S, IsFiniteSet(S), NEW c \in Nat, \A x \in S : f[x] = c
  PROVE  SumFunctionOnSet(f, S) = c * Cardinality(S)
<1> DEFINE T == {A \in SUBSET S : SumFunctionOnSet(f, A) # c * Cardinality(A)}
<1> SUFFICES ASSUME T # {} PROVE FALSE
  OBVIOUS
<1>1. PICK A \in T : \A B \in T : B \subseteq A => B = A
  <2>1. T \in SUBSET SUBSET S
    OBVIOUS
  <2> HIDE DEF T
  <2> QED BY <2>1, LeastSubset
<1>2. IsFiniteSet(A)
  BY FS_Subset
<1>3. A # {}
  BY SumEmpty, FS_EmptySet
<1> DEFINE B == A \ {SomeOf(A)}
<1>4. SomeOf(A) \in A /\ B \in SUBSET S /\ B # A
  BY <1>3, PickIn
<1>5. SumFunctionOnSet(f, B) = c * Cardinality(B)
  BY <1>1, <1>4
<1>6. Cardinality(A) = Cardinality(B) + 1 /\ Cardinality(B) \in Nat
  BY <1>2, <1>4, FS_RemoveElement, FS_CardinalityType, FS_Subset
<1>7. SumFunctionOnSet(f, A) = c + SumFunctionOnSet(f, B)
  BY <1>2, <1>3, <1>4, SumPick
<1> HIDE DEF B
<1>8. \A n \in Nat : c * (n + 1) = c + c * n
  OBVIOUS
<1>9. SumFunctionOnSet(f, A) = c * Cardinality(A)
  BY ONLY <1>5, <1>6, <1>7, <1>8
<1> QED
  BY <1>9

\* Sums along an interval from 1: the last element, ...
LEMMA SumUpTo ==
  ASSUME NEW f, NEW n \in Nat, n > 0, \A i \in 1 .. n : f[i] \in Int
  PROVE  SumFunctionOnSet(f, 1 .. n) = SumFunctionOnSet(f, 1 .. n - 1) + f[n]
<1>1. IsFiniteSet(1 .. n) /\ IsFiniteSet(1 .. n - 1) /\ (1 .. n) \ {n} = 1 .. n - 1 /\ n \in 1 .. n
  BY FS_Interval
<1>2. SumFunctionOnSet(f, 1 .. n) = f[n] + SumFunctionOnSet(f, 1 .. n - 1)
  BY <1>1, SumRemove
<1>3. SumFunctionOnSet(f, 1 .. n - 1) \in Int /\ f[n] \in Int
  BY <1>1, SumType
<1> QED
  BY ONLY <1>2, <1>3

\* ... and a change of one element.
LEMMA SumChangeUpTo ==
  ASSUME NEW f, NEW g, NEW n, n \in Nat, NEW k, k \in 1 .. n,
         \A i \in 1 .. n : f[i] \in Int /\ g[i] \in Int /\ (i # k => f[i] = g[i])
  PROVE  SumFunctionOnSet(g, 1 .. n) = SumFunctionOnSet(f, 1 .. n) - f[k] + g[k]
<1> DEFINE I == 1 .. n
<1>1. IsFiniteSet(I) /\ k \in I
  BY FS_Interval
<1>2. \A i \in I : f[i] \in Int /\ g[i] \in Int /\ (i # k => f[i] = g[i])
  OBVIOUS
<1> HIDE DEF I
<1>3. SumFunctionOnSet(g, I) = SumFunctionOnSet(f, I) - f[k] + g[k]
  BY ONLY <1>1, <1>2, SumChange
<1> QED BY <1>3 DEF I

\* ... of two functions added, ...
LEMMA SumPlus ==
  ASSUME NEW f, NEW g, NEW h, NEW S, IsFiniteSet(S),
         \A x \in S : f[x] \in Int /\ g[x] \in Int /\ h[x] = f[x] + g[x]
  PROVE  SumFunctionOnSet(h, S) = SumFunctionOnSet(f, S) + SumFunctionOnSet(g, S)
<1> DEFINE Sum(k, A) == SumFunctionOnSet(k, A)
           T == {A \in SUBSET S : Sum(h, A) # Sum(f, A) + Sum(g, A)}
<1> SUFFICES ASSUME T # {} PROVE FALSE
  OBVIOUS
<1>1. PICK A \in T : \A B \in T : B \subseteq A => B = A
  <2>1. T \in SUBSET SUBSET S
    OBVIOUS
  <2> HIDE DEF T
  <2> QED BY <2>1, LeastSubset
<1>2. IsFiniteSet(A)
  BY FS_Subset
<1>3. A # {}
  <2> SUFFICES ASSUME A = {} PROVE FALSE
    OBVIOUS
  <2>1. Sum(f, A) = 0 /\ Sum(g, A) = 0 /\ Sum(h, A) = 0
    BY SumEmpty
  <2>2. Sum(h, A) # Sum(f, A) + Sum(g, A)
    BY <1>1
  <2> HIDE DEF Sum
  <2> QED BY <2>1, <2>2
<1> DEFINE a == SomeOf(A)
           B == A \ {a}
<1>4. a \in A /\ a \in S /\ B \in SUBSET S /\ B # A /\ IsFiniteSet(B)
  BY <1>2, <1>3, PickIn, FS_Subset
<1>5. Sum(h, B) = Sum(f, B) + Sum(g, B)
  BY <1>1, <1>4
<1>6. Sum(h, A) = h[a] + Sum(h, B) /\ Sum(f, A) = f[a] + Sum(f, B) /\ Sum(g, A) = g[a] + Sum(g, B)
  BY <1>2, <1>3, SumPick
<1>7. Sum(f, B) \in Int /\ Sum(g, B) \in Int
  <2>1. \A x \in B : f[x] \in Int /\ g[x] \in Int
    BY <1>4
  <2> HIDE DEF B
  <2> QED BY ONLY <1>4, <2>1, SumType
<1>8. Sum(h, A) # Sum(f, A) + Sum(g, A)
  BY <1>1
<1>9. f[a] \in Int /\ g[a] \in Int /\ h[a] = f[a] + g[a]
  BY <1>4
<1> HIDE DEF Sum, a, B
<1> QED BY ONLY <1>5, <1>6, <1>7, <1>8, <1>9

\* ... of rows whose columns all add up to nothing, ...
LEMMA SumColumns ==
  ASSUME NEW f, NEW S, NEW C, IsFiniteSet(S), IsFiniteSet(C),
         \A x \in S, y \in C : f[x][y] \in Int,
         \A y \in C : SumFunctionOnSet([x \in S |-> f[x][y]], S) = 0
  PROVE  SumFunctionOnSet([x \in S |-> SumFunctionOnSet(f[x], C)], S) = 0
<1> DEFINE Rows(A) == [x \in S |-> SumFunctionOnSet(f[x], A)]
           T == {A \in SUBSET C : SumFunctionOnSet(Rows(A), S) # 0}
<1> SUFFICES ASSUME T # {} PROVE FALSE
  OBVIOUS
<1>1. PICK A \in T : \A B \in T : B \subseteq A => B = A
  <2>1. T \in SUBSET SUBSET C
    OBVIOUS
  <2> HIDE DEF T
  <2> QED BY <2>1, LeastSubset
<1>2. IsFiniteSet(A)
  BY FS_Subset
<1>3. A # {}
  <2> SUFFICES ASSUME A = {} PROVE FALSE
    OBVIOUS
  <2>1. \A x \in S : Rows(A)[x] = 0
    BY SumEmpty
  <2> PICK r : r = Rows(A)
    OBVIOUS
  <2>2. SumFunctionOnSet(r, S) = 0 * Cardinality(S)
    <3>1. \A x \in S : r[x] = 0
      BY <2>1
    <3> QED BY ONLY <3>1, IsFiniteSet(S), 0 \in Nat, SumConst
  <2>3. Cardinality(S) \in Nat
    BY FS_CardinalityType
  <2> QED BY <1>1, <2>2, <2>3
<1> DEFINE y == SomeOf(A)
           B == A \ {y}
           column == [x \in S |-> f[x][y]]
<1>4. y \in A /\ y \in C /\ B \in SUBSET C /\ B # A /\ IsFiniteSet(B)
  BY <1>2, <1>3, PickIn, FS_Subset
<1>5. SumFunctionOnSet(Rows(B), S) = 0 /\ SumFunctionOnSet(column, S) = 0
  BY <1>1, <1>4
<1>6. ASSUME NEW x \in S
      PROVE  /\ Rows(A)[x] = column[x] + Rows(B)[x]
             /\ column[x] \in Int /\ Rows(B)[x] \in Int
  <2> PICK g : g = f[x]
    OBVIOUS
  <2>1. \A z \in B : g[z] \in Int
    BY <1>4
  <2>2. SumFunctionOnSet(g, A) = g[y] + SumFunctionOnSet(g, B)
    BY <1>2, <1>3, SumPick
  <2>3. SumFunctionOnSet(g, B) \in Int
    <3> HIDE DEF B
    <3> QED BY ONLY <1>4, <2>1, SumType
  <2> HIDE DEF y, B
  <2> QED BY <1>4, <2>2, <2>3
<1> PICK r : r = Rows(A)
  OBVIOUS
<1> PICK q : q = Rows(B)
  OBVIOUS
<1> PICK p : p = column
  OBVIOUS
<1>7. \A x \in S : p[x] \in Int /\ q[x] \in Int /\ r[x] = p[x] + q[x]
  BY <1>6
<1>8. SumFunctionOnSet(r, S) = SumFunctionOnSet(p, S) + SumFunctionOnSet(q, S)
  BY ONLY <1>7, IsFiniteSet(S), SumPlus
<1> HIDE DEF Rows, column, y, B
<1> QED BY <1>1, <1>5, <1>8

\* ... and of a function over another's values.
LEMMA SumReindex ==
  ASSUME NEW f, NEW g, NEW p, NEW S, IsFiniteSet(S),
         \A x, y \in S : p[x] = p[y] => x = y,
         \A x \in S : f[x] \in Int /\ f[x] = g[p[x]]
  PROVE  SumFunctionOnSet(g, {p[x] : x \in S}) = SumFunctionOnSet(f, S)
<1> DEFINE Of(A) == {p[x] : x \in A}
           T == {A \in SUBSET S : SumFunctionOnSet(g, Of(A)) # SumFunctionOnSet(f, A)}
<1> SUFFICES ASSUME T # {} PROVE FALSE
  OBVIOUS
<1>1. PICK A \in T : \A B \in T : B \subseteq A => B = A
  <2>1. T \in SUBSET SUBSET S
    OBVIOUS
  <2> HIDE DEF T
  <2> QED BY <2>1, LeastSubset
<1>2. IsFiniteSet(A) /\ A \subseteq S
  BY FS_Subset
<1>3. A # {}
  <2> SUFFICES ASSUME A = {} PROVE FALSE
    OBVIOUS
  <2>1. Of(A) = {}
    OBVIOUS
  <2> HIDE DEF Of
  <2> QED BY <1>1, <2>1, SumEmpty
<1> DEFINE a == SomeOf(A)
           B == A \ {a}
<1>4. a \in A /\ a \in S /\ B \in SUBSET S /\ B # A
  BY <1>2, <1>3, PickIn
<1>5. SumFunctionOnSet(g, Of(B)) = SumFunctionOnSet(f, B)
  BY <1>1, <1>4
<1>6. SumFunctionOnSet(f, A) = f[a] + SumFunctionOnSet(f, B)
  BY <1>2, <1>3, SumPick
<1>7. Of(A) \ {p[a]} = Of(B) /\ p[a] \in Of(A)
  <2>1. \A x \in A : p[x] = p[a] => x = a
    BY <1>2, <1>4
  <2> HIDE DEF a
  <2> QED BY <1>4, <2>1
<1>8. IsFiniteSet(Of(A)) /\ \A v \in Of(A) : g[v] \in Int
  <2>1. IsFiniteSet(Of(A))
    <3>1. [x \in A |-> p[x]] \in Surjection(A, Of(A))
      BY DEF Surjection
    <3> HIDE DEF Of
    <3> QED BY <1>2, <3>1, FS_Surjection
  <2>2. \A x \in A : g[p[x]] \in Int
    BY <1>2
  <2> QED BY <2>1, <2>2
<1>9. SumFunctionOnSet(g, Of(A)) = g[p[a]] + SumFunctionOnSet(g, Of(B))
  <2> HIDE DEF Of, a, B
  <2> PICK V : V = Of(A)
    OBVIOUS
  <2>1. SumFunctionOnSet(g, V) = g[p[a]] + SumFunctionOnSet(g, V \ {p[a]})
    BY ONLY <1>7, <1>8, V = Of(A), SumRemove
  <2> QED BY <1>7, <2>1
<1>10. g[p[a]] = f[a] /\ SumFunctionOnSet(g, Of(A)) # SumFunctionOnSet(f, A)
  BY <1>1, <1>4
<1> HIDE DEF Of, a, B
<1> QED BY ONLY <1>5, <1>6, <1>9, <1>10
=============================================================================
