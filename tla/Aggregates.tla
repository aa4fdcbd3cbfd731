------------------------------ MODULE Aggregates ------------------------------
(***************************************************************************)
(* What the models compute from sets with CHOOSE and with folds: least and *)
(* greatest elements, and sums.  Induction is by sets: a property is the   *)
(* set of what has it.                                                     *)
(***************************************************************************)
EXTENDS FiniteSetsExt, TLAPS, WellFoundedInduction, FiniteSetTheorems

(* Every nonempty set of naturals has a least element.                     *)
LEMMA LeastNatural ==
  ASSUME NEW S \in SUBSET Nat, S # {}
  PROVE  \E m \in S : \A n \in S : m <= n
<1> DEFINE R == OpToRel(<, Nat)
<1>1. IsWellFoundedOn(R, Nat)
  BY NatLessThanWellFounded
<1>2. PICK m \in S : \A n \in S : ~(<<n, m>> \in R)
  <2> HIDE DEF R
  <2> QED BY <1>1, WFMin
<1>3. \A n \in S : m <= n
  <2> TAKE n \in S
  <2>1. ~(<<n, m>> \in Nat \X Nat /\ n < m)
    BY <1>2 DEF OpToRel
  <2> QED BY <2>1
<1> QED BY <1>3

(* Every nonempty set of numbers below a bound has a greatest element.     *)
LEMMA GreatestBelow ==
  ASSUME NEW N \in Nat, NEW S \in SUBSET (0 .. N), S # {}
  PROVE  \E m \in S : \A n \in S : n <= m
<1> DEFINE D == {N - n : n \in S}
<1>1. D \in SUBSET Nat /\ D # {}
  <2>1. \A n \in S : N - n \in Nat
    OBVIOUS
  <2>2. PICK n \in S : TRUE
    OBVIOUS
  <2>3. N - n \in D
    OBVIOUS
  <2> QED BY <2>1, <2>3
<1>2. PICK d \in D : \A e \in D : d <= e
  <2> HIDE DEF D
  <2> QED BY <1>1, LeastNatural
<1>3. PICK m \in S : d = N - m
  BY <1>2
<1>4. \A n \in S : n <= m
  <2> TAKE n \in S
  <2>1. N - m <= N - n
    BY <1>2, <1>3
  <2> QED BY <2>1
<1> QED BY <1>4

(* Induction over the naturals.                                            *)
LEMMA NaturalsBySteps ==
  ASSUME NEW P, 0 \in P, \A n \in Nat : n \in P => n + 1 \in P
  PROVE  \A n \in Nat : n \in P
<1> DEFINE Bad == {n \in Nat : n \notin P}
<1> SUFFICES ASSUME Bad # {} PROVE FALSE
  OBVIOUS
<1>1. PICK n \in Bad : \A m \in Bad : n <= m
  <2>1. Bad \in SUBSET Nat
    OBVIOUS
  <2> HIDE DEF Bad
  <2> QED BY <2>1, LeastNatural
<1>2. n # 0
  BY <1>1
<1>3. n - 1 \in Nat /\ ~(n <= n - 1)
  BY <1>1, <1>2
<1>4. n - 1 \in P
  BY <1>1, <1>3
<1>5. (n - 1) + 1 \in P
  BY <1>3, <1>4
<1> QED BY <1>1, <1>3, <1>5

(* Induction over the subsets of a finite set, one element at a time.      *)
LEMMA SubsetsBySteps ==
  ASSUME NEW S, IsFiniteSet(S), NEW P, {} \in P,
         \A T \in SUBSET S : T # {} /\ (\A x \in T : T \ {x} \in P) => T \in P
  PROVE  \A T \in SUBSET S : T \in P
<1> DEFINE N == {n \in Nat : \A T \in SUBSET S : Cardinality(T) = n => T \in P}
<1>1. \A T \in SUBSET S : IsFiniteSet(T) /\ Cardinality(T) \in Nat
  BY FS_Subset, FS_CardinalityType
<1>2. 0 \in N
  BY <1>1, FS_EmptySet
<1>3. \A n \in Nat : n \in N => n + 1 \in N
  <2> TAKE n \in Nat
  <2> HAVE n \in N
  <2> SUFFICES ASSUME NEW T \in SUBSET S, Cardinality(T) = n + 1
               PROVE  T \in P
    OBVIOUS
  <2>1. T # {}
    <3> SUFFICES ASSUME T = {} PROVE FALSE
      OBVIOUS
    <3>1. Cardinality(T) = 0
      BY FS_EmptySet
    <3> QED BY <3>1
  <2>2. \A x \in T : T \ {x} \in P
    <3> TAKE x \in T
    <3>1. Cardinality(T \ {x}) = n
      BY <1>1, FS_RemoveElement
    <3> QED BY <3>1
  <2> QED BY <2>1, <2>2
<1>4. \A n \in Nat : n \in N
  <2> HIDE DEF N
  <2> QED BY <1>2, <1>3, NaturalsBySteps
<1> QED BY <1>1, <1>4

(* Max and Min of the community modules, where there is a greatest and a   *)
(* least element to choose.                                                *)
LEMMA MaxIsGreatest ==
  ASSUME NEW S \in SUBSET Nat, IsFiniteSet(S), S # {}
  PROVE  Max(S) \in S /\ \A n \in S : n <= Max(S)
<1> DEFINE P == {T \in SUBSET S : T # {} => \E m \in T : \A n \in T : m >= n}
<1>1. {} \in P
  OBVIOUS
<1>2. \A T \in SUBSET S : T # {} /\ (\A x \in T : T \ {x} \in P) => T \in P
  <2> TAKE T \in SUBSET S
  <2> HAVE T # {} /\ \A x \in T : T \ {x} \in P
  <2>1. PICK x \in T : TRUE
    OBVIOUS
  <2>2. CASE T \ {x} = {}
    BY <2>1, <2>2
  <2>3. CASE T \ {x} # {}
    <3>1. PICK m \in T \ {x} : \A n \in T \ {x} : m >= n
      BY <2>1, <2>3
    <3>2. CASE m >= x
      BY <3>1, <3>2
    <3>3. CASE ~(m >= x)
      <4>1. \A n \in T : x >= n
        BY <3>1, <3>3
      <4> QED BY <4>1
    <3> QED BY <3>2, <3>3
  <2> QED BY <2>2, <2>3
<1>3. S \in P
  <2> HIDE DEF P
  <2> QED BY <1>1, <1>2, SubsetsBySteps
<1>4. PICK m \in S : \A n \in S : m >= n
  BY <1>3
<1>5. Max(S) \in S /\ \A n \in S : Max(S) >= n
  BY <1>4 DEF Max
<1> QED BY <1>5

LEMMA MinIsLeast ==
  ASSUME NEW S \in SUBSET Nat, S # {}
  PROVE  Min(S) \in S /\ \A n \in S : Min(S) <= n
<1>1. PICK m \in S : \A n \in S : m <= n
  BY LeastNatural
<1> QED BY <1>1 DEF Min

-----------------------------------------------------------------------------
(* Sums: SumFunctionOnSet of the community modules, whose recursion takes  *)
(* away one element at a time, whichever CHOOSE yields.                    *)
Pick(s) == CHOOSE x \in s : TRUE

Summing(f, D, g) ==
  g = [s \in D |-> IF s = {} THEN 0 ELSE f[Pick(s)] + g[s \ {Pick(s)}]]

LEMMA PickMember == \A s : s # {} => Pick(s) \in s
  BY DEF Pick

LEMMA SumUnfold ==
  ASSUME NEW f, NEW S
  PROVE  SumFunctionOnSet(f, S) = (CHOOSE g : Summing(f, SUBSET S, g))[S]
  BY DEF SumFunctionOnSet, FoldFunctionOnSet, MapThenFoldSet, Summing, Pick

(* There is a function of this recursion: it is put together from those    *)
(* that are right up to a cardinality.                                     *)
LEMMA SummingExists ==
  ASSUME NEW f, NEW S, IsFiniteSet(S)
  PROVE  \E g : Summing(f, SUBSET S, g)
<1> DEFINE D(n) == {s \in SUBSET S : Cardinality(s) <= n}
           N == {n \in Nat : \E g : Summing(f, D(n), g)}
<1>1. \A s \in SUBSET S : IsFiniteSet(s) /\ Cardinality(s) \in Nat /\ Cardinality(s) <= Cardinality(S)
  BY FS_Subset, FS_CardinalityType
<1>2. 0 \in N
  <2>1. \A s \in D(0) : s = {}
    BY <1>1, FS_EmptySet
  <2>2. Summing(f, D(0), [s \in D(0) |-> 0])
    BY <2>1 DEF Summing
  <2> QED BY <2>2
<1>3. \A n \in Nat : n \in N => n + 1 \in N
  <2> TAKE n \in Nat
  <2> HAVE n \in N
  <2>1. PICK g : Summing(f, D(n), g)
    OBVIOUS
  <2> DEFINE h == [s \in D(n + 1) |-> IF s = {} THEN 0 ELSE f[Pick(s)] + g[s \ {Pick(s)}]]
  <2>2. \A s \in D(n + 1) : s # {} => s \ {Pick(s)} \in D(n)
    <3> TAKE s \in D(n + 1)
    <3> HAVE s # {}
    <3>1. Pick(s) \in s
      BY PickMember
    <3>2. Cardinality(s \ {Pick(s)}) = Cardinality(s) - 1
      BY <1>1, <3>1, FS_RemoveElement
    <3> QED BY <1>1, <3>2
  <2>3. \A s \in D(n) : s \in D(n + 1)
    BY <1>1
  <2> HIDE DEF D
  <2>4. \A s \in D(n) : h[s] = g[s]
    BY <2>1, <2>3 DEF Summing
  <2>5. Summing(f, D(n + 1), h)
    BY <2>2, <2>4 DEF Summing
  <2> QED BY <2>5
<1>4. \A n \in Nat : n \in N
  <2> HIDE DEF N
  <2> QED BY <1>2, <1>3, NaturalsBySteps
<1>5. D(Cardinality(S)) = SUBSET S
  BY <1>1
<1> QED
  <2> HIDE DEF D
  <2>1. Cardinality(S) \in Nat
    BY FS_CardinalityType
  <2> QED BY <1>4, <1>5, <2>1

(* What it says of a set does not depend on the set it was made for.       *)
LEMMA SummingUnique ==
  ASSUME NEW f, NEW S, IsFiniteSet(S), NEW T \in SUBSET S, NEW g, NEW h,
         Summing(f, SUBSET S, g), Summing(f, SUBSET T, h)
  PROVE  g[T] = h[T]
<1> DEFINE P == {s \in SUBSET T : g[s] = h[s]}
<1>1. {} \in P
  BY DEF Summing
<1>2. \A s \in SUBSET T : s # {} /\ (\A x \in s : s \ {x} \in P) => s \in P
  <2> TAKE s \in SUBSET T
  <2> HAVE s # {} /\ \A x \in s : s \ {x} \in P
  <2>1. Pick(s) \in s
    BY PickMember
  <2>2. g[s \ {Pick(s)}] = h[s \ {Pick(s)}]
    BY <2>1
  <2>3. g[s] = f[Pick(s)] + g[s \ {Pick(s)}]
    BY DEF Summing
  <2>4. h[s] = f[Pick(s)] + h[s \ {Pick(s)}]
    BY DEF Summing
  <2> QED BY <2>2, <2>3, <2>4
<1>3. IsFiniteSet(T)
  BY FS_Subset
<1>4. \A s \in SUBSET T : s \in P
  <2> HIDE DEF P
  <2> QED BY <1>1, <1>2, <1>3, SubsetsBySteps
<1> QED BY <1>4

LEMMA SumOfNothing ==
  ASSUME NEW f
  PROVE  SumFunctionOnSet(f, {}) = 0
<1>1. PICK g : Summing(f, SUBSET {}, g)
  BY FS_EmptySet, SummingExists
<1> QED BY <1>1, SumUnfold DEF Summing

LEMMA SumStep ==
  ASSUME NEW f, NEW S, IsFiniteSet(S), S # {}
  PROVE  SumFunctionOnSet(f, S) = f[Pick(S)] + SumFunctionOnSet(f, S \ {Pick(S)})
<1> DEFINE T == S \ {Pick(S)}
           g == CHOOSE g : Summing(f, SUBSET S, g)
           h == CHOOSE h : Summing(f, SUBSET T, h)
<1>1. Summing(f, SUBSET S, g)
  BY SummingExists
<1>2. IsFiniteSet(T)
  BY FS_Subset
<1>3. Summing(f, SUBSET T, h)
  BY <1>2, SummingExists
<1>4. g[T] = h[T]
  <2> HIDE DEF g, h
  <2> QED BY <1>1, <1>3, SummingUnique
<1>5. g[S] = f[Pick(S)] + g[T]
  <2> HIDE DEF g
  <2> QED BY <1>1 DEF Summing
<1>6. SumFunctionOnSet(f, S) = g[S] /\ SumFunctionOnSet(f, T) = h[T]
  BY SumUnfold
<1> HIDE DEF g, h
<1> QED BY <1>4, <1>5, <1>6

(* A sum of numbers is a number.                                           *)
LEMMA SumIsNatural ==
  ASSUME NEW f, NEW S, IsFiniteSet(S), \A x \in S : f[x] \in Nat
  PROVE  SumFunctionOnSet(f, S) \in Nat
<1> DEFINE P == {T \in SUBSET S : SumFunctionOnSet(f, T) \in Nat}
<1>1. {} \in P
  BY SumOfNothing
<1>2. \A T \in SUBSET S : T # {} /\ (\A x \in T : T \ {x} \in P) => T \in P
  <2> TAKE T \in SUBSET S
  <2> HAVE T # {} /\ \A x \in T : T \ {x} \in P
  <2>1. Pick(T) \in T
    BY PickMember
  <2>2. SumFunctionOnSet(f, T) = f[Pick(T)] + SumFunctionOnSet(f, T \ {Pick(T)})
    BY SumStep, FS_Subset
  <2>3. f[Pick(T)] \in Nat /\ SumFunctionOnSet(f, T \ {Pick(T)}) \in Nat
    BY <2>1
  <2> QED BY <2>2, <2>3
<1>3. \A T \in SUBSET S : T \in P
  <2> HIDE DEF P
  <2> QED BY <1>1, <1>2, SubsetsBySteps
<1> QED BY <1>3

(* Any element may be taken away first.                                    *)
LEMMA SumRemove ==
  ASSUME NEW f, NEW S, IsFiniteSet(S), \A x \in S : f[x] \in Nat, NEW y \in S
  PROVE  SumFunctionOnSet(f, S) = f[y] + SumFunctionOnSet(f, S \ {y})
<1> DEFINE P == {T \in SUBSET S : \A z \in T :
                   SumFunctionOnSet(f, T) = f[z] + SumFunctionOnSet(f, T \ {z})}
<1>1. {} \in P
  OBVIOUS
<1>2. \A T \in SUBSET S : T # {} /\ (\A x \in T : T \ {x} \in P) => T \in P
  <2> TAKE T \in SUBSET S
  <2> HAVE T # {} /\ \A x \in T : T \ {x} \in P
  <2> SUFFICES ASSUME NEW z \in T
               PROVE  SumFunctionOnSet(f, T) = f[z] + SumFunctionOnSet(f, T \ {z})
    OBVIOUS
  <2> DEFINE p == Pick(T)
             both == (T \ {p}) \ {z}
  <2>1. p \in T
    BY PickMember
  <2>2. SumFunctionOnSet(f, T) = f[p] + SumFunctionOnSet(f, T \ {p})
    BY SumStep, FS_Subset
  <2> HIDE DEF p
  <2>3. CASE p = z
    BY <2>2, <2>3
  <2>4. CASE p # z
    <3>1. SumFunctionOnSet(f, T \ {p}) = f[z] + SumFunctionOnSet(f, both)
      BY <2>1, <2>4
    <3>2. (T \ {z}) \ {p} = both
      OBVIOUS
    <3>3. T \ {z} \in P /\ p \in T \ {z}
      BY <2>1, <2>4
    <3>4. SumFunctionOnSet(f, T \ {z}) = f[p] + SumFunctionOnSet(f, both)
      BY <3>2, <3>3
    <3>5. IsFiniteSet(both) /\ \A x \in both : f[x] \in Nat
      BY FS_Subset
    <3>6. SumFunctionOnSet(f, both) \in Nat /\ f[p] \in Nat /\ f[z] \in Nat
      <4> HIDE DEF both
      <4> QED BY <2>1, <3>5, SumIsNatural
    <3> HIDE DEF both
    <3> QED BY <2>2, <3>1, <3>4, <3>6
  <2> QED BY <2>3, <2>4
<1>3. \A T \in SUBSET S : T \in P
  <2> HIDE DEF P
  <2> QED BY <1>1, <1>2, SubsetsBySteps
<1> QED BY <1>3

(* Sums compare as their terms do.                                         *)
LEMMA SumMonotone ==
  ASSUME NEW f, NEW g, NEW S, IsFiniteSet(S),
         \A x \in S : f[x] \in Nat /\ g[x] \in Nat /\ f[x] <= g[x]
  PROVE  SumFunctionOnSet(f, S) <= SumFunctionOnSet(g, S)
<1> DEFINE P == {T \in SUBSET S : SumFunctionOnSet(f, T) <= SumFunctionOnSet(g, T)}
<1>1. {} \in P
  BY SumOfNothing
<1>2. \A T \in SUBSET S : T # {} /\ (\A x \in T : T \ {x} \in P) => T \in P
  <2> TAKE T \in SUBSET S
  <2> HAVE T # {} /\ \A x \in T : T \ {x} \in P
  <2> DEFINE U == T \ {Pick(T)}
  <2>1. Pick(T) \in T
    BY PickMember
  <2>2. /\ SumFunctionOnSet(f, T) = f[Pick(T)] + SumFunctionOnSet(f, U)
        /\ SumFunctionOnSet(g, T) = g[Pick(T)] + SumFunctionOnSet(g, U)
    BY SumStep, FS_Subset
  <2>3. IsFiniteSet(U) /\ U \in P
    BY <2>1, FS_Subset
  <2>4. SumFunctionOnSet(f, U) \in Nat /\ SumFunctionOnSet(g, U) \in Nat
    BY <2>3, SumIsNatural
  <2>5. SumFunctionOnSet(f, U) <= SumFunctionOnSet(g, U)
    BY <2>3
  <2> HIDE DEF U
  <2> QED BY <2>1, <2>2, <2>4, <2>5
<1>3. \A T \in SUBSET S : T \in P
  <2> HIDE DEF P
  <2> QED BY <1>1, <1>2, SubsetsBySteps
<1> QED BY <1>3

(* Only the terms count.                                                   *)
LEMMA SumOfEquals ==
  ASSUME NEW f, NEW g, NEW S, IsFiniteSet(S), \A x \in S : f[x] = g[x]
  PROVE  SumFunctionOnSet(f, S) = SumFunctionOnSet(g, S)
<1> DEFINE P == {T \in SUBSET S : SumFunctionOnSet(f, T) = SumFunctionOnSet(g, T)}
<1>1. {} \in P
  BY SumOfNothing
<1>2. \A T \in SUBSET S : T # {} /\ (\A x \in T : T \ {x} \in P) => T \in P
  <2> TAKE T \in SUBSET S
  <2> HAVE T # {} /\ \A x \in T : T \ {x} \in P
  <2> DEFINE U == T \ {Pick(T)}
  <2>1. Pick(T) \in T
    BY PickMember
  <2>2. /\ SumFunctionOnSet(f, T) = f[Pick(T)] + SumFunctionOnSet(f, U)
        /\ SumFunctionOnSet(g, T) = g[Pick(T)] + SumFunctionOnSet(g, U)
    BY SumStep, FS_Subset
  <2>3. SumFunctionOnSet(f, U) = SumFunctionOnSet(g, U)
    BY <2>1
  <2> QED BY <2>1, <2>2, <2>3
<1>3. \A T \in SUBSET S : T \in P
  <2> HIDE DEF P
  <2> QED BY <1>1, <1>2, SubsetsBySteps
<1> QED BY <1>3

(* Leaving terms out leaves less.                                          *)
LEMMA SumOfSubset ==
  ASSUME NEW f, NEW S, IsFiniteSet(S), \A x \in S : f[x] \in Nat, NEW T \in SUBSET S
  PROVE  SumFunctionOnSet(f, T) <= SumFunctionOnSet(f, S)
<1> DEFINE P == {U \in SUBSET S : SumFunctionOnSet(f, S \ U) <= SumFunctionOnSet(f, S)}
<1>1. \A U \in SUBSET S : IsFiniteSet(S \ U) /\ SumFunctionOnSet(f, S \ U) \in Nat
  <2> TAKE U \in SUBSET S
  <2>1. IsFiniteSet(S \ U) /\ \A x \in S \ U : f[x] \in Nat
    BY FS_Subset
  <2> QED BY <2>1, SumIsNatural
<1>2. {} \in P
  <2>1. S \ {} = S
    OBVIOUS
  <2>2. SumFunctionOnSet(f, S) \in Nat
    BY SumIsNatural
  <2> QED BY <2>1, <2>2
<1>3. \A U \in SUBSET S : U # {} /\ (\A x \in U : U \ {x} \in P) => U \in P
  <2> TAKE U \in SUBSET S
  <2> HAVE U # {} /\ \A x \in U : U \ {x} \in P
  <2>1. PICK x \in U : TRUE
    OBVIOUS
  <2> DEFINE more == S \ (U \ {x})
  <2>2. SumFunctionOnSet(f, more) <= SumFunctionOnSet(f, S)
    OBVIOUS
  <2>3. x \in more /\ more \ {x} = S \ U
    BY <2>1
  <2>4. IsFiniteSet(more) /\ \A y \in more : f[y] \in Nat
    BY FS_Subset
  <2> HIDE DEF more
  <2>5. SumFunctionOnSet(f, more) = f[x] + SumFunctionOnSet(f, S \ U)
    BY <2>3, <2>4, SumRemove
  <2>6. SumFunctionOnSet(f, S \ U) \in Nat /\ f[x] \in Nat /\ SumFunctionOnSet(f, S) \in Nat
    BY <1>1, <2>3, <2>4, SumIsNatural
  <2>7. SumFunctionOnSet(f, S \ U) <= SumFunctionOnSet(f, S)
    BY <2>2, <2>5, <2>6
  <2> QED BY <2>7
<1>4. \A U \in SUBSET S : U \in P
  <2> HIDE DEF P
  <2> QED BY <1>2, <1>3, SubsetsBySteps
<1>5. S \ (S \ T) = T
  OBVIOUS
<1> QED BY <1>4, <1>5

(* A sum changes by as much as its terms do.                               *)
LEMMA SumChange ==
  ASSUME NEW f, NEW g, NEW S, IsFiniteSet(S), NEW y \in S,
         \A x \in S : f[x] \in Nat /\ g[x] \in Nat,
         \A x \in S \ {y} : f[x] = g[x]
  PROVE  SumFunctionOnSet(g, S) + f[y] = SumFunctionOnSet(f, S) + g[y]
<1>1. /\ SumFunctionOnSet(f, S) = f[y] + SumFunctionOnSet(f, S \ {y})
      /\ SumFunctionOnSet(g, S) = g[y] + SumFunctionOnSet(g, S \ {y})
  BY SumRemove
<1>2. IsFiniteSet(S \ {y})
  BY FS_Subset
<1>3. SumFunctionOnSet(f, S \ {y}) = SumFunctionOnSet(g, S \ {y})
  BY <1>2, SumOfEquals
<1>4. SumFunctionOnSet(f, S \ {y}) \in Nat
  BY <1>2, SumIsNatural
<1> QED BY <1>1, <1>3, <1>4

(* No term exceeds the sum.                                                *)
LEMMA SumOfTerm ==
  ASSUME NEW f, NEW S, IsFiniteSet(S), \A x \in S : f[x] \in Nat, NEW y \in S
  PROVE  f[y] <= SumFunctionOnSet(f, S)
<1>1. SumFunctionOnSet(f, S) = f[y] + SumFunctionOnSet(f, S \ {y})
  BY SumRemove
<1>2. IsFiniteSet(S \ {y}) /\ \A x \in S \ {y} : f[x] \in Nat
  BY FS_Subset
<1>3. SumFunctionOnSet(f, S \ {y}) \in Nat
  BY <1>2, SumIsNatural
<1> QED BY <1>1, <1>3

LEMMA SumOfZeros ==
  ASSUME NEW f, NEW S, IsFiniteSet(S), \A x \in S : f[x] = 0
  PROVE  SumFunctionOnSet(f, S) = 0
<1> DEFINE P == {T \in SUBSET S : SumFunctionOnSet(f, T) = 0}
<1>1. {} \in P
  BY SumOfNothing
<1>2. \A T \in SUBSET S : T # {} /\ (\A x \in T : T \ {x} \in P) => T \in P
  <2> TAKE T \in SUBSET S
  <2> HAVE T # {} /\ \A x \in T : T \ {x} \in P
  <2>1. Pick(T) \in T
    BY PickMember
  <2>2. SumFunctionOnSet(f, T) = f[Pick(T)] + SumFunctionOnSet(f, T \ {Pick(T)})
    BY SumStep, FS_Subset
  <2> QED BY <2>1, <2>2
<1>3. \A T \in SUBSET S : T \in P
  <2> HIDE DEF P
  <2> QED BY <1>1, <1>2, SubsetsBySteps
<1> QED BY <1>3

(* The sum over two sets that have nothing in common.                      *)
LEMMA SumOfDisjoint ==
  ASSUME NEW f, NEW S, IsFiniteSet(S), \A x \in S : f[x] \in Nat,
         NEW A \in SUBSET S, NEW B \in SUBSET S, A \cap B = {}
  PROVE  SumFunctionOnSet(f, A \cup B) = SumFunctionOnSet(f, A) + SumFunctionOnSet(f, B)
<1> DEFINE P == {T \in SUBSET B :
                   SumFunctionOnSet(f, A \cup T) = SumFunctionOnSet(f, A) + SumFunctionOnSet(f, T)}
<1>1. \A T \in SUBSET S : IsFiniteSet(T) /\ SumFunctionOnSet(f, T) \in Nat
  <2> TAKE T \in SUBSET S
  <2>1. IsFiniteSet(T) /\ \A x \in T : f[x] \in Nat
    BY FS_Subset
  <2> QED BY <2>1, SumIsNatural
<1>2. {} \in P
  <2>1. A \cup {} = A
    OBVIOUS
  <2> QED BY <1>1, <2>1, SumOfNothing
<1>3. \A T \in SUBSET B : T # {} /\ (\A x \in T : T \ {x} \in P) => T \in P
  <2> TAKE T \in SUBSET B
  <2> HAVE T # {} /\ \A x \in T : T \ {x} \in P
  <2>1. PICK x \in T : TRUE
    OBVIOUS
  <2> DEFINE rest == T \ {x}
             both == A \cup T
  <2>2. SumFunctionOnSet(f, A \cup rest) = SumFunctionOnSet(f, A) + SumFunctionOnSet(f, rest)
    BY <2>1
  <2>3. /\ x \in both /\ both \ {x} = A \cup rest
        /\ both \in SUBSET S /\ rest \in SUBSET S /\ T \in SUBSET S
    BY <2>1
  <2>4. (\A y \in both : f[y] \in Nat) /\ (\A y \in T : f[y] \in Nat)
    BY <2>3
  <2> HIDE DEF both
  <2>5. SumFunctionOnSet(f, both) = f[x] + SumFunctionOnSet(f, A \cup rest)
    BY <1>1, <2>3, <2>4, SumRemove
  <2>6. SumFunctionOnSet(f, T) = f[x] + SumFunctionOnSet(f, rest)
    <3>1. IsFiniteSet(T) /\ x \in T
      BY <1>1, <2>1, <2>3
    <3> HIDE DEF P
    <3> QED BY <2>4, <3>1, SumRemove
  <2> HIDE DEF rest
  <2>7. f[x] \in Nat /\ SumFunctionOnSet(f, A) \in Nat /\ SumFunctionOnSet(f, rest) \in Nat
    BY <1>1, <2>3, <2>4
  <2>8. SumFunctionOnSet(f, both) = SumFunctionOnSet(f, A) + SumFunctionOnSet(f, T)
    BY <2>2, <2>5, <2>6, <2>7
  <2> QED BY <2>8 DEF both
<1>4. B \in P
  <2>1. IsFiniteSet(B)
    BY <1>1
  <2> HIDE DEF P
  <2> QED BY <1>2, <1>3, <2>1, SubsetsBySteps
<1> QED BY <1>4

(* Adding up over disjoint sets, and then their sums.                      *)
LEMMA SumOfUnion ==
  ASSUME NEW f, NEW S, IsFiniteSet(S), \A x \in S : f[x] \in Nat,
         NEW I, IsFiniteSet(I), NEW m, \A i \in I : m[i] \in SUBSET S,
         \A i, j \in I : i # j => m[i] \cap m[j] = {},
         NEW b, \A i \in I : b[i] = SumFunctionOnSet(f, m[i])
  PROVE  SumFunctionOnSet(b, I) = SumFunctionOnSet(f, UNION {m[i] : i \in I})
<1> DEFINE All(J) == UNION {m[i] : i \in J}
           P == {J \in SUBSET I : SumFunctionOnSet(b, J) = SumFunctionOnSet(f, All(J))}
<1>1. {} \in P
  <2>1. All({}) = {}
    OBVIOUS
  <2> HIDE DEF All
  <2> QED BY <2>1, SumOfNothing
<1>2. \A i \in I : b[i] \in Nat
  <2> TAKE i \in I
  <2>1. IsFiniteSet(m[i]) /\ \A x \in m[i] : f[x] \in Nat
    BY FS_Subset
  <2> QED BY <2>1, SumIsNatural
<1>3. \A J \in SUBSET I : J # {} /\ (\A i \in J : J \ {i} \in P) => J \in P
  <2> TAKE J \in SUBSET I
  <2> HAVE J # {} /\ \A i \in J : J \ {i} \in P
  <2>1. PICK i \in J : TRUE
    OBVIOUS
  <2> DEFINE rest == J \ {i}
  <2>2. SumFunctionOnSet(b, rest) = SumFunctionOnSet(f, All(rest))
    BY <2>1
  <2>3. IsFiniteSet(J) /\ \A j \in J : b[j] \in Nat
    BY <1>2, FS_Subset
  <2>4. SumFunctionOnSet(b, J) = b[i] + SumFunctionOnSet(b, rest)
    BY <2>1, <2>3, SumRemove
  <2>5. All(J) = m[i] \cup All(rest) /\ m[i] \cap All(rest) = {}
    BY <2>1
  <2>6. m[i] \in SUBSET S /\ All(rest) \in SUBSET S
    OBVIOUS
  <2> HIDE DEF All, rest
  <2>7. SumFunctionOnSet(f, All(J)) = SumFunctionOnSet(f, m[i]) + SumFunctionOnSet(f, All(rest))
    BY <2>5, <2>6, SumOfDisjoint
  <2>8. SumFunctionOnSet(b, J) = SumFunctionOnSet(f, All(J))
    BY <2>1, <2>2, <2>4, <2>7
  <2> QED BY <2>8
<1>4. I \in P
  <2> HIDE DEF P, All
  <2>1. \A J \in SUBSET I : J \in P
    BY <1>1, <1>3, SubsetsBySteps, ZenonT(30)
  <2> QED BY <2>1
<1>5. SumFunctionOnSet(b, I) = SumFunctionOnSet(f, All(I))
  <2> HIDE DEF All
  <2> QED BY <1>4
<1> QED BY <1>5

(* One sum is not above another that has all of its terms, or larger ones. *)
LEMMA SumGrows ==
  ASSUME NEW f, NEW S, NEW g, NEW T, IsFiniteSet(T), S \subseteq T,
         \A x \in S : f[x] \in Nat /\ f[x] <= g[x], \A x \in T : g[x] \in Nat
  PROVE  /\ SumFunctionOnSet(f, S) \in Nat /\ SumFunctionOnSet(g, T) \in Nat
         /\ SumFunctionOnSet(f, S) <= SumFunctionOnSet(g, T)
<1>1. IsFiniteSet(S)
  BY FS_Subset
<1>2. \A x \in S : f[x] \in Nat /\ g[x] \in Nat /\ f[x] <= g[x]
  OBVIOUS
<1>3. SumFunctionOnSet(f, S) <= SumFunctionOnSet(g, S)
  BY <1>1, <1>2, SumMonotone
<1>4. SumFunctionOnSet(g, S) <= SumFunctionOnSet(g, T)
  BY SumOfSubset
<1>5. SumFunctionOnSet(f, S) \in Nat /\ SumFunctionOnSet(g, S) \in Nat /\ SumFunctionOnSet(g, T) \in Nat
  BY <1>1, <1>2, SumIsNatural
<1> QED BY <1>3, <1>4, <1>5

(* Terms that are zero can be left out.                                    *)
LEMMA SumOfSupport ==
  ASSUME NEW f, NEW S, IsFiniteSet(S), \A x \in S : f[x] \in Nat,
         NEW T \in SUBSET S, \A x \in S \ T : f[x] = 0
  PROVE  SumFunctionOnSet(f, S) = SumFunctionOnSet(f, T)
<1> DEFINE U == S \ T
<1>1. U \in SUBSET S /\ T \cap U = {} /\ T \cup U = S
  OBVIOUS
<1>2. IsFiniteSet(U) /\ \A x \in U : f[x] = 0
  BY FS_Subset
<1>3. IsFiniteSet(T) /\ \A x \in T : f[x] \in Nat
  BY FS_Subset
<1> HIDE DEF U
<1>4. SumFunctionOnSet(f, S) = SumFunctionOnSet(f, T) + SumFunctionOnSet(f, U)
  BY <1>1, SumOfDisjoint
<1>5. SumFunctionOnSet(f, U) = 0
  BY <1>2, SumOfZeros
<1>6. SumFunctionOnSet(f, T) \in Nat
  BY <1>3, SumIsNatural
<1> QED BY <1>4, <1>5, <1>6

(* Adding up term by term.                                                 *)
LEMMA SumOfSums ==
  ASSUME NEW f, NEW g, NEW h, NEW S, IsFiniteSet(S),
         \A x \in S : f[x] \in Nat /\ g[x] \in Nat /\ h[x] = f[x] + g[x]
  PROVE  SumFunctionOnSet(h, S) = SumFunctionOnSet(f, S) + SumFunctionOnSet(g, S)
<1> DEFINE P == {T \in SUBSET S :
                   SumFunctionOnSet(h, T) = SumFunctionOnSet(f, T) + SumFunctionOnSet(g, T)}
<1>1. {} \in P
  BY SumOfNothing
<1>2. \A T \in SUBSET S : T # {} /\ (\A x \in T : T \ {x} \in P) => T \in P
  <2> TAKE T \in SUBSET S
  <2> HAVE T # {} /\ \A x \in T : T \ {x} \in P
  <2> DEFINE U == T \ {Pick(T)}
  <2>1. Pick(T) \in T
    BY PickMember
  <2>2. /\ SumFunctionOnSet(f, T) = f[Pick(T)] + SumFunctionOnSet(f, U)
        /\ SumFunctionOnSet(g, T) = g[Pick(T)] + SumFunctionOnSet(g, U)
        /\ SumFunctionOnSet(h, T) = h[Pick(T)] + SumFunctionOnSet(h, U)
    BY SumStep, FS_Subset
  <2>3. IsFiniteSet(U) /\ U \in P
    BY <2>1, FS_Subset
  <2>4. SumFunctionOnSet(f, U) \in Nat /\ SumFunctionOnSet(g, U) \in Nat
    BY <2>3, SumIsNatural
  <2>5. SumFunctionOnSet(h, U) = SumFunctionOnSet(f, U) + SumFunctionOnSet(g, U)
    BY <2>3
  <2> HIDE DEF U
  <2>6. SumFunctionOnSet(h, T) = SumFunctionOnSet(f, T) + SumFunctionOnSet(g, T)
    BY <2>1, <2>2, <2>4, <2>5
  <2> QED BY <2>6
<1>3. \A T \in SUBSET S : T \in P
  <2> HIDE DEF P
  <2> QED BY <1>1, <1>2, SubsetsBySteps
<1> QED BY <1>3

(* A table may be added up by rows or by columns.                          *)
Column(t, A, b) == [a \in A |-> t[a][b]]
RowSums(t, A, B) == [a \in A |-> SumFunctionOnSet(t[a], B)]
ColumnSums(t, A, B) == [b \in B |-> SumFunctionOnSet(Column(t, A, b), A)]

LEMMA SumOfTable ==
  ASSUME NEW A, IsFiniteSet(A), NEW B, IsFiniteSet(B),
         NEW t, \A a \in A : \A b \in B : t[a][b] \in Nat
  PROVE  SumFunctionOnSet(RowSums(t, A, B), A) = SumFunctionOnSet(ColumnSums(t, A, B), B)
<1> DEFINE rows == RowSums(t, A, B)
           columns == ColumnSums(t, A, B)
<1>1. /\ \A a \in A : rows[a] = SumFunctionOnSet(t[a], B)
      /\ \A b \in B : columns[b] = SumFunctionOnSet([a \in A |-> t[a][b]], A)
  BY DEF RowSums, ColumnSums, Column
<1> HIDE DEF rows, columns
<1> DEFINE part(T) == [b \in B |-> SumFunctionOnSet([a \in A |-> t[a][b]], T)]
           P == {T \in SUBSET A : SumFunctionOnSet(rows, T) = SumFunctionOnSet(part(T), B)}
<1>2. \A T \in SUBSET A : \A b \in B : part(T)[b] \in Nat
  <2> TAKE T \in SUBSET A
  <2> TAKE b \in B
  <2> DEFINE column == [a \in A |-> t[a][b]]
  <2>1. IsFiniteSet(T) /\ \A a \in T : column[a] \in Nat
    BY FS_Subset
  <2> HIDE DEF column
  <2>2. SumFunctionOnSet(column, T) \in Nat
    BY <2>1, SumIsNatural
  <2> QED BY <2>2 DEF column
<1>3. {} \in P
  <2>1. \A b \in B : part({})[b] = 0
    BY SumOfNothing
  <2>2. SumFunctionOnSet(part({}), B) = 0
    <3> HIDE DEF part
    <3> QED BY <2>1, SumOfZeros
  <2>3. SumFunctionOnSet(rows, {}) = 0
    BY SumOfNothing
  <2> HIDE DEF part
  <2> QED BY <2>2, <2>3
<1>4. \A T \in SUBSET A : T # {} /\ (\A a \in T : T \ {a} \in P) => T \in P
  <2> TAKE T \in SUBSET A
  <2> HAVE T # {} /\ \A a \in T : T \ {a} \in P
  <2> DEFINE p == Pick(T)
             U == T \ {p}
  <2>1. p \in T /\ p \in A
    BY PickMember
  <2>2. IsFiniteSet(T) /\ U \in SUBSET A
    BY FS_Subset
  <2>3. \A b \in B : part(T)[b] = t[p][b] + part(U)[b]
    <3> TAKE b \in B
    <3> DEFINE column == [a \in A |-> t[a][b]]
    <3>1. \A a \in A : column[a] = t[a][b]
      OBVIOUS
    <3> HIDE DEF column
    <3>2. SumFunctionOnSet(column, T) = column[p] + SumFunctionOnSet(column, U)
      BY <2>2, SumStep
    <3> QED BY <2>1, <3>1, <3>2 DEF column
  <2>4. SumFunctionOnSet(part(T), B) = SumFunctionOnSet(t[p], B) + SumFunctionOnSet(part(U), B)
    <3>1. \A b \in B : t[p][b] \in Nat /\ part(U)[b] \in Nat /\ part(T)[b] = t[p][b] + part(U)[b]
      <4> HIDE DEF part, p, U
      <4> QED BY <1>2, <2>1, <2>2, <2>3
    <3> HIDE DEF part, p, U
    <3> QED BY <3>1, SumOfSums
  <2>5. SumFunctionOnSet(rows, T) = rows[p] + SumFunctionOnSet(rows, U)
    BY <2>2, SumStep
  <2>6. SumFunctionOnSet(rows, U) = SumFunctionOnSet(part(U), B)
    BY <2>1
  <2>7. rows[p] = SumFunctionOnSet(t[p], B)
    BY <1>1, <2>1
  <2> HIDE DEF part, p, U
  <2>8. SumFunctionOnSet(rows, T) = SumFunctionOnSet(part(T), B)
    BY <2>4, <2>5, <2>6, <2>7
  <2> QED BY <2>8
<1>5. A \in P
  <2>1. \A T \in SUBSET A : T \in P
    <3> HIDE DEF P
    <3> QED BY <1>3, <1>4, SubsetsBySteps, ZenonT(30)
  <2> HIDE DEF P
  <2> QED BY <2>1
<1>6. SumFunctionOnSet(part(A), B) = SumFunctionOnSet(columns, B)
  <2>1. \A b \in B : part(A)[b] = columns[b]
    BY <1>1
  <2> HIDE DEF part
  <2> QED BY <2>1, SumOfEquals
<1> HIDE DEF part
<1> QED BY <1>5, <1>6 DEF rows, columns

(* Adding up by name, and then over the names.                             *)
LEMMA SumByName ==
  ASSUME NEW f, NEW S, IsFiniteSet(S), \A x \in S : f[x] \in Nat,
         NEW name, DOMAIN name = S,
         NEW b, \A p \in Range(name) : b[p] = SumFunctionOnSet(f, {x \in S : name[x] = p})
  PROVE  SumFunctionOnSet(b, Range(name)) = SumFunctionOnSet(f, S)
<1> DEFINE I == Range(name)
           m == [i \in I |-> {y \in S : name[y] = i}]
<1>1. I = {name[x] : x \in S}
  BY DEF Range
<1>2. IsFiniteSet(I)
  <2> DEFINE h == [x \in S |-> name[x]]
  <2>1. h \in Surjection(S, I)
    BY <1>1 DEF Surjection
  <2> QED BY <2>1, FS_Surjection
<1>3. UNION {m[i] : i \in I} = S
  <2>1. \A x \in S : name[x] \in I /\ x \in m[name[x]]
    BY <1>1
  <2>2. \A i \in I : m[i] \subseteq S
    OBVIOUS
  <2> HIDE DEF I, m
  <2> QED BY <2>1, <2>2
<1>4. /\ \A i \in I : m[i] \in SUBSET S
      /\ \A i, j \in I : i # j => m[i] \cap m[j] = {}
      /\ \A i \in I : b[i] = SumFunctionOnSet(f, m[i])
  OBVIOUS
<1> HIDE DEF I, m
<1>5. SumFunctionOnSet(b, I) = SumFunctionOnSet(f, UNION {m[i] : i \in I})
  BY <1>2, <1>4, SumOfUnion
<1> QED BY <1>3, <1>5 DEF I

(* The less of two.                                                        *)
LEMMA MinOfTwo ==
  ASSUME NEW m \in Nat, NEW n \in Nat
  PROVE  Min({m, n}) = IF m <= n THEN m ELSE n
<1>1. Min({m, n}) \in {m, n} /\ \A k \in {m, n} : Min({m, n}) <= k
  BY MinIsLeast
<1> QED BY <1>1

-----------------------------------------------------------------------------
(* The sum of ones.                                                        *)
LEMMA CountIsSum ==
  ASSUME NEW S, IsFiniteSet(S), NEW f, \A x \in S : f[x] = 1
  PROVE  SumFunctionOnSet(f, S) = Cardinality(S)
<1> DEFINE P == {T \in SUBSET S : SumFunctionOnSet(f, T) = Cardinality(T)}
<1>1. {} \in P
  BY SumOfNothing, FS_EmptySet
<1>2. \A T \in SUBSET S : T # {} /\ (\A x \in T : T \ {x} \in P) => T \in P
  <2> SUFFICES ASSUME NEW T \in SUBSET S, T # {}, \A x \in T : T \ {x} \in P
               PROVE  SumFunctionOnSet(f, T) = Cardinality(T)
    OBVIOUS
  <2>1. PICK y \in T : TRUE
    OBVIOUS
  <2>2. IsFiniteSet(T) /\ IsFiniteSet(T \ {y})
    BY FS_Subset
  <2>3. Cardinality(T) \in Nat /\ Cardinality(T \ {y}) = Cardinality(T) - 1
    BY <2>1, <2>2, FS_RemoveElement, FS_CardinalityType
  <2>4. SumFunctionOnSet(f, T) = f[y] + SumFunctionOnSet(f, T \ {y})
    BY <2>1, <2>2, SumRemove
  <2>5. SumFunctionOnSet(f, T \ {y}) = Cardinality(T \ {y})
    BY <2>1
  <2> QED BY <2>1, <2>3, <2>4, <2>5
<1> HIDE DEF P
<1>3. S \in P
  BY <1>1, <1>2, SubsetsBySteps
<1> QED BY <1>3 DEF P

(* A set is counted by counting, for each name, the members that have it.  *)
LEMMA CountByName ==
  ASSUME NEW S, IsFiniteSet(S), NEW K, IsFiniteSet(K), NEW name, \A x \in S : name[x] \in K,
         NEW b, \A k \in K : b[k] = Cardinality({x \in S : name[x] = k})
  PROVE  SumFunctionOnSet(b, K) = Cardinality(S)
<1> DEFINE f == [x \in S |-> 1]
           m == [k \in K |-> {x \in S : name[x] = k}]
<1>1. \A x \in S : f[x] = 1 /\ f[x] \in Nat
  OBVIOUS
<1>2. \A k \in K : m[k] \in SUBSET S /\ b[k] = SumFunctionOnSet(f, m[k])
  <2> TAKE k \in K
  <2>1. m[k] \in SUBSET S /\ b[k] = Cardinality(m[k])
    OBVIOUS
  <2>2. IsFiniteSet(m[k]) /\ \A x \in m[k] : f[x] = 1
    BY <2>1, FS_Subset
  <2> HIDE DEF f, m
  <2> QED BY <2>1, <2>2, CountIsSum
<1>3. \A i, j \in K : i # j => m[i] \cap m[j] = {}
  OBVIOUS
<1>4. UNION {m[k] : k \in K} = S
  OBVIOUS
<1> HIDE DEF f, m
<1>5. SumFunctionOnSet(b, K) = SumFunctionOnSet(f, UNION {m[k] : k \in K})
  BY <1>1, <1>2, <1>3, SumOfUnion
<1>6. SumFunctionOnSet(f, S) = Cardinality(S)
  BY <1>1, CountIsSum
<1> QED BY <1>4, <1>5, <1>6

(***************************************************************************)
(* Nearest elements: in a finite total order, the elements with less than  *)
(* n others before them are n, or all.                                     *)
(***************************************************************************)
Orders(R, S) ==
  /\ \A x \in S : <<x, x>> \notin R
  /\ \A x, y \in S : x # y => <<x, y>> \in R \/ <<y, x>> \in R
  /\ \A x, y, z \in S : <<x, y>> \in R /\ <<y, z>> \in R => <<x, z>> \in R

Predecessors(R, S, x) == {y \in S : <<y, x>> \in R}
Foremost(R, S, n) == {x \in S : Cardinality(Predecessors(R, S, x)) < n}

(* A finite set that is ordered has a last element.                        *)
LEMMA LastExists ==
  ASSUME NEW S, IsFiniteSet(S), NEW R, Orders(R, S)
  PROVE  \A T \in SUBSET S : T # {} => \E m \in T : \A x \in T \ {m} : <<x, m>> \in R
<1> DEFINE P == {T \in SUBSET S : T # {} => \E m \in T : \A x \in T \ {m} : <<x, m>> \in R}
<1>1. {} \in P
  OBVIOUS
<1>2. \A T \in SUBSET S : T # {} /\ (\A x \in T : T \ {x} \in P) => T \in P
  <2> SUFFICES ASSUME NEW T \in SUBSET S, T # {}, \A x \in T : T \ {x} \in P
               PROVE  \E m \in T : \A x \in T \ {m} : <<x, m>> \in R
    OBVIOUS
  <2>1. PICK y \in T : TRUE
    OBVIOUS
  <2>2. CASE T \ {y} = {}
    BY <2>1, <2>2
  <2>3. CASE T \ {y} # {}
    <3>1. PICK m \in T \ {y} : \A x \in (T \ {y}) \ {m} : <<x, m>> \in R
      BY <2>1, <2>3
    <3>2. CASE <<y, m>> \in R
      BY <3>1, <3>2
    <3>3. CASE <<m, y>> \in R
      <4>1. \A x \in T \ {y} : <<x, y>> \in R
        BY <2>1, <3>1, <3>3 DEF Orders
      <4> QED BY <2>1, <4>1
    <3> QED BY <2>1, <3>1, <3>2, <3>3 DEF Orders
  <2> QED BY <2>2, <2>3
<1> HIDE DEF P
<1>3. \A T \in SUBSET S : T \in P
  BY <1>1, <1>2, SubsetsBySteps
<1> QED BY <1>3 DEF P

(* So its first n are n, or all of it.                                     *)
LEMMA NearestAre ==
  ASSUME NEW S, IsFiniteSet(S), NEW R, Orders(R, S), NEW n \in Nat
  PROVE  Cardinality(Foremost(R, S, n)) = IF n <= Cardinality(S) THEN n ELSE Cardinality(S)
<1> DEFINE P == {T \in SUBSET S : Cardinality(Foremost(R, T, n))
                                    = IF n <= Cardinality(T) THEN n ELSE Cardinality(T)}
<1>1. {} \in P
  <2>1. Foremost(R, {}, n) = {}
    BY DEF Foremost
  <2> QED BY <2>1, FS_EmptySet
<1>2. \A T \in SUBSET S : T # {} /\ (\A x \in T : T \ {x} \in P) => T \in P
  <2> SUFFICES ASSUME NEW T \in SUBSET S, T # {}, \A x \in T : T \ {x} \in P
               PROVE  Cardinality(Foremost(R, T, n))
                        = IF n <= Cardinality(T) THEN n ELSE Cardinality(T)
    OBVIOUS
  <2>1. PICK m \in T : \A x \in T \ {m} : <<x, m>> \in R
    BY LastExists
  <2> DEFINE U == T \ {m}
  <2>2. /\ IsFiniteSet(T) /\ IsFiniteSet(U) /\ Cardinality(T) \in Nat
        /\ Cardinality(U) \in Nat /\ Cardinality(T) = Cardinality(U) + 1
    <3>1. IsFiniteSet(T)
      BY FS_Subset
    <3>2. IsFiniteSet(U) /\ Cardinality(U) = Cardinality(T) - 1
      BY <2>1, <3>1, FS_RemoveElement
    <3> QED BY <3>1, <3>2, FS_CardinalityType
  <2>3. Cardinality(Foremost(R, U, n)) = IF n <= Cardinality(U) THEN n ELSE Cardinality(U)
    BY <2>1
  <2>4. Predecessors(R, T, m) = U
    BY <2>1 DEF Predecessors, Orders
  <2>5. \A x \in U : Predecessors(R, T, x) = Predecessors(R, U, x)
    <3> TAKE x \in U
    <3>1. <<m, x>> \notin R
      BY <2>1 DEF Orders
    <3> QED BY <3>1 DEF Predecessors
  <2>6. Foremost(R, T, n)
          = IF Cardinality(U) < n THEN Foremost(R, U, n) \cup {m} ELSE Foremost(R, U, n)
    BY <2>1, <2>4, <2>5 DEF Foremost
  <2>7. Foremost(R, U, n) \in SUBSET U /\ m \notin Foremost(R, U, n)
    BY DEF Foremost
  <2>8. IsFiniteSet(Foremost(R, U, n))
    BY <2>2, <2>7, FS_Subset
  <2>9. Cardinality(Foremost(R, U, n) \cup {m}) = Cardinality(Foremost(R, U, n)) + 1
    BY <2>7, <2>8, FS_AddElement
  <2> HIDE DEF U
  <2> QED BY <2>2, <2>3, <2>6, <2>9
<1> HIDE DEF P
<1>3. \A T \in SUBSET S : T \in P
  BY <1>1, <1>2, SubsetsBySteps
<1>4. S \in P
  BY <1>3
<1> QED BY <1>4 DEF P
=============================================================================
