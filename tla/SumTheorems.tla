----------------------------- MODULE SumTheorems -----------------------------
(***************************************************************************)
(* Sums of rows.  The code reads tables through SELECT SUM; the modules    *)
(* write that with SumFunctionOnSet of the community modules.  These are   *)
(* the facts about it the proofs use.  The library's induction theorems    *)
(* take an operator as a parameter, so induction is done here by taking a  *)
(* least counterexample, a set.                                            *)
(***************************************************************************)
EXTENDS Integers, FiniteSets, Functions, FiniteSetTheorems, WellFoundedInduction,
        TLAPS

(* A non-empty set of naturals has a least element. *)
LEMMA LeastNatural ==
  ASSUME NEW T \in SUBSET Nat, T # {}
  PROVE  \E n \in T : \A m \in T : n <= m
<1>1. PICK n \in T : \A m \in T : ~(<<m, n>> \in OpToRel(<, Nat))
  BY NatLessThanWellFounded, WFMin
<1>2. \A m \in T : ~(m < n)
  BY <1>1 DEF OpToRel
<1>3. QED
  BY <1>2

(* The equation a sum over the subsets of S satisfies. *)
SumsUp(g, f, sets) ==
  \A T \in sets :
    g[T] = IF T = {} THEN 0
           ELSE f[CHOOSE x \in T : TRUE] + g[T \ {CHOOSE x \in T : TRUE}]

SmallSubsets(S, n) == {T \in SUBSET S : Cardinality(T) <= n}

(* Some function satisfies it, on all subsets of a finite set. *)
LEMMA SumExists ==
  ASSUME NEW S, IsFiniteSet(S), NEW f, \A x \in S : f[x] \in Nat
  PROVE  \E g \in [SUBSET S -> Nat] : SumsUp(g, f, SUBSET S)
<1> DEFINE Has(n) == \E g \in [SmallSubsets(S, n) -> Nat] : SumsUp(g, f, SmallSubsets(S, n))
           Without == {n \in Nat : ~Has(n)}
<1>1. \A T \in SUBSET S : IsFiniteSet(T) /\ Cardinality(T) \in Nat
  BY FS_Subset, FS_CardinalityType
<1>2. Has(0)
  <2> DEFINE g == [T \in SmallSubsets(S, 0) |-> 0]
  <2>1. \A T \in SmallSubsets(S, 0) : T = {}
    BY <1>1, FS_EmptySet DEF SmallSubsets
  <2>2. g \in [SmallSubsets(S, 0) -> Nat] /\ SumsUp(g, f, SmallSubsets(S, 0))
    BY <2>1 DEF SumsUp
  <2> QED BY <2>2
<1>3. ASSUME NEW n \in Nat, Has(n) PROVE Has(n+1)
  <2> DEFINE pick(T) == CHOOSE x \in T : TRUE
  <2>1. PICK h \in [SmallSubsets(S, n) -> Nat] : SumsUp(h, f, SmallSubsets(S, n))
    BY <1>3
  <2> DEFINE g == [T \in SmallSubsets(S, n+1) |->
                     IF T = {} THEN 0 ELSE f[pick(T)] + h[T \ {pick(T)}]]
  <2>2. ASSUME NEW T \in SmallSubsets(S, n+1), T # {}
        PROVE  pick(T) \in S /\ pick(T) \in T /\ T \ {pick(T)} \in SmallSubsets(S, n)
    <3>1. pick(T) \in T
      BY <2>2
    <3>2. Cardinality(T \ {pick(T)}) = Cardinality(T) - 1
      BY <1>1, <3>1, FS_RemoveElement DEF SmallSubsets
    <3> HIDE DEF pick
    <3>3. QED
      BY <1>1, <3>1, <3>2 DEF SmallSubsets
  <2> HIDE DEF pick
  <2>3. g \in [SmallSubsets(S, n+1) -> Nat]
    BY <2>1, <2>2
  <2>4. \A T \in SmallSubsets(S, n) : T \in SmallSubsets(S, n+1) /\ g[T] = h[T]
    <3>1. SmallSubsets(S, n) \subseteq SmallSubsets(S, n+1)
      BY <1>1 DEF SmallSubsets
    <3>2. QED
      BY <2>1, <3>1 DEF SumsUp, pick
  <2>5. SumsUp(g, f, SmallSubsets(S, n+1))
    <3> SUFFICES ASSUME NEW T \in SmallSubsets(S, n+1)
                 PROVE  g[T] = IF T = {} THEN 0 ELSE f[pick(T)] + g[T \ {pick(T)}]
      BY DEF SumsUp, pick
    <3> QED BY <2>2, <2>4
  <2> QED BY <2>3, <2>5
<1>4. \A n \in Nat : Has(n)
  <2> SUFFICES ASSUME Without # {} PROVE FALSE
    OBVIOUS
  <2> HIDE DEF Has
  <2>1. PICK n \in Without : \A m \in Without : n <= m
    BY LeastNatural
  <2>2. n \in Nat /\ n # 0 /\ n - 1 \in Nat
    BY <1>2, <2>1
  <2>3. Has(n - 1)
    BY <2>1, <2>2
  <2>4. Has((n - 1) + 1)
    BY <1>3, <2>2, <2>3
  <2>5. (n - 1) + 1 = n
    BY <2>2
  <2> QED BY <2>1, <2>4, <2>5
<1>5. SmallSubsets(S, Cardinality(S)) = SUBSET S
  BY FS_Subset DEF SmallSubsets
<1>6. Has(Cardinality(S))
  BY <1>1, <1>4
<1>7. QED
  BY <1>5, <1>6

(* Two functions that satisfy it agree. *)
LEMMA SumUnique ==
  ASSUME NEW S, IsFiniteSet(S), NEW f, NEW g, NEW h,
         SumsUp(g, f, SUBSET S), SumsUp(h, f, SUBSET S)
  PROVE  \A T \in SUBSET S : g[T] = h[T]
<1> DEFINE Differ == {T \in SUBSET S : g[T] # h[T]}
           Sizes == {Cardinality(T) : T \in Differ}
<1> SUFFICES ASSUME Differ # {} PROVE FALSE
  OBVIOUS
<1>1. \A T \in SUBSET S : IsFiniteSet(T) /\ Cardinality(T) \in Nat
  BY FS_Subset, FS_CardinalityType
<1>2. PICK T \in Differ : \A U \in Differ : Cardinality(T) <= Cardinality(U)
  <2>1. Sizes \in SUBSET Nat /\ Sizes # {}
    BY <1>1
  <2>2. PICK n \in Sizes : \A m \in Sizes : n <= m
    BY <2>1, LeastNatural
  <2> QED BY <2>2
<1>3. T # {}
  BY DEF SumsUp
<1> DEFINE x == CHOOSE x \in T : TRUE
<1>4. x \in T
  BY <1>3
<1>5. Cardinality(T \ {x}) = Cardinality(T) - 1
  BY <1>1, <1>4, FS_RemoveElement
<1>6. g[T] = f[x] + g[T \ {x}] /\ h[T] = f[x] + h[T \ {x}]
  BY <1>3 DEF SumsUp
<1> HIDE DEF x
<1>7. T \ {x} \notin Differ
  BY <1>1, <1>2, <1>5
<1>8. QED
  BY <1>6, <1>7

(* SumFunctionOnSet is that function. *)
LEMMA SumIs ==
  ASSUME NEW S, IsFiniteSet(S), NEW f, \A x \in S : f[x] \in Nat,
         NEW g, SumsUp(g, f, SUBSET S)
  PROVE  \A T \in SUBSET S : SumFunctionOnSet(f, T) = g[T]
<1> SUFFICES ASSUME NEW T \in SUBSET S PROVE SumFunctionOnSet(f, T) = g[T]
  OBVIOUS
<1>1. IsFiniteSet(T)
  BY FS_Subset
<1>2. PICK h \in [SUBSET T -> Nat] : SumsUp(h, f, SUBSET T)
  BY <1>1, SumExists
<1> DEFINE Body(k) == [U \in SUBSET T |->
                        IF U = {} THEN 0
                        ELSE f[CHOOSE x \in U : TRUE] + k[U \ {CHOOSE x \in U : TRUE}]]
           iter == CHOOSE k : k = Body(k)
<1>3. h = Body(h)
  BY <1>2 DEF SumsUp
<1>4. iter = Body(iter)
  BY <1>3
<1>5. SumsUp(iter, f, SUBSET T)
  <2> HIDE DEF iter
  <2> QED BY <1>4 DEF SumsUp
<1>6. SumFunctionOnSet(f, T) = iter[T]
  BY DEF SumFunctionOnSet, FoldFunctionOnSet, MapThenFoldSet
<1>7. SumsUp(g, f, SUBSET T)
  BY DEF SumsUp
<1> HIDE DEF iter
<1>8. QED
  BY <1>1, <1>5, <1>6, <1>7, SumUnique

-----------------------------------------------------------------------------
(* A sum of naturals over a finite set is a natural. *)
LEMMA SumNat ==
  ASSUME NEW S, IsFiniteSet(S), NEW f, \A x \in S : f[x] \in Nat
  PROVE  SumFunctionOnSet(f, S) \in Nat
<1>1. PICK g \in [SUBSET S -> Nat] : SumsUp(g, f, SUBSET S)
  BY SumExists
<1>2. QED
  BY <1>1, SumIs

LEMMA SumEmpty ==
  ASSUME NEW f
  PROVE  SumFunctionOnSet(f, {}) = 0
<1>1. IsFiniteSet({})
  BY FS_EmptySet
<1>2. PICK g \in [SUBSET {} -> Nat] : SumsUp(g, f, SUBSET {})
  BY <1>1, SumExists
<1>3. \A T \in SUBSET {} : SumFunctionOnSet(f, T) = g[T]
  BY <1>1, <1>2, SumIs
<1>4. SumFunctionOnSet(f, {}) = g[{}]
  BY <1>3
<1>5. g[{}] = 0
  BY <1>2 DEF SumsUp
<1>6. QED
  BY <1>4, <1>5

(* Among the subsets of a finite set with a property, one is smallest. *)
LEMMA SmallestSubset ==
  ASSUME NEW S, IsFiniteSet(S), NEW W \in SUBSET (SUBSET S), W # {}
  PROVE  \E T \in W : \A U \in SUBSET T : U # T => U \notin W
<1> DEFINE Sizes == {Cardinality(T) : T \in W}
<1>1. \A T \in SUBSET S : IsFiniteSet(T) /\ Cardinality(T) \in Nat
  BY FS_Subset, FS_CardinalityType
<1>2. Sizes \in SUBSET Nat /\ Sizes # {}
  BY <1>1
<1>3. PICK n \in Sizes : \A m \in Sizes : n <= m
  BY <1>2, LeastNatural
<1>4. PICK T \in W : Cardinality(T) = n
  BY <1>3
<1>5. ASSUME NEW U \in SUBSET T, U # T PROVE U \notin W
  <2>1. Cardinality(U) <= Cardinality(T) /\ Cardinality(U) # Cardinality(T)
    BY <1>1, <1>5, FS_Subset
  <2>2. QED
    BY <1>1, <1>3, <1>4, <2>1
<1>6. QED
  BY <1>5

(* Any element may be taken out of a sum. *)
LEMMA SumRemove ==
  ASSUME NEW S, IsFiniteSet(S), NEW f, \A x \in S : f[x] \in Nat, NEW x \in S
  PROVE  SumFunctionOnSet(f, S) = f[x] + SumFunctionOnSet(f, S \ {x})
<1>1. PICK g \in [SUBSET S -> Nat] : SumsUp(g, f, SUBSET S)
  BY SumExists
<1>2. \A T \in SUBSET S : SumFunctionOnSet(f, T) = g[T]
  BY <1>1, SumIs
<1> DEFINE Bad == {T \in SUBSET S : \E y \in T : g[T] # f[y] + g[T \ {y}]}
<1>3. Bad = {}
  <2> SUFFICES ASSUME Bad # {} PROVE FALSE
    OBVIOUS
  <2>0. Bad \in SUBSET (SUBSET S)
    OBVIOUS
  <2>1. PICK T \in Bad : \A U \in SUBSET T : U # T => U \notin Bad
    <3> HIDE DEF Bad
    <3> QED BY <2>0, SmallestSubset
  <2>2. PICK y \in T : g[T] # f[y] + g[T \ {y}]
    BY <2>1
  <2> DEFINE z == CHOOSE z \in T : TRUE
  <2>3. z \in T
    BY <2>2
  <2>4. g[T] = f[z] + g[T \ {z}]
    BY <1>1, <2>2 DEF SumsUp
  <2> HIDE DEF z
  <2>5. y # z
    BY <2>2, <2>4
  <2>6. T \ {z} \notin Bad /\ T \ {y} \notin Bad
    BY <2>1, <2>2, <2>3
  <2>7. g[T \ {z}] = f[y] + g[(T \ {z}) \ {y}]
    BY <2>2, <2>3, <2>5, <2>6
  <2>8. g[T \ {y}] = f[z] + g[(T \ {y}) \ {z}]
    BY <2>2, <2>3, <2>5, <2>6
  <2>9. (T \ {z}) \ {y} = (T \ {y}) \ {z}
    OBVIOUS
  <2>10. T \in SUBSET S /\ (T \ {y}) \ {z} \in SUBSET S
    OBVIOUS
  <2>11. f[y] \in Nat /\ f[z] \in Nat /\ g[(T \ {y}) \ {z}] \in Nat
    BY <1>1, <2>2, <2>3, <2>10
  <2>12. g[T] = f[z] + (f[y] + g[(T \ {y}) \ {z}])
    BY <2>4, <2>7, <2>9
  <2>13. g[T] # f[y] + (f[z] + g[(T \ {y}) \ {z}])
    BY <2>2, <2>8
  <2> HIDE DEF Bad
  <2>14. QED
    BY <2>11, <2>12, <2>13
<1>4. g[S] = f[x] + g[S \ {x}]
  BY <1>3
<1>5. S \in SUBSET S /\ S \ {x} \in SUBSET S
  OBVIOUS
<1> HIDE DEF Bad
<1>6. QED
  BY <1>2, <1>4, <1>5

(* Only the values on the set matter, and each is bounded by the sum. *)
LEMMA SumMonotone ==
  ASSUME NEW S, IsFiniteSet(S), NEW f, NEW g,
         \A x \in S : f[x] \in Nat /\ g[x] \in Nat /\ f[x] <= g[x]
  PROVE  SumFunctionOnSet(f, S) <= SumFunctionOnSet(g, S)
<1> DEFINE Bad == {T \in SUBSET S : ~(SumFunctionOnSet(f, T) <= SumFunctionOnSet(g, T))}
<1> SUFFICES ASSUME Bad # {} PROVE FALSE
  OBVIOUS
<1>0. Bad \in SUBSET (SUBSET S)
  OBVIOUS
<1>1. PICK T \in Bad : \A U \in SUBSET T : U # T => U \notin Bad
  <2> HIDE DEF Bad
  <2> QED BY <1>0, SmallestSubset
<1>2. T # {}
  <2>1. ~(SumFunctionOnSet(f, T) <= SumFunctionOnSet(g, T))
    OBVIOUS
  <2>2. SumFunctionOnSet(f, {}) = 0 /\ SumFunctionOnSet(g, {}) = 0
    BY SumEmpty
  <2> HIDE DEF Bad
  <2>3. QED
    BY <2>1, <2>2
<1>3. PICK x \in T : TRUE
  BY <1>2
<1>4. \A U \in SUBSET S : IsFiniteSet(U)
  BY FS_Subset
<1>5. /\ SumFunctionOnSet(f, T) = f[x] + SumFunctionOnSet(f, T \ {x})
      /\ SumFunctionOnSet(g, T) = g[x] + SumFunctionOnSet(g, T \ {x})
  BY <1>3, <1>4, SumRemove
<1>6. SumFunctionOnSet(f, T \ {x}) <= SumFunctionOnSet(g, T \ {x})
  BY <1>1, <1>3
<1>7. SumFunctionOnSet(f, T \ {x}) \in Nat /\ SumFunctionOnSet(g, T \ {x}) \in Nat
  BY <1>3, <1>4, SumNat
<1>8. QED
  BY <1>1, <1>3, <1>5, <1>6, <1>7

LEMMA SumSame ==
  ASSUME NEW S, IsFiniteSet(S), NEW f, NEW g,
         \A x \in S : f[x] \in Nat /\ g[x] = f[x]
  PROVE  SumFunctionOnSet(f, S) = SumFunctionOnSet(g, S)
<1>1. SumFunctionOnSet(f, S) <= SumFunctionOnSet(g, S)
  BY SumMonotone
<1>2. SumFunctionOnSet(g, S) <= SumFunctionOnSet(f, S)
  BY SumMonotone
<1>3. SumFunctionOnSet(f, S) \in Nat /\ SumFunctionOnSet(g, S) \in Nat
  BY SumNat
<1>4. QED
  BY <1>1, <1>2, <1>3

(* Disjoint sets of rows sum separately. *)
LEMMA SumDisjoint ==
  ASSUME NEW S, IsFiniteSet(S), NEW f, \A x \in S : f[x] \in Nat,
         NEW A \in SUBSET S
  PROVE  SumFunctionOnSet(f, S) = SumFunctionOnSet(f, A) + SumFunctionOnSet(f, S \ A)
<1> DEFINE Sum(T) == SumFunctionOnSet(f, T)
           Bad == {T \in SUBSET A : Sum(T \cup (S \ A)) # Sum(T) + Sum(S \ A)}
<1>1. \A U \in SUBSET S : IsFiniteSet(U) /\ Sum(U) \in Nat
  BY FS_Subset, SumNat
<1>2. Bad = {}
  <2> SUFFICES ASSUME Bad # {} PROVE FALSE
    OBVIOUS
  <2>0. Bad \in SUBSET (SUBSET A) /\ IsFiniteSet(A)
    BY <1>1
  <2>1. PICK T \in Bad : \A U \in SUBSET T : U # T => U \notin Bad
    <3> HIDE DEF Bad
    <3> QED BY <2>0, SmallestSubset
  <2>2. T # {}
    <3>1. {} \cup (S \ A) = S \ A /\ Sum({}) = 0
      BY SumEmpty
    <3>2. Sum(S \ A) \in Nat
      BY <1>1
    <3>3. Sum(T \cup (S \ A)) # Sum(T) + Sum(S \ A)
      BY <2>1
    <3> HIDE DEF Sum, Bad
    <3>4. QED
      BY <3>1, <3>2, <3>3
  <2>3. PICK x \in T : TRUE
    BY <2>2
  <2>4. Sum(T) = f[x] + Sum(T \ {x})
    BY <1>1, <2>3, SumRemove
  <2>5. Sum(T \cup (S \ A)) = f[x] + Sum((T \cup (S \ A)) \ {x})
    BY <1>1, <2>3, SumRemove
  <2>6. (T \cup (S \ A)) \ {x} = (T \ {x}) \cup (S \ A)
    BY <2>3
  <2>7. Sum((T \ {x}) \cup (S \ A)) = Sum(T \ {x}) + Sum(S \ A)
    BY <2>1, <2>3
  <2>8. f[x] \in Nat /\ Sum(T \ {x}) \in Nat /\ Sum(S \ A) \in Nat
    BY <1>1, <2>3
  <2> HIDE DEF Sum
  <2>9. Sum(T \cup (S \ A)) # Sum(T) + Sum(S \ A)
    BY <2>1
  <2>10. Sum(T \cup (S \ A)) = f[x] + (Sum(T \ {x}) + Sum(S \ A))
    BY <2>5, <2>6, <2>7
  <2> HIDE DEF Bad
  <2>11. QED
    BY <2>4, <2>8, <2>9, <2>10
<1>3. A \cup (S \ A) = S
  OBVIOUS
<1>4. QED
  BY <1>2, <1>3

LEMMA SumSubset ==
  ASSUME NEW S, IsFiniteSet(S), NEW f, \A x \in S : f[x] \in Nat,
         NEW A \in SUBSET S
  PROVE  SumFunctionOnSet(f, A) <= SumFunctionOnSet(f, S)
<1>1. SumFunctionOnSet(f, A) \in Nat /\ SumFunctionOnSet(f, S \ A) \in Nat
  BY FS_Subset, SumNat
<1>2. QED
  BY <1>1, SumDisjoint

LEMMA SumZero ==
  ASSUME NEW S, IsFiniteSet(S), NEW f, \A x \in S : f[x] = 0
  PROVE  SumFunctionOnSet(f, S) = 0
<1> DEFINE Bad == {T \in SUBSET S : SumFunctionOnSet(f, T) # 0}
<1> SUFFICES ASSUME Bad # {} PROVE FALSE
  OBVIOUS
<1>0. Bad \in SUBSET (SUBSET S)
  OBVIOUS
<1>1. PICK T \in Bad : \A U \in SUBSET T : U # T => U \notin Bad
  <2> HIDE DEF Bad
  <2> QED BY <1>0, SmallestSubset
<1>2. T \in SUBSET S /\ SumFunctionOnSet(f, T) # 0 /\ IsFiniteSet(T)
  BY FS_Subset
<1>3. T # {}
  BY <1>2, SumEmpty
<1>4. PICK x \in T : TRUE
  BY <1>3
<1>5. SumFunctionOnSet(f, T) = f[x] + SumFunctionOnSet(f, T \ {x})
  BY <1>2, <1>4, SumRemove
<1>6. SumFunctionOnSet(f, T \ {x}) = 0
  BY <1>1, <1>2, <1>4
<1> HIDE DEF Bad
<1>7. QED
  BY <1>2, <1>4, <1>5, <1>6

(* A sum over some of the rows is one over all of them, the others         *)
(* weighing nothing.                                                       *)
LEMMA SumOfSome ==
  ASSUME NEW S, IsFiniteSet(S), NEW f, NEW A \in SUBSET S, \A x \in A : f[x] \in Nat
  PROVE  SumFunctionOnSet(f, A) = SumFunctionOnSet([x \in S |-> IF x \in A THEN f[x] ELSE 0], S)
<1> DEFINE w == [x \in S |-> IF x \in A THEN f[x] ELSE 0]
<1>1. IsFiniteSet(A) /\ IsFiniteSet(S \ A)
  BY FS_Subset
<1>2. \A x \in S : w[x] \in Nat
  OBVIOUS
<1>3. (\A x \in A : w[x] = f[x]) /\ (\A x \in S \ A : w[x] = 0)
  OBVIOUS
<1> HIDE DEF w
<1>4. SumFunctionOnSet(w, S) = SumFunctionOnSet(w, A) + SumFunctionOnSet(w, S \ A)
  BY <1>2, SumDisjoint
<1>5. SumFunctionOnSet(w, S \ A) = 0
  BY <1>1, <1>3, SumZero
<1>6. SumFunctionOnSet(f, A) = SumFunctionOnSet(w, A)
  BY <1>1, <1>3, SumSame
<1>7. SumFunctionOnSet(w, A) \in Nat
  BY <1>1, <1>2, SumNat
<1>8. SumFunctionOnSet(f, A) = SumFunctionOnSet(w, S)
  BY <1>4, <1>5, <1>6, <1>7
<1> QED BY <1>8 DEF w

(* When one row changes, the sum changes by as much. *)
LEMMA SumOneChanges ==
  ASSUME NEW S, IsFiniteSet(S), NEW f, NEW g, NEW x \in S,
         \A y \in S : f[y] \in Nat /\ g[y] \in Nat,
         \A y \in S : y # x => g[y] = f[y]
  PROVE  /\ SumFunctionOnSet(f, S) \in Nat /\ SumFunctionOnSet(g, S) \in Nat
         /\ SumFunctionOnSet(g, S) = SumFunctionOnSet(f, S) - f[x] + g[x]
<1>1. IsFiniteSet(S \ {x})
  BY FS_Subset
<1>2. /\ SumFunctionOnSet(f, S) = f[x] + SumFunctionOnSet(f, S \ {x})
      /\ SumFunctionOnSet(g, S) = g[x] + SumFunctionOnSet(g, S \ {x})
  BY SumRemove
<1>3. SumFunctionOnSet(f, S \ {x}) = SumFunctionOnSet(g, S \ {x})
  BY <1>1, SumSame
<1>4. SumFunctionOnSet(f, S \ {x}) \in Nat /\ SumFunctionOnSet(g, S \ {x}) \in Nat
  BY <1>1, SumNat
<1> QED BY <1>2, <1>3, <1>4
==============================================================================
