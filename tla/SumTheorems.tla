---------------------------- MODULE SumTheorems ----------------------------
(***************************************************************************)
(* What a sum over a finite set does when an element joins it, leaves it   *)
(* or changes its value.  SumFunctionOnSet folds the set by choosing its   *)
(* elements one after another; the proofs are by induction, as an argument *)
(* about a least set of which the claim does not hold.                     *)
(***************************************************************************)
EXTENDS Integers, Functions, FiniteSetTheorems, WellFoundedInduction, TLAPS

(* Of the subsets of a finite set, some smallest one has any given property. *)
LEMMA SmallestSubset ==
    ASSUME NEW S, IsFiniteSet(S), NEW B \in SUBSET (SUBSET S), B # {}
    PROVE  \E T \in B : \A U \in B : U \subseteq T => U = T
<1>1. IsWellFoundedOn(StrictSubsetOrdering(S), SUBSET S)
  BY FS_StrictSubsetOrderingWellFounded, FS_FiniteSubsetsOfFinite
<1>2. \E T \in B : \A U \in B : ~ (<<U, T>> \in StrictSubsetOrdering(S))
  BY <1>1, WFMin
<1> QED BY <1>2 DEF StrictSubsetOrdering

(* The element the fold takes first, and the equation its partial sums solve. *)
Chosen(s) == CHOOSE x \in s : TRUE
Solves(g, f, F) ==
    g = [s \in F |-> IF s = {} THEN 0 ELSE f[Chosen(s)] + g[s \ {Chosen(s)}]]

LEMMA ChosenIn == \A s : s # {} => Chosen(s) \in s
  BY DEF Chosen

LEMMA SumUnfolded ==
    ASSUME NEW f, NEW S
    PROVE  SumFunctionOnSet(f, S) = (CHOOSE g : Solves(g, f, SUBSET S))[S]
  BY DEF SumFunctionOnSet, FoldFunctionOnSet, MapThenFoldSet, Solves, Chosen

-----------------------------------------------------------------------------
(* The equation has a solution: the partial sums of the sets with at most  *)
(* n elements define those of the sets with one more.                      *)
Upto(S, n) == {s \in SUBSET S : Cardinality(s) <= n}

LEMMA LeastNat ==
    ASSUME NEW T \in SUBSET Nat, T # {}
    PROVE  \E n \in T : \A m \in T : n <= m
<1> DEFINE R == {ss \in Nat \X Nat : ss[1] < ss[2]}
<1>1. IsWellFoundedOn(R, Nat)
  BY NatLessThanWellFounded DEF OpToRel
<1> HIDE DEF R
<1>2. \E n \in T : \A m \in T : ~ (<<m, n>> \in R)
  BY <1>1, WFMin
<1>3. \A m, n \in Nat : <<m, n>> \notin R => n <= m
  BY DEF R
<1> HIDE DEF R
<1>4. \A n \in T : n \in Nat
  OBVIOUS
<1> QED BY <1>2, <1>3, <1>4

LEMMA SolutionExists ==
    ASSUME NEW f, NEW S, IsFiniteSet(S)
    PROVE  \E g : Solves(g, f, SUBSET S)
<1> DEFINE Bad == {n \in Nat : ~ \E g : Solves(g, f, Upto(S, n))}
<1>0. \A s \in SUBSET S : IsFiniteSet(s) /\ Cardinality(s) \in Nat
  BY FS_Subset, FS_CardinalityType
<1>1. Bad = {}
  <2> SUFFICES ASSUME Bad # {} PROVE FALSE
    OBVIOUS
  <2>1. PICK n \in Bad : \A m \in Bad : n <= m
    BY LeastNat
  <2>2. n # 0
    <3> SUFFICES \E g : Solves(g, f, Upto(S, 0))
      BY <2>1
    <3>1. \A s \in Upto(S, 0) : s = {}
      BY <1>0, FS_EmptySet DEF Upto
    <3> DEFINE g == [s \in Upto(S, 0) |-> 0]
    <3>2. Solves(g, f, Upto(S, 0))
      BY <3>1 DEF Solves
    <3> QED BY <3>2
  <2>3. n - 1 \in Nat /\ n - 1 \notin Bad
    BY <2>1, <2>2
  <2>4. PICK g : Solves(g, f, Upto(S, n - 1))
    BY <2>3
  <2> DEFINE h == [s \in Upto(S, n) |-> IF s = {} THEN 0
                                        ELSE f[Chosen(s)] + g[s \ {Chosen(s)}]]
  <2>5. \A s \in Upto(S, n - 1) : s \in Upto(S, n) /\ h[s] = g[s]
    <3>1. Upto(S, n - 1) \subseteq Upto(S, n)
      BY <1>0, <2>1 DEF Upto
    <3> QED BY <2>4, <3>1 DEF Solves
  <2>6. \A s \in Upto(S, n) : s # {} => s \ {Chosen(s)} \in Upto(S, n - 1)
    BY <1>0, <2>1, ChosenIn, FS_RemoveElement DEF Upto
  <2>7. Solves(h, f, Upto(S, n))
    BY <2>5, <2>6 DEF Solves
  <2> QED BY <2>1, <2>7
<1>2. Upto(S, Cardinality(S)) = SUBSET S
  BY <1>0, FS_Subset DEF Upto
<1>3. \E g : Solves(g, f, Upto(S, Cardinality(S)))
  BY <1>0, <1>1
<1> QED BY <1>2, <1>3

(* Two solutions have the same values where both are defined. *)
LEMMA SolutionsAgree ==
    ASSUME NEW f, NEW S, IsFiniteSet(S), NEW T \in SUBSET S, NEW g, NEW h,
           Solves(g, f, SUBSET S), Solves(h, f, SUBSET T)
    PROVE  \A s \in SUBSET T : g[s] = h[s]
<1> DEFINE Bad == {s \in SUBSET T : g[s] # h[s]}
<1> SUFFICES ASSUME Bad # {} PROVE FALSE
  OBVIOUS
<1>1. PICK s \in Bad : \A u \in Bad : u \subseteq s => u = s
  <2>1. IsFiniteSet(T) /\ Bad \in SUBSET (SUBSET T)
    BY FS_Subset
  <2> HIDE DEF Bad
  <2> QED BY <2>1, SmallestSubset
<1>2. s # {}
  BY <1>1 DEF Solves
<1>3. s \ {Chosen(s)} \notin Bad /\ s \ {Chosen(s)} \in SUBSET T
  BY <1>1, <1>2, ChosenIn
<1>4. g[s \ {Chosen(s)}] = h[s \ {Chosen(s)}]
  BY <1>3
<1> QED BY <1>1, <1>2, <1>4 DEF Solves

(* So the sum of a set is that of one element and the rest. *)
LEMMA SumEmpty == ASSUME NEW f PROVE SumFunctionOnSet(f, {}) = 0
<1>1. IsFiniteSet({})
  BY FS_EmptySet
<1>2. Solves(CHOOSE g : Solves(g, f, SUBSET {}), f, SUBSET {})
  BY <1>1, SolutionExists
<1> QED BY <1>2, SumUnfolded DEF Solves

LEMMA SumChosen ==
    ASSUME NEW f, NEW S, IsFiniteSet(S), S # {}
    PROVE  SumFunctionOnSet(f, S)
             = f[Chosen(S)] + SumFunctionOnSet(f, S \ {Chosen(S)})
<1> DEFINE T == S \ {Chosen(S)}
           g == CHOOSE k : Solves(k, f, SUBSET S)
           h == CHOOSE k : Solves(k, f, SUBSET T)
<1>1. T \in SUBSET S /\ IsFiniteSet(T)
  BY FS_Subset
<1> HIDE DEF T
<1>2. Solves(g, f, SUBSET S) /\ Solves(h, f, SUBSET T)
  BY <1>1, SolutionExists
<1> HIDE DEF g, h
<1>3. g[T] = h[T]
  BY <1>1, <1>2, SolutionsAgree
<1>4. g[S] = f[Chosen(S)] + g[T]
  BY <1>2 DEF Solves, T
<1>5. SumFunctionOnSet(f, S) = g[S] /\ SumFunctionOnSet(f, T) = h[T]
  BY SumUnfolded DEF g, h
<1> QED BY <1>3, <1>4, <1>5 DEF T

-----------------------------------------------------------------------------
(* A sum of integers is an integer. *)
LEMMA SumType ==
    ASSUME NEW f, NEW S, IsFiniteSet(S), \A x \in S : f[x] \in Int
    PROVE  SumFunctionOnSet(f, S) \in Int
<1> DEFINE Bad == {T \in SUBSET S : SumFunctionOnSet(f, T) \notin Int}
<1>0. SumFunctionOnSet(f, {}) \in Int
  BY SumEmpty
<1> SUFFICES ASSUME Bad # {} PROVE FALSE
  OBVIOUS
<1>1. PICK T \in Bad : \A U \in Bad : U \subseteq T => U = T
  <2>1. Bad \in SUBSET (SUBSET S)
    OBVIOUS
  <2> HIDE DEF Bad
  <2> QED BY <2>1, SmallestSubset
<1>2. T # {}
  BY <1>0, <1>1
<1>3. IsFiniteSet(T) /\ Chosen(T) \in T
  BY <1>1, <1>2, FS_Subset, ChosenIn
<1>4. SumFunctionOnSet(f, T \ {Chosen(T)}) \in Int
  BY <1>1, <1>3
<1>5. SumFunctionOnSet(f, T) = f[Chosen(T)] + SumFunctionOnSet(f, T \ {Chosen(T)})
  BY <1>2, <1>3, SumChosen
<1> QED BY <1>1, <1>3, <1>4, <1>5

(* Sums depend on nothing but the values of the elements. *)
LEMMA SumSame ==
    ASSUME NEW f, NEW g, NEW S, IsFiniteSet(S), \A x \in S : f[x] = g[x]
    PROVE  SumFunctionOnSet(f, S) = SumFunctionOnSet(g, S)
<1> DEFINE Bad == {T \in SUBSET S : SumFunctionOnSet(f, T) # SumFunctionOnSet(g, T)}
<1> SUFFICES ASSUME Bad # {} PROVE FALSE
  OBVIOUS
<1>1. PICK T \in Bad : \A U \in Bad : U \subseteq T => U = T
  <2>1. Bad \in SUBSET (SUBSET S)
    OBVIOUS
  <2> HIDE DEF Bad
  <2> QED BY <2>1, SmallestSubset
<1>2. T # {}
  BY <1>1, SumEmpty
<1>3. IsFiniteSet(T) /\ Chosen(T) \in T
  BY <1>1, <1>2, FS_Subset, ChosenIn
<1>4. SumFunctionOnSet(f, T \ {Chosen(T)}) = SumFunctionOnSet(g, T \ {Chosen(T)})
  BY <1>1, <1>3
<1>5. /\ SumFunctionOnSet(f, T) = f[Chosen(T)] + SumFunctionOnSet(f, T \ {Chosen(T)})
      /\ SumFunctionOnSet(g, T) = g[Chosen(T)] + SumFunctionOnSet(g, T \ {Chosen(T)})
  BY <1>2, <1>3, SumChosen
<1> QED BY <1>1, <1>3, <1>4, <1>5

(* Any element may be taken first. *)
LEMMA SumRemove ==
    ASSUME NEW f, NEW S, IsFiniteSet(S), \A x \in S : f[x] \in Int, NEW x \in S
    PROVE  SumFunctionOnSet(f, S) = f[x] + SumFunctionOnSet(f, S \ {x})
<1> DEFINE Bad == {T \in SUBSET S : \E y \in T :
                      SumFunctionOnSet(f, T) # f[y] + SumFunctionOnSet(f, T \ {y})}
<1> SUFFICES ASSUME Bad # {} PROVE FALSE
  OBVIOUS
<1>1. PICK T \in Bad : \A U \in Bad : U \subseteq T => U = T
  <2>1. Bad \in SUBSET (SUBSET S)
    OBVIOUS
  <2> HIDE DEF Bad
  <2> QED BY <2>1, SmallestSubset
<1>2. PICK y \in T : SumFunctionOnSet(f, T) # f[y] + SumFunctionOnSet(f, T \ {y})
  BY <1>1
<1> DEFINE c == Chosen(T)
           rest == SumFunctionOnSet(f, (T \ {c}) \ {y})
<1>3. c \in T /\ T \in SUBSET S
  BY <1>1, <1>2, ChosenIn
<1> HIDE DEF c
<1>4. IsFiniteSet(T) /\ IsFiniteSet(T \ {y}) /\ IsFiniteSet((T \ {c}) \ {y})
  BY <1>3, FS_Subset
<1>5. SumFunctionOnSet(f, T) = f[c] + SumFunctionOnSet(f, T \ {c})
  BY <1>2, <1>4, SumChosen DEF c
<1>6. c # y
  BY <1>2, <1>5
<1>7. SumFunctionOnSet(f, T \ {c}) = f[y] + rest
  <2>1. T \ {c} \notin Bad /\ T \ {c} \in SUBSET S /\ y \in T \ {c}
    BY <1>1, <1>2, <1>3, <1>6
  <2> QED BY <2>1
<1>8. SumFunctionOnSet(f, T \ {y}) = f[c] + rest
  <2>1. T \ {y} \notin Bad /\ T \ {y} \in SUBSET S /\ c \in T \ {y}
    BY <1>1, <1>2, <1>3, <1>6
  <2>2. (T \ {y}) \ {c} = (T \ {c}) \ {y}
    OBVIOUS
  <2> QED BY <2>1, <2>2
<1>9. rest \in Int /\ f[c] \in Int /\ f[y] \in Int
  <2>1. \A z \in (T \ {c}) \ {y} : f[z] \in Int
    BY <1>3
  <2> QED BY <1>2, <1>3, <1>4, <2>1, SumType
<1> HIDE DEF rest
<1> QED BY <1>2, <1>5, <1>7, <1>8, <1>9

(* What one element contributes to a sum, if it belongs to the set at all. *)
Share(f, S, x) == IF x \in S THEN f[x] ELSE 0

(* When nothing changes but one element's value, or whether it belongs to  *)
(* the set, the sum changes by the difference of its contributions.        *)
THEOREM SumChange ==
    ASSUME NEW f, NEW g, NEW S, NEW T, NEW x,
           IsFiniteSet(S), IsFiniteSet(T),
           \A y \in S : f[y] \in Int, \A y \in T : g[y] \in Int,
           S \ {x} = T \ {x}, \A y \in S \ {x} : f[y] = g[y]
    PROVE  SumFunctionOnSet(g, T)
             = SumFunctionOnSet(f, S) - Share(f, S, x) + Share(g, T, x)
<1> DEFINE R == S \ {x}
           n == SumFunctionOnSet(f, R)
<1>1. IsFiniteSet(R) /\ R = T \ {x}
  BY FS_Subset
<1>2. n = SumFunctionOnSet(g, R)
  BY <1>1, SumSame
<1>3. n \in Int
  BY <1>1, SumType
<1>4. SumFunctionOnSet(f, S) = n + Share(f, S, x) /\ Share(f, S, x) \in Int
  <2>1. CASE x \in S
    BY <1>3, <2>1, SumRemove DEF Share
  <2>2. CASE x \notin S
    <3>1. R = S
      BY <2>2
    <3>2. SumFunctionOnSet(f, S) = n
      BY <3>1
    <3> HIDE DEF n
    <3> QED BY <1>3, <2>2, <3>2 DEF Share
  <2> QED BY <2>1, <2>2
<1>5. SumFunctionOnSet(g, T) = n + Share(g, T, x) /\ Share(g, T, x) \in Int
  <2>1. CASE x \in T
    <3>1. SumFunctionOnSet(g, T) = g[x] + SumFunctionOnSet(g, T \ {x})
      BY <2>1, SumRemove
    <3>2. SumFunctionOnSet(g, T) = g[x] + n
      BY <1>1, <1>2, <3>1
    <3> HIDE DEF n
    <3> QED BY <1>3, <2>1, <3>2 DEF Share
  <2>2. CASE x \notin T
    <3>1. R = T
      BY <1>1, <2>2
    <3>2. SumFunctionOnSet(g, T) = n
      BY <1>2, <3>1
    <3> HIDE DEF n
    <3> QED BY <1>3, <2>2, <3>2 DEF Share
  <2> QED BY <2>1, <2>2
<1> HIDE DEF n
<1> QED BY <1>3, <1>4, <1>5

(* A sum of amounts is an amount, and no element's is more than the sum. *)
LEMMA SumNat ==
    ASSUME NEW f, NEW S, IsFiniteSet(S), \A x \in S : f[x] \in Nat
    PROVE  SumFunctionOnSet(f, S) \in Nat
<1> DEFINE Bad == {T \in SUBSET S : SumFunctionOnSet(f, T) \notin Nat}
<1>0. SumFunctionOnSet(f, {}) \in Nat
  BY SumEmpty
<1> SUFFICES ASSUME Bad # {} PROVE FALSE
  OBVIOUS
<1>1. PICK T \in Bad : \A U \in Bad : U \subseteq T => U = T
  <2>1. Bad \in SUBSET (SUBSET S)
    OBVIOUS
  <2> HIDE DEF Bad
  <2> QED BY <2>1, SmallestSubset
<1>2. T # {}
  BY <1>0, <1>1
<1>3. IsFiniteSet(T) /\ Chosen(T) \in T
  BY <1>1, <1>2, FS_Subset, ChosenIn
<1>4. SumFunctionOnSet(f, T \ {Chosen(T)}) \in Nat
  BY <1>1, <1>3
<1>5. SumFunctionOnSet(f, T) = f[Chosen(T)] + SumFunctionOnSet(f, T \ {Chosen(T)})
  BY <1>2, <1>3, SumChosen
<1> QED BY <1>1, <1>3, <1>4, <1>5

LEMMA SumZero ==
    ASSUME NEW f, NEW S, IsFiniteSet(S), \A x \in S : f[x] = 0
    PROVE  SumFunctionOnSet(f, S) = 0
<1> DEFINE Bad == {T \in SUBSET S : SumFunctionOnSet(f, T) # 0}
<1>0. SumFunctionOnSet(f, {}) = 0
  BY SumEmpty
<1> SUFFICES ASSUME Bad # {} PROVE FALSE
  OBVIOUS
<1>1. PICK T \in Bad : \A U \in Bad : U \subseteq T => U = T
  <2>1. Bad \in SUBSET (SUBSET S)
    OBVIOUS
  <2> HIDE DEF Bad
  <2> QED BY <2>1, SmallestSubset
<1>2. T # {}
  BY <1>0, <1>1
<1>3. IsFiniteSet(T) /\ Chosen(T) \in T
  BY <1>1, <1>2, FS_Subset, ChosenIn
<1>4. SumFunctionOnSet(f, T \ {Chosen(T)}) = 0
  BY <1>1, <1>3
<1>5. SumFunctionOnSet(f, T) = f[Chosen(T)] + SumFunctionOnSet(f, T \ {Chosen(T)})
  BY <1>2, <1>3, SumChosen
<1> QED BY <1>1, <1>3, <1>4, <1>5

LEMMA SumOne ==
    ASSUME NEW f, NEW x, f[x] \in Int
    PROVE  SumFunctionOnSet(f, {x}) = f[x]
<1>1. IsFiniteSet({x}) /\ {x} \ {x} = {}
  BY FS_Singleton
<1> QED BY <1>1, SumRemove, SumEmpty
=============================================================================
