------------------------------ MODULE FiniteSums ------------------------------
(***************************************************************************)
(* What SumFunctionOnSet of the community module Functions computes: the   *)
(* sum of a function over a finite set, whatever order its CHOOSE takes    *)
(* the elements in.  The row ledger of the scratchpad is stated with it.   *)
(*                                                                         *)
(* The induction is over the size of the set, as the choice of a smallest  *)
(* counterexample: that needs no theorem with an operator parameter.       *)
(***************************************************************************)
EXTENDS Integers, Functions, FiniteSetTheorems, TLAPS

(* A set of natural numbers that is not empty has a least element.           *)
LEMMA LeastNumber ==
  ASSUME NEW S \in SUBSET Nat, S # {}
  PROVE  \E n \in S : \A m \in S : n <= m
<1>1. IsWellFoundedOn(OpToRel(<, Nat), Nat)
  BY NatLessThanWellFounded
<1>2. \A x, y \in Nat : <<y, x>> \in OpToRel(<, Nat) <=> y < x
  BY DEF OpToRel
<1>3. PICK R : IsWellFoundedOn(R, Nat) /\ \A x, y \in Nat : <<y, x>> \in R <=> y < x
  BY <1>1, <1>2
<1>4. PICK n \in S : \A y \in S : ~(<<y, n>> \in R)
  BY <1>3, WFMin
<1>5. ASSUME NEW y \in S
      PROVE  n <= y
  <2>1. ~(<<y, n>> \in R)
    BY <1>4
  <2>2. y \in Nat /\ n \in Nat
    OBVIOUS
  <2>3. ~(y < n)
    BY <1>3, <2>1, <2>2, Zenon
  <2> QED
    BY <2>2, <2>3
<1> QED
  BY <1>5

(* Of some finite sets one contains none of the others.                      *)
LEMMA LeastSet ==
  ASSUME NEW C, C # {}, \A T \in C : IsFiniteSet(T)
  PROVE  \E T \in C : \A U \in C : U \subseteq T => U = T
<1> DEFINE Sizes == {Cardinality(T) : T \in C}
<1>1. Sizes \in SUBSET Nat /\ Sizes # {}
  BY FS_CardinalityType
<1>2. PICK n \in Sizes : \A m \in Sizes : n <= m
  BY <1>1, LeastNumber
<1>3. PICK T \in C : n = Cardinality(T)
  OBVIOUS
<1>4. ASSUME NEW U \in C, U \subseteq T
      PROVE  U = T
  <2>1. IsFiniteSet(T) /\ U \in SUBSET T
    BY <1>4
  <2>2. Cardinality(U) <= Cardinality(T) /\ (Cardinality(T) = Cardinality(U) => T = U)
    BY <2>1, FS_Subset
  <2>3. Cardinality(T) <= Cardinality(U)
    BY <1>2, <1>3
  <2>4. Cardinality(U) \in Nat /\ Cardinality(T) \in Nat
    BY FS_CardinalityType
  <2> QED
    BY <2>2, <2>3, <2>4
<1> QED
  BY <1>4

-------------------------------------------------------------------------------
(* The recursion of MapThenFoldSet, for a sum.                               *)

Pick(s) == CHOOSE x \in s : TRUE
Step(f, g, s) == IF s = {} THEN 0 ELSE f[Pick(s)] + g[s \ {Pick(s)}]
Sums(f, g, S) == g = [s \in SUBSET S |-> Step(f, g, s)]

LEMMA SumIsChosen ==
  ASSUME NEW f, NEW S
  PROVE  SumFunctionOnSet(f, S) = (CHOOSE g : Sums(f, g, S))[S]
BY Zenon DEF SumFunctionOnSet, FoldFunctionOnSet, MapThenFoldSet, Sums, Step, Pick

LEMMA PickIn ==
  ASSUME NEW s, s # {}
  PROVE  Pick(s) \in s
BY DEF Pick

LEMMA SumsStep ==
  ASSUME NEW f, NEW g, NEW S, Sums(f, g, S), NEW s \in SUBSET S
  PROVE  g[s] = Step(f, g, s)
BY DEF Sums

(* Two functions that satisfy the recursion agree where both are defined.    *)
LEMMA SumsAgree ==
  ASSUME NEW f, NEW g, NEW h, NEW S, NEW T, IsFiniteSet(S), IsFiniteSet(T),
         Sums(f, g, S), Sums(f, h, T), NEW s \in SUBSET (S \cap T)
  PROVE  g[s] = h[s]
<1> DEFINE Differ == {t \in SUBSET (S \cap T) : g[t] # h[t]}
<1>1. SUFFICES ASSUME Differ # {} PROVE FALSE
  OBVIOUS
<1>2. \A t \in Differ : IsFiniteSet(t)
  BY FS_Subset
<1> HIDE DEF Differ
<1>3. PICK t \in Differ : \A u \in Differ : u \subseteq t => u = t
  BY <1>1, <1>2, LeastSet
<1> USE DEF Differ
<1>4. t \in SUBSET S /\ t \in SUBSET T /\ g[t] # h[t]
  OBVIOUS
<1>5. g[t] = Step(f, g, t) /\ h[t] = Step(f, h, t)
  BY <1>4, SumsStep
<1>6. CASE t = {}
  BY <1>4, <1>5, <1>6 DEF Step
<1>7. CASE t # {}
  <2>1. Pick(t) \in t
    BY <1>7, PickIn
  <2>2. t \ {Pick(t)} \notin Differ
    BY <1>3, <2>1
  <2>3. g[t \ {Pick(t)}] = h[t \ {Pick(t)}]
    BY <1>4, <2>2
  <2> QED
    BY <1>4, <1>5, <1>7, <2>3 DEF Step
<1> QED
  BY <1>6, <1>7

(* The recursion stays one on a smaller set.                                 *)
LEMMA SumsRestrict ==
  ASSUME NEW f, NEW g, NEW S, NEW T \in SUBSET S, Sums(f, g, S)
  PROVE  Sums(f, [s \in SUBSET T |-> g[s]], T)
<1> DEFINE h == [s \in SUBSET T |-> g[s]]
<1>1. ASSUME NEW s \in SUBSET T
      PROVE  h[s] = Step(f, h, s)
  <2>1. g[s] = Step(f, g, s)
    BY SumsStep
  <2>2. h[s] = g[s] /\ h[s \ {Pick(s)}] = g[s \ {Pick(s)}]
    OBVIOUS
  <2> QED
    BY <2>1, <2>2 DEF Step
<1>2. h = [s \in SUBSET T |-> h[s]]
  OBVIOUS
<1> QED
  BY <1>1, <1>2, Zenon DEF Sums

(* A finite set has a function that satisfies the recursion.                 *)
LEMMA SumsExist ==
  ASSUME NEW f, NEW S, IsFiniteSet(S)
  PROVE  \E g : Sums(f, g, S)
<1> DEFINE Missing == {T \in SUBSET S : ~ \E g : Sums(f, g, T)}
<1>1. SUFFICES ASSUME Missing # {} PROVE FALSE
  OBVIOUS
<1>2. \A T \in Missing : IsFiniteSet(T)
  BY FS_Subset
<1> HIDE DEF Missing
<1>3. PICK T \in Missing : \A U \in Missing : U \subseteq T => U = T
  BY <1>1, <1>2, LeastSet
<1> USE DEF Missing
<1> DEFINE Sub(s) == CHOOSE g : Sums(f, g, s)
           G == [s \in SUBSET T |-> Sub(s)[s]]
           h == [s \in SUBSET T |-> Step(f, G, s)]
<1>4. ASSUME NEW s \in SUBSET T, s # T
      PROVE  /\ Sums(f, Sub(s), s)
             /\ h[s] = G[s]
  <2>1. \A u \in SUBSET s : u \notin Missing /\ u \in SUBSET S
    BY <1>3, <1>4
  <2>2. \A u \in SUBSET s : \E g : Sums(f, g, u)
    BY <2>1
  <2>3. \A u \in SUBSET s : Sums(f, Sub(u), u)
    BY <2>2, Zenon
  <2>4. Sub(s)[s] = Step(f, Sub(s), s)
    BY <2>3, SumsStep
  <2>5. CASE s = {}
    <3>1. h[s] = Step(f, G, s) /\ G[s] = Sub(s)[s] /\ s \in SUBSET s
      OBVIOUS
    <3> QED
      BY <2>3, <2>4, <2>5, <3>1 DEF Step
  <2>6. CASE s # {}
    <3> DEFINE u == s \ {Pick(s)}
    <3>1. u \in SUBSET (s \cap u) /\ IsFiniteSet(s) /\ IsFiniteSet(u)
      BY FS_Subset
    <3>2. Sums(f, Sub(s), s) /\ Sums(f, Sub(u), u)
      BY <2>3
    <3>3. Sub(s)[u] = Sub(u)[u]
      BY <3>1, <3>2, SumsAgree
    <3>4. G[u] = Sub(u)[u] /\ G[s] = Sub(s)[s]
      OBVIOUS
    <3>5. h[s] = Step(f, G, s)
      OBVIOUS
    <3> QED
      BY <2>3, <2>4, <2>6, <3>3, <3>4, <3>5 DEF Step
  <2> QED
    BY <2>3, <2>5, <2>6
<1>5. ASSUME NEW s \in SUBSET T
      PROVE  h[s] = Step(f, h, s)
  <2>1. CASE s = {}
    BY <2>1 DEF Step
  <2>2. CASE s # {}
    <3>1. s \ {Pick(s)} \in SUBSET T /\ s \ {Pick(s)} # T
      BY <2>2, PickIn
    <3>2. h[s \ {Pick(s)}] = G[s \ {Pick(s)}]
      BY <1>4, <3>1
    <3>3. h[s] = Step(f, G, s)
      OBVIOUS
    <3> QED
      BY <2>2, <3>2, <3>3 DEF Step
  <2> QED
    BY <2>1, <2>2
<1>6. h = [s \in SUBSET T |-> h[s]]
  OBVIOUS
<1>7. Sums(f, h, T)
  BY <1>5, <1>6, Zenon DEF Sums
<1> QED
  BY <1>7

(* The sum obeys the recursion, whatever set it is part of.                  *)
LEMMA SumStep ==
  ASSUME NEW f, NEW S, IsFiniteSet(S)
  PROVE  /\ S = {} => SumFunctionOnSet(f, S) = 0
         /\ S # {} => SumFunctionOnSet(f, S)
                        = f[Pick(S)] + SumFunctionOnSet(f, S \ {Pick(S)})
<1> DEFINE u == S \ {Pick(S)}
           g == CHOOSE g : Sums(f, g, S)
           h == CHOOSE h : Sums(f, h, u)
<1>1. IsFiniteSet(u) /\ u \in SUBSET (S \cap u)
  BY FS_Subset
<1>2. Sums(f, g, S) /\ Sums(f, h, u)
  BY <1>1, SumsExist, Zenon
<1>3. SumFunctionOnSet(f, S) = g[S] /\ SumFunctionOnSet(f, u) = h[u]
  BY SumIsChosen
<1> HIDE DEF g, h
<1>4. g[u] = h[u]
  BY <1>1, <1>2, SumsAgree
<1>5. g[S] = Step(f, g, S)
  BY <1>2, SumsStep
<1> QED
  BY <1>3, <1>4, <1>5 DEF Step

-------------------------------------------------------------------------------
(* What a sum is, of natural numbers over a finite set.                      *)

LEMMA SumEmpty == \A f : SumFunctionOnSet(f, {}) = 0
BY SumStep, FS_EmptySet

LEMMA SumType ==
  ASSUME NEW f, NEW S, IsFiniteSet(S), \A x \in S : f[x] \in Nat
  PROVE  SumFunctionOnSet(f, S) \in Nat
<1> DEFINE Wrong == {T \in SUBSET S : SumFunctionOnSet(f, T) \notin Nat}
<1>1. SUFFICES ASSUME Wrong # {} PROVE FALSE
  OBVIOUS
<1>2. \A T \in Wrong : IsFiniteSet(T)
  BY FS_Subset
<1> HIDE DEF Wrong
<1>3. PICK T \in Wrong : \A U \in Wrong : U \subseteq T => U = T
  BY <1>1, <1>2, LeastSet
<1> USE DEF Wrong
<1>4. T # {}
  BY SumEmpty
<1>5. Pick(T) \in T
  BY <1>4, PickIn
<1>6. SumFunctionOnSet(f, T \ {Pick(T)}) \in Nat
  BY <1>3, <1>5
<1>7. SumFunctionOnSet(f, T) = f[Pick(T)] + SumFunctionOnSet(f, T \ {Pick(T)})
  BY <1>2, <1>4, SumStep
<1>8. f[Pick(T)] \in Nat
  BY <1>5
<1> QED
  BY <1>6, <1>7, <1>8

(* Any element may be taken out first.                                       *)
LEMMA SumRemove ==
  ASSUME NEW f, NEW S, IsFiniteSet(S), \A x \in S : f[x] \in Nat, NEW x \in S
  PROVE  SumFunctionOnSet(f, S) = f[x] + SumFunctionOnSet(f, S \ {x})
<1> DEFINE Sum(T) == SumFunctionOnSet(f, T)
           Wrong == {T \in SUBSET S : \E y \in T : Sum(T) # f[y] + Sum(T \ {y})}
<1>1. SUFFICES ASSUME Wrong # {} PROVE FALSE
  OBVIOUS
<1>2. (\A T \in SUBSET S : IsFiniteSet(T)) /\ \A T \in Wrong : IsFiniteSet(T)
  BY FS_Subset
<1> HIDE DEF Wrong
<1>3. PICK T \in Wrong : \A U \in Wrong : U \subseteq T => U = T
  BY <1>1, <1>2, LeastSet
<1> USE DEF Wrong
<1>4. PICK y \in T : Sum(T) # f[y] + Sum(T \ {y})
  OBVIOUS
<1> DEFINE z == Pick(T)
<1>5. z \in T
  BY PickIn
<1>6. Sum(T) = f[z] + Sum(T \ {z})
  BY <1>2, SumStep
<1>7. CASE y = z
  BY <1>4, <1>6, <1>7
<1>8. CASE y # z
  <2>1. T \ {z} \in SUBSET S /\ T \ {z} \notin Wrong /\ y \in T \ {z}
    BY <1>3, <1>5, <1>8
  <2>2. Sum(T \ {z}) = f[y] + Sum((T \ {z}) \ {y})
    BY <2>1
  <2>3. T \ {y} \in SUBSET S /\ T \ {y} \notin Wrong /\ z \in T \ {y}
    BY <1>3, <1>5, <1>8
  <2>4. Sum(T \ {y}) = f[z] + Sum((T \ {y}) \ {z})
    BY <2>3
  <2>5. (T \ {z}) \ {y} = (T \ {y}) \ {z}
    OBVIOUS
  <2>6. f[y] \in Nat /\ f[z] \in Nat
    BY <1>5
  <2>7. Sum((T \ {y}) \ {z}) \in Nat
    <3>1. (T \ {y}) \ {z} \in SUBSET S
      OBVIOUS
    <3> QED
      BY <1>2, <3>1, SumType
  <2> HIDE DEF Sum, z
  <2> QED
    BY <1>4, <1>6, <2>2, <2>4, <2>5, <2>6, <2>7
<1> QED
  BY <1>7, <1>8

LEMMA SumAdd ==
  ASSUME NEW f, NEW S, IsFiniteSet(S), NEW x, x \notin S, f[x] \in Nat,
         \A y \in S : f[y] \in Nat
  PROVE  SumFunctionOnSet(f, S \cup {x}) = f[x] + SumFunctionOnSet(f, S)
<1>1. IsFiniteSet(S \cup {x}) /\ (S \cup {x}) \ {x} = S
  BY FS_AddElement
<1>2. SumFunctionOnSet(f, S \cup {x}) = f[x] + SumFunctionOnSet(f, (S \cup {x}) \ {x})
  BY <1>1, SumRemove
<1> QED
  BY <1>1, <1>2

(* Only the values on the set count.                                         *)
LEMMA SumSame ==
  ASSUME NEW f, NEW g, NEW S, IsFiniteSet(S), \A x \in S : f[x] = g[x]
  PROVE  SumFunctionOnSet(f, S) = SumFunctionOnSet(g, S)
<1> DEFINE Wrong == {T \in SUBSET S : SumFunctionOnSet(f, T) # SumFunctionOnSet(g, T)}
<1>1. SUFFICES ASSUME Wrong # {} PROVE FALSE
  OBVIOUS
<1>2. \A T \in Wrong : IsFiniteSet(T)
  BY FS_Subset
<1> HIDE DEF Wrong
<1>3. PICK T \in Wrong : \A U \in Wrong : U \subseteq T => U = T
  BY <1>1, <1>2, LeastSet
<1> USE DEF Wrong
<1>4. T # {}
  BY SumEmpty
<1>5. Pick(T) \in T
  BY <1>4, PickIn
<1>6. SumFunctionOnSet(f, T \ {Pick(T)}) = SumFunctionOnSet(g, T \ {Pick(T)})
  BY <1>3, <1>5
<1>7. /\ SumFunctionOnSet(f, T) = f[Pick(T)] + SumFunctionOnSet(f, T \ {Pick(T)})
      /\ SumFunctionOnSet(g, T) = g[Pick(T)] + SumFunctionOnSet(g, T \ {Pick(T)})
  BY <1>2, <1>4, SumStep
<1>8. f[Pick(T)] = g[Pick(T)]
  BY <1>5
<1> QED
  BY <1>6, <1>7, <1>8

(* No element exceeds the sum.                                               *)
LEMMA SumBound ==
  ASSUME NEW f, NEW S, IsFiniteSet(S), \A x \in S : f[x] \in Nat, NEW x \in S
  PROVE  f[x] <= SumFunctionOnSet(f, S)
<1>1. IsFiniteSet(S \ {x})
  BY FS_Subset
<1>2. SumFunctionOnSet(f, S \ {x}) \in Nat
  BY <1>1, SumType
<1> QED
  BY <1>2, SumRemove
===============================================================================
