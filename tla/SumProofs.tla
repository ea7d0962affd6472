-------------------------------- MODULE SumProofs -------------------------------
(***************************************************************************)
(* Sums over finite sets, as MapThenSumSet of the community modules        *)
(* computes them: by a function on the subsets of the set that takes one   *)
(* chosen element after another out.  A sum does not depend on the order   *)
(* in which elements are taken, and changes by as much as one of its terms *)
(* does.                                                                   *)
(*                                                                         *)
(* Induction over the subsets of a finite set is used in the form that a   *)
(* nonempty set of them has a least element (MinimalSubset).               *)
(***************************************************************************)
EXTENDS Integers, FiniteSets, FiniteSetsExt, FiniteSetTheorems, WellFoundedInduction,
        TLAPS

(* The sum of f[x] for the x in S. *)
Sum(f, S) == MapThenSumSet(LAMBDA x : f[x], S)

(* The element that MapThenSumSet takes out of s, and what its recursive *)
(* function on the subsets of S has to satisfy.                          *)
Pick(s) == CHOOSE x \in s : TRUE

Sums(g, f, S) ==
  g = [s \in SUBSET S |-> IF s = {} THEN 0 ELSE f[Pick(s)] + g[s \ {Pick(s)}]]

SumOf(f, S) == CHOOSE g : Sums(g, f, S)

(* The sum is the value of such a function for all of S. *)
LEMMA SumIsChosen ==
  ASSUME NEW f, NEW S
  PROVE  Sum(f, S) = SumOf(f, S)[S]
BY DEF Sum, MapThenSumSet, MapThenFoldSet, SumOf, Sums, Pick

(* Among some subsets of a finite set there is one that holds no other. *)
LEMMA MinimalSubset ==
  ASSUME NEW S, IsFiniteSet(S), NEW C \in SUBSET SUBSET S, C # {}
  PROVE  \E T \in C : \A U \in C : ~ (U \subseteq T /\ U # T)
<1>1. IsWellFoundedOn(StrictSubsetOrdering(S), SUBSET S)
  BY FS_StrictSubsetOrderingWellFounded, FS_FiniteSubsetsOfFinite
<1>2. PICK T \in C : \A U \in C : ~ (<<U, T>> \in StrictSubsetOrdering(S))
  BY <1>1, WFMin
<1> QED BY <1>2 DEF StrictSubsetOrdering

(* What is picked of a nonempty set is in it. *)
LEMMA PickIsElement ==
  ASSUME NEW s, s # {}
  PROVE  Pick(s) \in s
BY DEF Pick

(* Such a function is the only one, on all the subsets that two have. *)
LEMMA SumsAgree ==
  ASSUME NEW f, NEW S, IsFiniteSet(S), NEW T \in SUBSET S,
         NEW g, Sums(g, f, S), NEW h, Sums(h, f, T)
  PROVE  \A s \in SUBSET T : g[s] = h[s]
<1> DEFINE C == {s \in SUBSET T : g[s] # h[s]}
<1> SUFFICES ASSUME C # {} PROVE FALSE
  OBVIOUS
<1>1. PICK s \in C : \A u \in C : ~ (u \subseteq s /\ u # s)
  <2>1. IsFiniteSet(T) /\ C \in SUBSET SUBSET T
    BY FS_Subset
  <2> HIDE DEF C
  <2> QED BY <2>1, MinimalSubset
<1>2. s \in SUBSET S /\ s \in SUBSET T
  OBVIOUS
<1>3. s # {}
  BY <1>2 DEF Sums
<1>4. /\ g[s] = f[Pick(s)] + g[s \ {Pick(s)}]
      /\ h[s] = f[Pick(s)] + h[s \ {Pick(s)}]
  BY <1>2, <1>3 DEF Sums
<1>5. s \ {Pick(s)} # s
  BY <1>3, PickIsElement
<1>6. g[s \ {Pick(s)}] = h[s \ {Pick(s)}]
  BY <1>1, <1>5
<1> QED BY <1>1, <1>4, <1>6

(* The functions of a set and of one of its subsets agree on the latter. *)
LEMMA SumOfAgrees ==
  ASSUME NEW f, NEW S, IsFiniteSet(S), NEW T \in SUBSET S,
         Sums(SumOf(f, S), f, S), Sums(SumOf(f, T), f, T)
  PROVE  SumOf(f, S)[T] = SumOf(f, T)[T]
<1> DEFINE g == SumOf(f, S)
           h == SumOf(f, T)
<1>1. Sums(g, f, S) /\ Sums(h, f, T)
  OBVIOUS
<1> HIDE DEF g, h
<1>2. \A s \in SUBSET T : g[s] = h[s]
  BY <1>1, SumsAgree
<1>3. g[T] = h[T]
  BY <1>2
<1> QED BY <1>3 DEF g, h

(* There is such a function, for every finite set. *)
LEMMA SumsExist ==
  ASSUME NEW f, NEW S, IsFiniteSet(S)
  PROVE  Sums(SumOf(f, S), f, S)
<1> DEFINE C == {T \in SUBSET S : ~ \E g : Sums(g, f, T)}
<1>1. ASSUME C # {} PROVE FALSE
  <2>1. PICK T \in C : \A U \in C : ~ (U \subseteq T /\ U # T)
    <3>1. C \in SUBSET SUBSET S
      OBVIOUS
    <3> HIDE DEF C
    <3> QED BY <1>1, <3>1, MinimalSubset
  <2>2. ASSUME NEW U \in SUBSET T, U # T
        PROVE  Sums(SumOf(f, U), f, U)
    <3>1. \E g : Sums(g, f, U)
      BY <2>1, <2>2
    <3> QED BY <3>1 DEF SumOf
  <2> DEFINE G(U) == SumOf(f, U)[U]
             g == [s \in SUBSET T |->
                     IF s = {} THEN 0 ELSE f[Pick(s)] + G(s \ {Pick(s)})]
  <2>3. ASSUME NEW s \in SUBSET T, s # {}
        PROVE  g[s \ {Pick(s)}] = G(s \ {Pick(s)})
    <3> DEFINE u == s \ {Pick(s)}
    <3>1. u \in SUBSET T /\ u # T
      BY <2>3, PickIsElement
    <3>2. Sums(SumOf(f, u), f, u)
      BY <2>2, <3>1
    <3>3. CASE u = {}
      BY <3>2, <3>3 DEF Sums
    <3>4. CASE u # {}
      <4> DEFINE v == u \ {Pick(u)}
      <4>1. v \in SUBSET u /\ v \in SUBSET T /\ v # T
        BY <3>1, <3>4, PickIsElement
      <4>2. G(u) = f[Pick(u)] + SumOf(f, u)[v]
        BY <3>2, <3>4 DEF Sums
      <4>3. Sums(SumOf(f, v), f, v)
        BY <2>2, <4>1
      <4>4. IsFiniteSet(u)
        BY <3>1, FS_Subset
      <4>5. SumOf(f, u)[v] = SumOf(f, v)[v]
        <5> HIDE DEF u, v
        <5> QED BY <3>2, <4>1, <4>3, <4>4, SumOfAgrees
      <4> QED BY <3>1, <3>4, <4>2, <4>5
    <3> QED BY <3>3, <3>4
  <2>4. Sums(g, f, T)
    <3> SUFFICES ASSUME NEW s \in SUBSET T
                 PROVE  g[s] = IF s = {} THEN 0 ELSE f[Pick(s)] + g[s \ {Pick(s)}]
      BY DEF Sums
    <3> QED BY <2>3
  <2> QED BY <2>1, <2>4
<1>2. \E g : Sums(g, f, S)
  BY <1>1
<1> QED BY <1>2 DEF SumOf

(* Whatever satisfies the recursion has the sum as its value. *)
LEMMA SumsOnce ==
  ASSUME NEW f, NEW S, IsFiniteSet(S), NEW g, Sums(g, f, S)
  PROVE  g[S] = Sum(f, S)
<1>1. \A s \in SUBSET S : g[s] = SumOf(f, S)[s]
  BY SumsExist, SumsAgree
<1> QED BY <1>1, SumIsChosen

-----------------------------------------------------------------------------
(* What a sum is *)

(* Nothing sums up to zero. *)
LEMMA SumEmpty ==
  ASSUME NEW f
  PROVE  Sum(f, {}) = 0
<1>1. Sums(SumOf(f, {}), f, {})
  BY FS_EmptySet, SumsExist
<1> QED BY <1>1, SumIsChosen DEF Sums

(* A sum is one of its terms and the sum of the others. *)
LEMMA SumPicks ==
  ASSUME NEW f, NEW S, IsFiniteSet(S), S # {}
  PROVE  Sum(f, S) = f[Pick(S)] + Sum(f, S \ {Pick(S)})
<1> DEFINE T == S \ {Pick(S)}
<1>1. IsFiniteSet(T) /\ T \in SUBSET S
  BY FS_Subset
<1>2. Sums(SumOf(f, S), f, S) /\ Sums(SumOf(f, T), f, T)
  BY <1>1, SumsExist
<1>3. SumOf(f, S)[T] = SumOf(f, T)[T]
  <2> HIDE DEF T
  <2> QED BY <1>1, <1>2, SumOfAgrees
<1>4. SumOf(f, S)[S] = f[Pick(S)] + SumOf(f, S)[T]
  BY <1>2 DEF Sums
<1> QED BY <1>3, <1>4, SumIsChosen

(* A sum of integers is an integer. *)
LEMMA SumInt ==
  ASSUME NEW f, NEW S, IsFiniteSet(S), \A x \in S : f[x] \in Int
  PROVE  Sum(f, S) \in Int
<1> DEFINE C == {T \in SUBSET S : Sum(f, T) \notin Int}
<1> SUFFICES ASSUME C # {} PROVE FALSE
  OBVIOUS
<1>1. PICK T \in C : \A U \in C : ~ (U \subseteq T /\ U # T)
  <2>1. C \in SUBSET SUBSET S
    OBVIOUS
  <2> HIDE DEF C
  <2> QED BY <2>1, MinimalSubset
<1>2. T # {}
  <2>1. Sum(f, T) # 0
    BY <1>1
  <2> QED BY <2>1, SumEmpty
<1>3. IsFiniteSet(T) /\ Pick(T) \in T
  BY <1>2, FS_Subset, PickIsElement
<1>4. Sum(f, T \ {Pick(T)}) \in Int
  BY <1>1, <1>3
<1> QED BY <1>1, <1>2, <1>3, <1>4, SumPicks

(* A sum of natural numbers is one. *)
LEMMA SumNat ==
  ASSUME NEW f, NEW S, IsFiniteSet(S), \A x \in S : f[x] \in Nat
  PROVE  Sum(f, S) \in Nat
<1> DEFINE C == {T \in SUBSET S : Sum(f, T) \notin Nat}
<1> SUFFICES ASSUME C # {} PROVE FALSE
  OBVIOUS
<1>1. PICK T \in C : \A U \in C : ~ (U \subseteq T /\ U # T)
  <2>1. C \in SUBSET SUBSET S
    OBVIOUS
  <2> HIDE DEF C
  <2> QED BY <2>1, MinimalSubset
<1>2. T # {}
  <2>1. Sum(f, T) # 0
    BY <1>1
  <2> QED BY <2>1, SumEmpty
<1>3. IsFiniteSet(T) /\ Pick(T) \in T
  BY <1>2, FS_Subset, PickIsElement
<1>4. Sum(f, T \ {Pick(T)}) \in Nat
  BY <1>1, <1>3
<1> QED BY <1>1, <1>2, <1>3, <1>4, SumPicks

(* Any element can be taken out first. *)
LEMMA SumRemove ==
  ASSUME NEW f, NEW S, IsFiniteSet(S), \A y \in S : f[y] \in Int, NEW e \in S
  PROVE  Sum(f, S) = f[e] + Sum(f, S \ {e})
<1> DEFINE Takes(T, y) == Sum(f, T) = f[y] + Sum(f, T \ {y})
           C == {T \in SUBSET S : \E y \in T : ~ Takes(T, y)}
<1>1. ASSUME C # {} PROVE FALSE
  <2>1. PICK T \in C : \A U \in C : ~ (U \subseteq T /\ U # T)
    <3>1. C \in SUBSET SUBSET S
      OBVIOUS
    <3> HIDE DEF C
    <3> QED BY <1>1, <3>1, MinimalSubset
  <2>2. PICK x \in T : ~ Takes(T, x)
    OBVIOUS
  <2> DEFINE p == Pick(T)
             V == T \ {p, x}
  <2>3. T \in SUBSET S /\ p \in T
    BY <2>2, PickIsElement
  <2>4. /\ IsFiniteSet(T) /\ IsFiniteSet(T \ {p}) /\ IsFiniteSet(T \ {x})
        /\ IsFiniteSet(V)
    BY <2>3, FS_Subset
  <2>5. Sum(f, T) = f[p] + Sum(f, T \ {p})
    BY <2>2, <2>4, SumPicks
  <2>6. p # x
    BY <2>2, <2>5
  <2>7. /\ (T \ {p}) \ {x} = V /\ (T \ {x}) \ {p} = V
        /\ x \in T \ {p} /\ p \in T \ {x}
    BY <2>2, <2>3, <2>6
  <2>8. Takes(T \ {p}, x) /\ Takes(T \ {x}, p)
    BY <2>1, <2>3, <2>7
  <2>9. Sum(f, T \ {p}) = f[x] + Sum(f, V) /\ Sum(f, T \ {x}) = f[p] + Sum(f, V)
    BY <2>7, <2>8
  <2>10. f[p] \in Int /\ f[x] \in Int /\ Sum(f, V) \in Int
    BY <2>2, <2>3, <2>4, SumInt
  <2>11. Sum(f, T) # f[x] + Sum(f, T \ {x})
    BY <2>2
  <2> HIDE DEF p, V, Takes, C
  <2> QED BY <2>5, <2>9, <2>10, <2>11
<1> QED BY <1>1

-----------------------------------------------------------------------------
(* What changes a sum, and what bounds it *)

(* A sum depends on nothing but its terms. *)
LEMMA SumSame ==
  ASSUME NEW f, NEW g, NEW S, IsFiniteSet(S), \A x \in S : f[x] = g[x]
  PROVE  Sum(f, S) = Sum(g, S)
<1> DEFINE C == {T \in SUBSET S : Sum(f, T) # Sum(g, T)}
<1> SUFFICES ASSUME C # {} PROVE FALSE
  OBVIOUS
<1>1. PICK T \in C : \A U \in C : ~ (U \subseteq T /\ U # T)
  <2>1. C \in SUBSET SUBSET S
    OBVIOUS
  <2> HIDE DEF C
  <2> QED BY <2>1, MinimalSubset
<1>2. T # {}
  <2>1. Sum(f, T) # Sum(g, T)
    BY <1>1
  <2> QED BY <2>1, SumEmpty
<1>3. IsFiniteSet(T) /\ Pick(T) \in T
  BY <1>2, FS_Subset, PickIsElement
<1>4. Sum(f, T \ {Pick(T)}) = Sum(g, T \ {Pick(T)})
  BY <1>1, <1>3
<1>5. Sum(f, T) = f[Pick(T)] + Sum(f, T \ {Pick(T)})
  BY <1>2, <1>3, SumPicks
<1>6. Sum(g, T) = g[Pick(T)] + Sum(g, T \ {Pick(T)})
  BY <1>2, <1>3, SumPicks
<1>7. f[Pick(T)] = g[Pick(T)]
  BY <1>1, <1>3
<1>8. Sum(f, T) = Sum(g, T)
  BY <1>4, <1>5, <1>6, <1>7
<1> QED BY <1>1, <1>8

(* When one term changes, the sum does by as much. *)
LEMMA SumUpdate ==
  ASSUME NEW f, NEW g, NEW S, IsFiniteSet(S),
         \A y \in S : f[y] \in Int /\ g[y] \in Int,
         NEW x \in S, \A y \in S : y # x => f[y] = g[y]
  PROVE  Sum(g, S) = Sum(f, S) - f[x] + g[x]
<1>1. IsFiniteSet(S \ {x})
  BY FS_RemoveElement
<1>2. Sum(f, S) = f[x] + Sum(f, S \ {x}) /\ Sum(g, S) = g[x] + Sum(g, S \ {x})
  BY SumRemove
<1>3. Sum(f, S \ {x}) = Sum(g, S \ {x})
  BY <1>1, SumSame
<1>4. Sum(f, S \ {x}) \in Int
  BY <1>1, SumInt
<1> QED BY <1>2, <1>3, <1>4

(* No term of natural numbers is greater than their sum. *)
LEMMA SumAtLeast ==
  ASSUME NEW f, NEW S, IsFiniteSet(S), \A y \in S : f[y] \in Nat, NEW x \in S
  PROVE  f[x] <= Sum(f, S)
<1>1. IsFiniteSet(S \ {x}) /\ Sum(f, S \ {x}) \in Nat
  BY FS_RemoveElement, SumNat
<1>2. Sum(f, S) = f[x] + Sum(f, S \ {x})
  BY SumRemove
<1> QED BY <1>1, <1>2

(* A sum of zeros is zero. *)
LEMMA SumZero ==
  ASSUME NEW f, NEW S, IsFiniteSet(S), \A x \in S : f[x] = 0
  PROVE  Sum(f, S) = 0
<1> DEFINE C == {T \in SUBSET S : Sum(f, T) # 0}
<1> SUFFICES ASSUME C # {} PROVE FALSE
  OBVIOUS
<1>1. PICK T \in C : \A U \in C : ~ (U \subseteq T /\ U # T)
  <2>1. C \in SUBSET SUBSET S
    OBVIOUS
  <2> HIDE DEF C
  <2> QED BY <2>1, MinimalSubset
<1>2. T # {}
  <2>1. Sum(f, T) # 0
    BY <1>1
  <2> QED BY <2>1, SumEmpty
<1>3. IsFiniteSet(T) /\ Pick(T) \in T
  BY <1>2, FS_Subset, PickIsElement
<1>4. Sum(f, T \ {Pick(T)}) = 0
  BY <1>1, <1>3
<1>5. Sum(f, T) = f[Pick(T)] + Sum(f, T \ {Pick(T)})
  BY <1>2, <1>3, SumPicks
<1>6. f[Pick(T)] = 0
  BY <1>1, <1>3
<1> QED BY <1>1, <1>4, <1>5, <1>6
=============================================================================
