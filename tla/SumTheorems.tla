----------------------------- MODULE SumTheorems -----------------------------
(***************************************************************************)
(* What SumFunction of the community modules sums: the recursion it is     *)
(* defined by has a solution over a finite set, the order in which the     *)
(* elements are picked does not matter, and changing one value changes the *)
(* sum by the difference.                                                  *)
(***************************************************************************)
EXTENDS Integers, Functions, FiniteSetTheorems, WellFoundedInduction, TLAPS

Pick(s) == CHOOSE x \in s : TRUE

(* g adds up the values of f over every subset of S. *)
Unfolds(g, f, S) ==
    g = [s \in SUBSET S |-> IF s = {} THEN 0 ELSE f[Pick(s)] + g[s \ {Pick(s)}]]

LEMMA SumUnfolded ==
    ASSUME NEW f, NEW S
    PROVE  SumFunctionOnSet(f, S) = (CHOOSE g : Unfolds(g, f, S))[S]
BY DEF SumFunctionOnSet, FoldFunctionOnSet, MapThenFoldSet, Unfolds, Pick

(* Of the subsets of a finite set that have a property, one is smallest. *)
LEMMA Smallest ==
    ASSUME NEW S, IsFiniteSet(S), NEW B, B \subseteq SUBSET S, B # {}
    PROVE  \E s \in B : \A r \in B : ~(r \subseteq s /\ r # s)
<1>1. FiniteSubsetsOf(S) = SUBSET S
  BY FS_FiniteSubsetsOfFinite
<1>2. IsWellFoundedOn(StrictSubsetOrdering(S), SUBSET S)
  BY <1>1, FS_StrictSubsetOrderingWellFounded
<1>3. PICK s \in B : \A r \in B : ~(<<r, s>> \in StrictSubsetOrdering(S))
  BY <1>2, WFMin
<1>4. QED BY <1>3 DEF StrictSubsetOrdering

LEMMA UnfoldsAt ==
    ASSUME NEW f, NEW S, NEW g, Unfolds(g, f, S), NEW s \in SUBSET S
    PROVE  /\ s = {} => g[s] = 0
           /\ s # {} => /\ Pick(s) \in s
                        /\ g[s] = f[Pick(s)] + g[s \ {Pick(s)}]
BY DEF Unfolds, Pick

LEMMA UnfoldsAgree ==
    ASSUME NEW f, NEW S, IsFiniteSet(S), NEW T \in SUBSET S,
           NEW g, Unfolds(g, f, S), NEW h, Unfolds(h, f, T)
    PROVE  \A s \in SUBSET T : g[s] = h[s]
<1> DEFINE B == {s \in SUBSET T : g[s] # h[s]}
<1>1. SUFFICES ASSUME B # {} PROVE FALSE
  OBVIOUS
<1>2. IsFiniteSet(T)
  BY FS_Subset
<1>3. PICK s \in B : \A r \in B : ~(r \subseteq s /\ r # s)
  <2>1. B \subseteq SUBSET T
    OBVIOUS
  <2> HIDE DEF B
  <2>2. QED BY <1>1, <1>2, <2>1, Smallest
<1>4. s \in SUBSET T /\ s \in SUBSET S /\ g[s] # h[s]
  OBVIOUS
<1>5. s # {}
  BY <1>4, UnfoldsAt
<1>6. /\ Pick(s) \in s
      /\ g[s] = f[Pick(s)] + g[s \ {Pick(s)}]
      /\ h[s] = f[Pick(s)] + h[s \ {Pick(s)}]
  BY <1>4, <1>5, UnfoldsAt
<1>7. s \ {Pick(s)} \notin B
  BY <1>3, <1>6
<1>8. QED BY <1>4, <1>6, <1>7

LEMMA UnfoldsExists ==
    ASSUME NEW f, NEW S, IsFiniteSet(S)
    PROVE  \E g : Unfolds(g, f, S)
<1> DEFINE B == {T \in SUBSET S : ~ \E g : Unfolds(g, f, T)}
<1>1. SUFFICES ASSUME B # {} PROVE FALSE
  OBVIOUS
<1>2. PICK T \in B : \A r \in B : ~(r \subseteq T /\ r # T)
  <2>1. B \subseteq SUBSET S
    OBVIOUS
  <2> HIDE DEF B
  <2>2. QED BY <1>1, <2>1, Smallest
<1> DEFINE G(r) == CHOOSE g : Unfolds(g, f, r)
           h == [s \in SUBSET T |->
                   IF s = {} THEN 0
                   ELSE f[Pick(s)] + G(s \ {Pick(s)})[s \ {Pick(s)}]]
<1>3. ASSUME NEW r \in SUBSET T, r # T
      PROVE  Unfolds(G(r), f, r) /\ IsFiniteSet(r)
  <2>1. r \in SUBSET S /\ r \notin B
    BY <1>2, <1>3
  <2>2. \E g : Unfolds(g, f, r)
    BY <2>1
  <2>3. QED BY <2>1, <2>2, FS_Subset
<1>4. ASSUME NEW u \in SUBSET T, u # T
      PROVE  h[u] = G(u)[u]
  <2>1. Unfolds(G(u), f, u) /\ IsFiniteSet(u)
    BY <1>3, <1>4
  <2>2. CASE u = {}
    <3> HIDE DEF G
    <3>1. u \in SUBSET u
      OBVIOUS
    <3>2. G(u)[u] = 0
      BY <2>1, <2>2, <3>1, UnfoldsAt
    <3>3. QED BY <2>2, <3>2
  <2>3. CASE u # {}
    <3> DEFINE v == u \ {Pick(u)}
    <3> HIDE DEF G
    <3>1. Pick(u) \in u /\ G(u)[u] = f[Pick(u)] + G(u)[v]
      BY <2>1, <2>3, UnfoldsAt
    <3>2. v \in SUBSET T /\ v # T /\ v \in SUBSET u
      BY <3>1
    <3>3. Unfolds(G(v), f, v)
      BY <1>3, <3>2
    <3>4. G(u)[v] = G(v)[v]
      BY <2>1, <3>2, <3>3, UnfoldsAgree
    <3>5. h[u] = f[Pick(u)] + G(v)[v]
      BY <2>3
    <3>6. QED BY <3>1, <3>4, <3>5
  <2>4. QED BY <2>2, <2>3
<1>5. ASSUME NEW s \in SUBSET T, s # {}
      PROVE  G(s \ {Pick(s)})[s \ {Pick(s)}] = h[s \ {Pick(s)}]
  <2>1. Pick(s) \in s
    BY <1>5 DEF Pick
  <2>2. s \ {Pick(s)} \in SUBSET T /\ s \ {Pick(s)} # T
    BY <2>1
  <2> HIDE DEF G, h
  <2>3. QED BY <1>4, <2>2
<1>6. Unfolds(h, f, T)
  <2> HIDE DEF G
  <2>1. h = [s \in SUBSET T |-> IF s = {} THEN 0 ELSE f[Pick(s)] + h[s \ {Pick(s)}]]
    BY <1>5
  <2>2. QED BY <2>1 DEF Unfolds
<1>7. QED BY <1>2, <1>6

-----------------------------------------------------------------------------
Sum(f, S) == SumFunctionOnSet(f, S)

LEMMA SumStep ==
    ASSUME NEW f, NEW S, IsFiniteSet(S)
    PROVE  /\ S = {} => Sum(f, S) = 0
           /\ S # {} => /\ Pick(S) \in S
                        /\ Sum(f, S) = f[Pick(S)] + Sum(f, S \ {Pick(S)})
<1> DEFINE G(r) == CHOOSE g : Unfolds(g, f, r)
<1>1. \A r : Sum(f, r) = G(r)[r]
  BY SumUnfolded DEF Sum
<1>2. \A r \in SUBSET S : IsFiniteSet(r) /\ Unfolds(G(r), f, r)
  BY FS_Subset, UnfoldsExists
<1> HIDE DEF G
<1>3. ASSUME S = {} PROVE Sum(f, S) = 0
  <2>1. Unfolds(G(S), f, S) /\ S \in SUBSET S
    BY <1>2
  <2>2. G(S)[S] = 0
    BY <1>3, <2>1, UnfoldsAt
  <2>3. QED BY <1>1, <2>2
<1>4. ASSUME S # {} PROVE Pick(S) \in S /\ Sum(f, S) = f[Pick(S)] + Sum(f, S \ {Pick(S)})
  <2> DEFINE v == S \ {Pick(S)}
  <2>1. /\ S \in SUBSET S /\ v \in SUBSET S /\ v \in SUBSET v
        /\ Unfolds(G(S), f, S) /\ Unfolds(G(v), f, v)
    BY <1>2
  <2>2. Pick(S) \in S /\ G(S)[S] = f[Pick(S)] + G(S)[v]
    BY <1>4, <2>1, UnfoldsAt
  <2>3. G(S)[v] = G(v)[v]
    <3> HIDE DEF v
    <3>1. QED BY <2>1, UnfoldsAgree
  <2>4. QED BY <1>1, <2>2, <2>3
<1>5. QED BY <1>3, <1>4

(* The sum of naturals is a natural. *)
LEMMA SumNat ==
    ASSUME NEW f, NEW S, IsFiniteSet(S), \A x \in S : f[x] \in Nat
    PROVE  Sum(f, S) \in Nat
<1> DEFINE B == {T \in SUBSET S : Sum(f, T) \notin Nat}
<1>1. SUFFICES ASSUME B # {} PROVE FALSE
  OBVIOUS
<1>2. PICK T \in B : \A r \in B : ~(r \subseteq T /\ r # T)
  <2>1. B \subseteq SUBSET S
    OBVIOUS
  <2> HIDE DEF B
  <2>2. QED BY <1>1, <2>1, Smallest
<1>3. IsFiniteSet(T) /\ T \in SUBSET S /\ Sum(f, T) \notin Nat
  BY FS_Subset
<1>4. T # {}
  <2>1. T = {} => Sum(f, T) = 0
    BY <1>3, SumStep
  <2>2. 0 \in Nat
    OBVIOUS
  <2>3. QED BY <1>3, <2>1, <2>2
<1>5. Pick(T) \in T /\ Sum(f, T) = f[Pick(T)] + Sum(f, T \ {Pick(T)})
  BY <1>3, <1>4, SumStep
<1>6. Sum(f, T \ {Pick(T)}) \in Nat
  BY <1>2, <1>3, <1>5
<1>7. QED BY <1>3, <1>5, <1>6

(* Any element may be taken out first. *)
LEMMA SumRemove ==
    ASSUME NEW f, NEW S, IsFiniteSet(S), \A x \in S : f[x] \in Nat, NEW x \in S
    PROVE  Sum(f, S) = f[x] + Sum(f, S \ {x})
<1> DEFINE B == {T \in SUBSET S : \E y \in T : Sum(f, T) # f[y] + Sum(f, T \ {y})}
<1>1. SUFFICES ASSUME B # {} PROVE FALSE
  OBVIOUS
<1>2. PICK T \in B : \A r \in B : ~(r \subseteq T /\ r # T)
  <2>1. B \subseteq SUBSET S
    OBVIOUS
  <2> HIDE DEF B
  <2>2. QED BY <1>1, <2>1, Smallest
<1>3. IsFiniteSet(T) /\ T \in SUBSET S
  BY FS_Subset
<1>4. PICK y \in T : Sum(f, T) # f[y] + Sum(f, T \ {y})
  BY <1>2
<1> DEFINE c == Pick(T)
<1>5. c \in T /\ Sum(f, T) = f[c] + Sum(f, T \ {c})
  BY <1>3, <1>4, SumStep
<1> HIDE DEF c
<1>6. y # c
  BY <1>4, <1>5
<1>7. T \ {c} \notin B /\ T \ {y} \notin B
  BY <1>2, <1>5
<1>8. Sum(f, T \ {c}) = f[y] + Sum(f, (T \ {c}) \ {y})
  BY <1>3, <1>6, <1>7
<1>9. Sum(f, T \ {y}) = f[c] + Sum(f, (T \ {y}) \ {c})
  BY <1>3, <1>5, <1>6, <1>7
<1> DEFINE rest == Sum(f, (T \ {c}) \ {y})
<1>10. Sum(f, (T \ {y}) \ {c}) = rest
  <2>1. (T \ {c}) \ {y} = (T \ {y}) \ {c}
    OBVIOUS
  <2>2. QED BY <2>1
<1>11. rest \in Nat
  <2>1. IsFiniteSet((T \ {c}) \ {y})
    BY <1>3, FS_Subset
  <2>2. QED BY <1>3, <2>1, SumNat
<1>12. f[y] \in Nat /\ f[c] \in Nat
  BY <1>3, <1>5
<1>13. /\ Sum(f, T) = f[c] + (f[y] + rest)
       /\ Sum(f, T \ {y}) = f[c] + rest
  BY <1>5, <1>8, <1>9, <1>10
<1> HIDE DEF rest
<1>14. Sum(f, T) = f[y] + Sum(f, T \ {y})
  BY <1>11, <1>12, <1>13
<1>15. QED BY <1>4, <1>14

(* Functions that agree on a set have the same sum over it. *)
LEMMA SumSame ==
    ASSUME NEW f, NEW g, NEW S, IsFiniteSet(S), \A x \in S : f[x] = g[x]
    PROVE  Sum(f, S) = Sum(g, S)
<1> DEFINE B == {T \in SUBSET S : Sum(f, T) # Sum(g, T)}
<1>1. SUFFICES ASSUME B # {} PROVE FALSE
  OBVIOUS
<1>2. PICK T \in B : \A r \in B : ~(r \subseteq T /\ r # T)
  <2>1. B \subseteq SUBSET S
    OBVIOUS
  <2> HIDE DEF B
  <2>2. QED BY <1>1, <2>1, Smallest
<1>3. IsFiniteSet(T) /\ T \in SUBSET S
  BY FS_Subset
<1>4. T # {}
  BY <1>3, SumStep
<1>5. /\ Pick(T) \in T
      /\ Sum(f, T) = f[Pick(T)] + Sum(f, T \ {Pick(T)})
      /\ Sum(g, T) = g[Pick(T)] + Sum(g, T \ {Pick(T)})
  BY <1>3, <1>4, SumStep
<1>6. Sum(f, T \ {Pick(T)}) = Sum(g, T \ {Pick(T)})
  BY <1>2, <1>3, <1>5
<1>7. QED BY <1>3, <1>5, <1>6

LEMMA SumZero ==
    ASSUME NEW f, NEW S, IsFiniteSet(S), \A x \in S : f[x] = 0
    PROVE  Sum(f, S) = 0
<1> DEFINE B == {T \in SUBSET S : Sum(f, T) # 0}
<1>1. SUFFICES ASSUME B # {} PROVE FALSE
  OBVIOUS
<1>2. PICK T \in B : \A r \in B : ~(r \subseteq T /\ r # T)
  <2>1. B \subseteq SUBSET S
    OBVIOUS
  <2> HIDE DEF B
  <2>2. QED BY <1>1, <2>1, Smallest
<1>3. IsFiniteSet(T) /\ T \in SUBSET S
  BY FS_Subset
<1>4. T # {}
  BY <1>3, SumStep
<1>5. Pick(T) \in T /\ Sum(f, T) = f[Pick(T)] + Sum(f, T \ {Pick(T)})
  BY <1>3, <1>4, SumStep
<1>6. Sum(f, T \ {Pick(T)}) = 0
  BY <1>2, <1>3, <1>5
<1>7. QED BY <1>3, <1>5, <1>6

(* A part sums to no more than the whole. *)
LEMMA SumOfPart ==
    ASSUME NEW f, NEW S, IsFiniteSet(S), \A x \in S : f[x] \in Nat, NEW T \in SUBSET S
    PROVE  Sum(f, T) <= Sum(f, S)
<1> DEFINE B == {R \in SUBSET S : T \subseteq R /\ ~(Sum(f, T) <= Sum(f, R))}
<1>1. SUFFICES ASSUME B # {} PROVE FALSE
  OBVIOUS
<1>2. PICK R \in B : \A r \in B : ~(r \subseteq R /\ r # R)
  <2>1. B \subseteq SUBSET S
    OBVIOUS
  <2> HIDE DEF B
  <2>2. QED BY <1>1, <2>1, Smallest
<1>3. /\ IsFiniteSet(R) /\ R \in SUBSET S /\ T \subseteq R
      /\ Sum(f, T) \in Nat /\ Sum(f, R) \in Nat
  BY FS_Subset, SumNat
<1>4. T # R
  BY <1>3
<1>5. PICK x \in R : x \notin T
  BY <1>3, <1>4
<1>6. Sum(f, R) = f[x] + Sum(f, R \ {x})
  BY <1>3, SumRemove
<1>7. Sum(f, R \ {x}) \in Nat
  BY <1>3, FS_Subset, SumNat
<1>8. Sum(f, T) <= Sum(f, R \ {x})
  <2>1. R \ {x} \notin B
    BY <1>2
  <2>2. QED BY <1>3, <1>5, <2>1
<1>9. QED BY <1>3, <1>6, <1>7, <1>8

(* One value changes: the sum changes by the difference. *)
LEMMA SumExcept ==
    ASSUME NEW S, IsFiniteSet(S), NEW f \in [S -> Nat], NEW x \in S, NEW v \in Nat
    PROVE  /\ SumFunction(f) \in Nat
           /\ f[x] <= SumFunction(f)
           /\ SumFunction([f EXCEPT ![x] = v]) = SumFunction(f) - f[x] + v
<1> DEFINE g == [f EXCEPT ![x] = v]
<1>1. SumFunction(f) = Sum(f, S) /\ SumFunction(g) = Sum(g, S)
  BY DEF SumFunction, Sum
<1>2. /\ Sum(f, S) = f[x] + Sum(f, S \ {x})
      /\ Sum(g, S) = g[x] + Sum(g, S \ {x})
  <2>1. \A y \in S : f[y] \in Nat /\ g[y] \in Nat
    OBVIOUS
  <2> HIDE DEF g
  <2>2. QED BY <2>1, SumRemove
<1>3. IsFiniteSet(S \ {x})
  BY FS_Subset
<1>4. Sum(f, S \ {x}) = Sum(g, S \ {x})
  BY <1>3, SumSame
<1>5. Sum(f, S \ {x}) \in Nat
  BY <1>3, SumNat
<1>6. f[x] \in Nat /\ g[x] = v
  OBVIOUS
<1> HIDE DEF g
<1>7. QED BY <1>1, <1>2, <1>4, <1>5, <1>6 DEF g

=============================================================================
