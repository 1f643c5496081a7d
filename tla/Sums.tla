-------------------------------- MODULE Sums --------------------------------
(***************************************************************************)
(* Sums over finite sets.  The fold by which MapThenSumSet adds values up  *)
(* is a recursive function that removes one chosen member at a time; that  *)
(* it is defined, that it is an integer and that any member may be removed *)
(* first is shown by looking at a minimal subset for which it would fail.  *)
(***************************************************************************)
EXTENDS Integers, FiniteSetTheorems, WellFoundedInduction, TLAPS

\* A set of natural numbers has a least member.
LEMMA LeastNatural ==
    ASSUME NEW T \in SUBSET Nat, T # {}
    PROVE  \E x \in T : \A y \in T : x <= y
<1>1. PICK R : R = OpToRel(<, Nat)
  OBVIOUS
<1>2. IsWellFoundedOn(R, Nat)
  BY <1>1, NatLessThanWellFounded
<1>3. R = {r \in Nat \X Nat : r[1] < r[2]}
  BY <1>1 DEF OpToRel
<1>4. PICK x \in T : \A y \in T : ~ (<<y, x>> \in R)
  BY <1>2, WFMin
<1>5. \A y \in T : ~(y < x)
  BY <1>3, <1>4
<1> QED BY <1>5

\* Any set of subsets of a finite set, unless empty, has a minimal member.
LEMMA MinimalSubset ==
    ASSUME NEW S, IsFiniteSet(S), NEW B \in SUBSET SUBSET S, B # {}
    PROVE  \E t \in B : \A u \in B : u \subseteq t => u = t
<1>1. B \subseteq FiniteSubsetsOf(S)
  BY FS_Subset DEF FiniteSubsetsOf
<1>2. IsWellFoundedOn(StrictSubsetOrdering(S), FiniteSubsetsOf(S))
  BY FS_StrictSubsetOrderingWellFounded
<1>3. PICK t \in B : \A u \in B : ~ (<<u, t>> \in StrictSubsetOrdering(S))
  BY <1>1, <1>2, WFMin
<1>4. ASSUME NEW u \in B, u \subseteq t, u # t PROVE FALSE
  BY <1>3, <1>4 DEF StrictSubsetOrdering
<1> QED BY <1>4

\* One step of the recursion by which MapThenSumSet adds up the values of f.
AnyOf(s) == CHOOSE x \in s : TRUE
SumStep(f, g, s) == IF s = {} THEN 0 ELSE f[AnyOf(s)] + g[s \ {AnyOf(s)}]
IsSum(f, g, S) == g = [s \in SUBSET S |-> SumStep(f, g, s)]

LEMMA AnyIn == ASSUME NEW s, s # {} PROVE AnyOf(s) \in s
  BY DEF AnyOf

LEMMA SumAt ==
    ASSUME NEW S, NEW f, NEW g, IsSum(f, g, S), NEW s \in SUBSET S
    PROVE  g[s] = SumStep(f, g, s)
  BY DEF IsSum

\* A function that satisfies the recursion returns integers.
LEMMA SumInt ==
    ASSUME NEW S, IsFiniteSet(S), NEW f, \A x \in S : f[x] \in Int,
           NEW g, IsSum(f, g, S)
    PROVE  \A s \in SUBSET S : g[s] \in Int
<1> DEFINE B == {s \in SUBSET S : g[s] \notin Int}
<1> SUFFICES ASSUME B # {} PROVE FALSE
  OBVIOUS
<1>0. B \in SUBSET SUBSET S
  OBVIOUS
<1> HIDE DEF B
<1>1. PICK t \in B : \A u \in B : u \subseteq t => u = t
  BY <1>0, MinimalSubset
<1> USE DEF B
<1>2. g[t] = SumStep(f, g, t)
  BY DEF IsSum
<1>3. CASE t = {}
  BY <1>2, <1>3 DEF SumStep
<1>4. CASE t # {}
  <2>1. AnyOf(t) \in t
    BY <1>4, AnyIn
  <2>2. t \ {AnyOf(t)} \notin B
    BY <1>1, <2>1
  <2>3. g[t \ {AnyOf(t)}] \in Int /\ f[AnyOf(t)] \in Int
    BY <2>1, <2>2
  <2> QED BY <1>2, <1>4, <2>3 DEF SumStep
<1> QED BY <1>3, <1>4

\* Two such functions agree wherever both are defined.
LEMMA SumUnique ==
    ASSUME NEW S, NEW T, NEW f, NEW g, NEW h, IsSum(f, g, S), IsSum(f, h, T),
           NEW U \in (SUBSET S) \cap (SUBSET T), IsFiniteSet(U)
    PROVE  g[U] = h[U]
<1> DEFINE B == {s \in SUBSET U : g[s] # h[s]}
<1> SUFFICES ASSUME B # {} PROVE FALSE
  OBVIOUS
<1>0. B \in SUBSET SUBSET U
  OBVIOUS
<1> HIDE DEF B
<1>1. PICK t \in B : \A u \in B : u \subseteq t => u = t
  BY <1>0, MinimalSubset
<1> USE DEF B
<1>2. g[t] = SumStep(f, g, t) /\ h[t] = SumStep(f, h, t)
  BY DEF IsSum
<1>3. CASE t = {}
  BY <1>2, <1>3 DEF SumStep
<1>4. CASE t # {}
  <2>1. AnyOf(t) \in t
    BY <1>4, AnyIn
  <2>2. t \ {AnyOf(t)} \notin B
    BY <1>1, <2>1
  <2>3. g[t \ {AnyOf(t)}] = h[t \ {AnyOf(t)}]
    BY <2>2
  <2> QED BY <1>2, <1>4, <2>3 DEF SumStep
<1> QED BY <1>3, <1>4

\* There is one: extend the sums of the smaller subsets by one step.
LEMMA SumExists ==
    ASSUME NEW S, IsFiniteSet(S), NEW f
    PROVE  \E g : IsSum(f, g, S)
<1> DEFINE B == {s \in SUBSET S : ~ \E g : IsSum(f, g, s)}
<1> SUFFICES ASSUME B # {} PROVE FALSE
  OBVIOUS
<1>0. B \in SUBSET SUBSET S
  OBVIOUS
<1> HIDE DEF B
<1>1. PICK t \in B : \A u \in B : u \subseteq t => u = t
  BY <1>0, MinimalSubset
<1> USE DEF B
<1> DEFINE G(s) == CHOOSE g : IsSum(f, g, s)
           lower == [s \in SUBSET t |-> IF s = t THEN 0 ELSE G(s)[s]]
           h == [s \in SUBSET t |-> SumStep(f, lower, s)]
<1>2. ASSUME NEW s \in SUBSET t, s # t PROVE IsSum(f, G(s), s)
  <2>1. s \notin B
    BY <1>1, <1>2
  <2> QED BY <2>1
<1>3. ASSUME NEW s \in SUBSET t, s # t PROVE h[s] = lower[s]
  <2>1. lower[s] = G(s)[s] /\ h[s] = SumStep(f, lower, s)
    BY <1>3
  <2> HIDE DEF G, lower, h
  <2>4. G(s)[s] = SumStep(f, G(s), s)
    BY <1>2, <1>3, SumAt
  <2>2. CASE s = {}
    BY <2>1, <2>4, <2>2 DEF SumStep
  <2>3. CASE s # {}
    <3> DEFINE r == s \ {AnyOf(s)}
    <3>1. AnyOf(s) \in s /\ r \in SUBSET s /\ r # t
      BY <2>3, <1>3, AnyIn
    <3>2. IsSum(f, G(r), r) /\ IsSum(f, G(s), s)
      BY <3>1, <1>2, <1>3
    <3>3. IsFiniteSet(r)
      BY <3>1, FS_Subset
    <3>4. G(r)[r] = G(s)[r]
      BY <3>1, <3>2, <3>3, SumUnique
    <3>5. lower[r] = G(r)[r]
      BY <3>1 DEF lower
    <3> QED BY <2>1, <2>4, <2>3, <3>4, <3>5 DEF SumStep
  <2> QED BY <2>2, <2>3
<1>4. ASSUME NEW s \in SUBSET t PROVE h[s] = SumStep(f, h, s)
  <2>3. h[s] = SumStep(f, lower, s)
    OBVIOUS
  <2> HIDE DEF h, lower
  <2>1. CASE s = {}
    BY <2>1, <2>3 DEF SumStep
  <2>2. CASE s # {}
    <3>1. AnyOf(s) \in s /\ s \ {AnyOf(s)} \in SUBSET t /\ s \ {AnyOf(s)} # t
      BY <2>2, AnyIn
    <3>2. h[s \ {AnyOf(s)}] = lower[s \ {AnyOf(s)}]
      BY <3>1, <1>3
    <3> QED BY <2>2, <2>3, <3>2 DEF SumStep
  <2> QED BY <2>1, <2>2
<1>5. IsSum(f, h, t)
  BY <1>4 DEF IsSum
<1> QED BY <1>1, <1>5

\* Any member may be taken off first.
LEMMA SumRemove ==
    ASSUME NEW S, IsFiniteSet(S), NEW f, \A x \in S : f[x] \in Int,
           NEW g, IsSum(f, g, S)
    PROVE  \A s \in SUBSET S : \A x \in s : g[s] = f[x] + g[s \ {x}]
<1> DEFINE B == {s \in SUBSET S : \E x \in s : g[s] # f[x] + g[s \ {x}]}
<1> SUFFICES ASSUME B # {} PROVE FALSE
  OBVIOUS
<1>0. B \in SUBSET SUBSET S
  OBVIOUS
<1> HIDE DEF B
<1>1. PICK t \in B : \A u \in B : u \subseteq t => u = t
  BY <1>0, MinimalSubset
<1>2. t \in SUBSET S /\ \E x \in t : g[t] # f[x] + g[t \ {x}]
  BY <1>1 DEF B
<1>3. PICK x \in t : g[t] # f[x] + g[t \ {x}]
  BY <1>2
<1> DEFINE a == AnyOf(t)
           r == t \ {a, x}
<1>4. a \in t
  BY <1>3, AnyIn
<1>5. g[t] = f[a] + g[t \ {a}]
  BY <1>2, <1>3, SumAt DEF SumStep
<1>6. a # x
  BY <1>3, <1>5
<1> HIDE DEF a
<1>7. t \ {a} \notin B /\ t \ {x} \notin B
  BY <1>1, <1>3, <1>4
<1>8. t \ {a} \in SUBSET S /\ t \ {x} \in SUBSET S /\ x \in t \ {a} /\ a \in t \ {x}
  BY <1>2, <1>3, <1>4, <1>6
<1>9. g[t \ {a}] = f[x] + g[(t \ {a}) \ {x}] /\ g[t \ {x}] = f[a] + g[(t \ {x}) \ {a}]
  BY <1>7, <1>8 DEF B
<1>10. (t \ {a}) \ {x} = r /\ (t \ {x}) \ {a} = r /\ r \in SUBSET S
  BY <1>2
<1>11. f[a] \in Int /\ f[x] \in Int /\ g[r] \in Int
  BY <1>2, <1>3, <1>4, <1>10, SumInt
<1> HIDE DEF r
<1> QED BY <1>3, <1>5, <1>9, <1>10, <1>11

-----------------------------------------------------------------------------
(* The sum of f over S.                                                    *)

SumOver(f, S) == (CHOOSE g : IsSum(f, g, S))[S]

LEMMA SumOverIs ==
    ASSUME NEW S, IsFiniteSet(S), NEW f, NEW T \in SUBSET S, NEW g, IsSum(f, g, S)
    PROVE  SumOver(f, T) = g[T]
<1>1. IsFiniteSet(T)
  BY FS_Subset
<1>2. \E h : IsSum(f, h, T)
  BY <1>1, SumExists
<1>3. PICK h : h = CHOOSE k : IsSum(f, k, T)
  OBVIOUS
<1>4. IsSum(f, h, T)
  BY <1>2, <1>3
<1>5. h[T] = g[T]
  BY <1>1, <1>4, SumUnique
<1> QED BY <1>3, <1>5 DEF SumOver

LEMMA SumOverInt ==
    ASSUME NEW S, IsFiniteSet(S), NEW f, \A x \in S : f[x] \in Int
    PROVE  SumOver(f, S) \in Int
<1>1. PICK g : IsSum(f, g, S)
  BY SumExists
<1> QED BY <1>1, SumOverIs, SumInt

LEMMA SumOverEmpty == ASSUME NEW f PROVE SumOver(f, {}) = 0
<1>1. IsFiniteSet({})
  BY FS_EmptySet
<1>2. PICK g : IsSum(f, g, {})
  BY <1>1, SumExists
<1>3. g[{}] = 0
  BY <1>2, SumAt DEF SumStep
<1> QED BY <1>1, <1>2, <1>3, SumOverIs

\* The sum is that of the others and the member's own value.
LEMMA SumOverRemove ==
    ASSUME NEW S, IsFiniteSet(S), NEW f, \A x \in S : f[x] \in Int, NEW a \in S
    PROVE  SumOver(f, S) = f[a] + SumOver(f, S \ {a})
<1>1. PICK g : IsSum(f, g, S)
  BY SumExists
<1>2. g[S] = f[a] + g[S \ {a}]
  BY <1>1, SumRemove
<1>3. SumOver(f, S) = g[S]
  BY <1>1, SumOverIs
<1>4. SumOver(f, S \ {a}) = g[S \ {a}]
  <2>1. S \ {a} \in SUBSET S
    OBVIOUS
  <2> QED BY <1>1, <2>1, SumOverIs
<1> QED BY <1>2, <1>3, <1>4

\* It depends on the values over the set only.
LEMMA SumOverEqual ==
    ASSUME NEW S, IsFiniteSet(S), NEW f, NEW h, \A x \in S : f[x] = h[x]
    PROVE  SumOver(f, S) = SumOver(h, S)
<1>1. PICK g : IsSum(f, g, S)
  BY SumExists
<1>2. ASSUME NEW s \in SUBSET S PROVE SumStep(f, g, s) = SumStep(h, g, s)
  BY AnyIn DEF SumStep
<1>3. IsSum(h, g, S)
  BY <1>1, <1>2 DEF IsSum
<1> QED BY <1>1, <1>3, SumOverIs

\* Fewer and smaller values add up to no more, if none is negative.
LEMMA SumOverLess ==
    ASSUME NEW T, IsFiniteSet(T), NEW S \in SUBSET T,
           NEW f, NEW h, \A x \in S : f[x] \in Int /\ f[x] <= h[x],
           \A x \in T : h[x] \in Int /\ h[x] >= 0
    PROVE  SumOver(f, S) <= SumOver(h, T)
<1> DEFINE B == {t \in SUBSET T : ~(SumOver(f, S \cap t) <= SumOver(h, t))}
<1> SUFFICES ASSUME B # {} PROVE FALSE
  <2>1. S \cap T = S
    OBVIOUS
  <2> QED BY <2>1
<1>0. B \in SUBSET SUBSET T
  OBVIOUS
<1>1. PICK t \in B : \A u \in B : u \subseteq t => u = t
  <2> HIDE DEF B
  <2> QED BY <1>0, MinimalSubset
<1>2. t \in SUBSET T /\ IsFiniteSet(t) /\ IsFiniteSet(S \cap t)
  BY <1>1, FS_Subset
<1>3. CASE t = {}
  <2>1. S \cap t = {}
    BY <1>3
  <2> QED BY <1>1, <1>3, <2>1, SumOverEmpty
<1>4. CASE t # {}
  <2>1. PICK x \in t : TRUE
    BY <1>4
  <2>2. PICK u : u = t \ {x}
    OBVIOUS
  <2>3. u \subseteq T /\ IsFiniteSet(u) /\ IsFiniteSet(S \cap u) /\ u \notin B
    BY <1>1, <1>2, <2>1, <2>2, FS_Subset
  <2>4. SumOver(f, S \cap u) <= SumOver(h, u)
    BY <2>3
  <2>5. SumOver(h, t) = h[x] + SumOver(h, u)
    BY <1>2, <2>1, <2>2, SumOverRemove
  <2>6. SumOver(h, u) \in Int /\ h[x] \in Int /\ h[x] >= 0
    BY <1>2, <2>1, <2>3, SumOverInt
  <2>7. SumOver(f, S \cap u) \in Int
    BY <2>3, SumOverInt
  <2>8. CASE x \in S
    <3>1. x \in S \cap t /\ (S \cap t) \ {x} = S \cap u
      BY <2>1, <2>2, <2>8
    <3>2. \A y \in S \cap t : f[y] \in Int
      OBVIOUS
    <3>3. SumOver(f, S \cap t) = f[x] + SumOver(f, S \cap u)
      BY <1>2, <3>1, <3>2, SumOverRemove
    <3>4. f[x] \in Int /\ f[x] <= h[x]
      BY <2>8
    <3>5. SumOver(f, S \cap t) <= SumOver(h, t)
      BY <2>4, <2>5, <2>6, <2>7, <3>3, <3>4
    <3> QED BY <1>1, <3>5
  <2>9. CASE x \notin S
    <3>1. S \cap t = S \cap u
      BY <2>2, <2>9
    <3>2. SumOver(f, S \cap t) = SumOver(f, S \cap u)
      BY <3>1, Zenon
    <3>3. SumOver(f, S \cap t) <= SumOver(h, t)
      BY <2>4, <2>5, <2>6, <2>7, <3>2
    <3> QED BY <1>1, <3>3
  <2> QED BY <2>8, <2>9
<1> QED BY <1>3, <1>4

\* Values that are not negative add up to no more over a union.
LEMMA SumOverUnion ==
    ASSUME NEW A, NEW C, IsFiniteSet(A), IsFiniteSet(C), NEW f, \A x \in A \cup C : f[x] \in Nat
    PROVE  SumOver(f, A \cup C) <= SumOver(f, A) + SumOver(f, C)
<1> DEFINE B == {t \in SUBSET C : ~(SumOver(f, A \cup t) <= SumOver(f, A) + SumOver(f, t))}
<1> SUFFICES ASSUME B # {} PROVE FALSE
  OBVIOUS
<1>0. B \in SUBSET SUBSET C
  OBVIOUS
<1>1. PICK t \in B : \A u \in B : u \subseteq t => u = t
  <2> HIDE DEF B
  <2> QED BY <1>0, MinimalSubset
<1>2. t \in SUBSET C /\ IsFiniteSet(t) /\ IsFiniteSet(A \cup t)
  BY <1>1, FS_Subset, FS_Union
<1>3. SumOver(f, A) \in Int
  BY SumOverInt
<1>4. CASE t = {}
  <2>1. A \cup t = A
    BY <1>4
  <2>2. SumOver(f, A \cup t) = SumOver(f, A)
    BY <2>1, Zenon
  <2>3. SumOver(f, t) = 0
    BY <1>4, SumOverEmpty
  <2> QED BY <1>1, <1>3, <2>2, <2>3
<1>5. CASE t # {}
  <2>1. PICK x \in t : TRUE
    BY <1>5
  <2>2. PICK u : u = t \ {x}
    OBVIOUS
  <2>3. u \subseteq C /\ IsFiniteSet(u) /\ IsFiniteSet(A \cup u) /\ u \notin B
    BY <1>1, <1>2, <2>1, <2>2, FS_Subset, FS_Union
  <2>4. SumOver(f, A \cup u) <= SumOver(f, A) + SumOver(f, u)
    BY <2>3
  <2>5. \A y \in t : f[y] \in Int
    BY <1>2
  <2>6. SumOver(f, t) = f[x] + SumOver(f, u)
    BY <1>2, <2>1, <2>2, <2>5, SumOverRemove
  <2>7. SumOver(f, u) \in Int /\ SumOver(f, A \cup u) \in Int /\ f[x] \in Nat
    BY <1>2, <2>1, <2>3, SumOverInt
  <2>8. SumOver(f, A \cup t) = SumOver(f, A \cup u) \/ SumOver(f, A \cup t) = f[x] + SumOver(f, A \cup u)
    <3>1. CASE x \in A
      <4>1. A \cup t = A \cup u
        BY <2>1, <2>2, <3>1
      <4> QED BY <4>1, Zenon
    <3>2. CASE x \notin A
      <4>1. (A \cup t) \ {x} = A \cup u /\ x \in A \cup t
        BY <2>1, <2>2, <3>2
      <4>2. \A y \in A \cup t : f[y] \in Int
        BY <1>2
      <4> QED BY <1>2, <4>1, <4>2, SumOverRemove
    <3> QED BY <3>1, <3>2
  <2>9. SumOver(f, A \cup t) <= SumOver(f, A) + SumOver(f, t)
    BY <1>3, <2>4, <2>6, <2>7, <2>8
  <2> QED BY <1>1, <2>9
<1> QED BY <1>4, <1>5
=============================================================================
