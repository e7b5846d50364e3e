--------------------------- MODULE CollectionProofs ---------------------------
(***************************************************************************)
(* Lemmas about the collections that the models are built from: what a sum *)
(* over a finite set is, what it is to put things in order, and what a     *)
(* loop over a list computes.                                              *)
(*                                                                         *)
(* The library's MapThenSumSet folds a set by taking out an element that   *)
(* it chooses; here the sum is shown not to depend on that choice.  Every  *)
(* induction is by a smallest counterexample, among the subsets of a set   *)
(* or among numbers, which needs no operator parameter.                    *)
(***************************************************************************)
EXTENDS Integers, FiniteSetsExt, FiniteSetTheorems, SequenceTheorems,
        WellFoundedInduction, Lists, Metrics, TLAPS

Pick(s) == CHOOSE x \in s : TRUE

\* What MapThenFoldSet defines for the sum of f over S: a function on its subsets.
FoldOf(g, f, S) ==
  g = [s \in SUBSET S |-> IF s = {} THEN 0 ELSE f[Pick(s)] + g[s \ {Pick(s)}]]

\* That equation, at one subset s.
FoldsAt(g, f, s) ==
  g[s] = IF s = {} THEN 0 ELSE f[Pick(s)] + g[s \ {Pick(s)}]

\* f and e give the same numbers on s.
AgreeOn(f, e, s) == \A x \in s : f[x] = e[x]

SumOver(f, S) == (CHOOSE g : FoldOf(g, f, S))[S]

(* A nonempty collection of subsets of a finite set has a smallest one. *)
LEMMA SmallestSubset ==
  ASSUME NEW S, IsFiniteSet(S), NEW C \in SUBSET SUBSET S, C # {}
  PROVE  \E T \in C : \A U \in C : U \subseteq T => U = T
<1>1. IsWellFoundedOn(StrictSubsetOrdering(S), SUBSET S)
  BY FS_StrictSubsetOrderingWellFounded, FS_FiniteSubsetsOfFinite
<1>2. PICK T \in C : \A U \in C : ~(<<U, T>> \in StrictSubsetOrdering(S))
  BY <1>1, WFMin
<1>3. ASSUME NEW U \in C, U \subseteq T PROVE U = T
  BY <1>2, <1>3 DEF StrictSubsetOrdering
<1> QED
  BY <1>3

(* The element that is picked is one of the set. *)
LEMMA PickIsMember ==
  ASSUME NEW s, s # {}
  PROVE  Pick(s) \in s
  BY DEF Pick

(* The equation of a fold, at one subset. *)
LEMMA FoldAt ==
  ASSUME NEW g, NEW f, NEW S, FoldOf(g, f, S), NEW s \in SUBSET S
  PROVE  FoldsAt(g, f, s)
<1> DEFINE h == [t \in SUBSET S |-> IF t = {} THEN 0 ELSE f[Pick(t)] + g[t \ {Pick(t)}]]
<1>1. g = h
  BY DEF FoldOf
<1>2. h[s] = IF s = {} THEN 0 ELSE f[Pick(s)] + g[s \ {Pick(s)}]
  OBVIOUS
<1> HIDE DEF h
<1> QED
  BY <1>1, <1>2 DEF FoldsAt

(* Two folds agree wherever both are defined, if they add the same numbers. *)
LEMMA FoldsAgree ==
  ASSUME NEW S, NEW R, NEW s, s \subseteq S, s \subseteq R, IsFiniteSet(s),
         NEW f, NEW e, AgreeOn(f, e, s),
         NEW g, NEW h, FoldOf(g, f, S), FoldOf(h, e, R)
  PROVE  g[s] = h[s]
<1> DEFINE C == {t \in SUBSET s : g[t] # h[t]}
<1>1. SUFFICES ASSUME C # {} PROVE FALSE
  OBVIOUS
<1>2. PICK t \in C : \A u \in C : u \subseteq t => u = t
  <2> HIDE DEF C
  <2>1. C \in SUBSET SUBSET s
    BY DEF C
  <2> QED
    BY <1>1, <2>1, SmallestSubset
<1>3. t \in SUBSET S /\ t \in SUBSET R /\ t \subseteq s /\ g[t] # h[t]
  OBVIOUS
<1>4. /\ g[t] = IF t = {} THEN 0 ELSE f[Pick(t)] + g[t \ {Pick(t)}]
      /\ h[t] = IF t = {} THEN 0 ELSE e[Pick(t)] + h[t \ {Pick(t)}]
  <2> HIDE DEF C
  <2>1. FoldsAt(g, f, t)
    BY <1>3, FoldAt
  <2>2. FoldsAt(h, e, t)
    BY <1>3, FoldAt
  <2> QED
    BY <2>1, <2>2 DEF FoldsAt
<1>5. t # {}
  BY <1>3, <1>4
<1>6. Pick(t) \in t
  BY <1>5, PickIsMember
<1>7. t \ {Pick(t)} \notin C
  BY <1>2, <1>6
<1>8. g[t \ {Pick(t)}] = h[t \ {Pick(t)}]
  BY <1>3, <1>7
<1>9. f[Pick(t)] = e[Pick(t)]
  BY <1>3, <1>6 DEF AgreeOn
<1> QED
  BY <1>3, <1>4, <1>8, <1>9

(* A fold exists for every finite set. *)
LEMMA FoldExists ==
  ASSUME NEW S, IsFiniteSet(S), NEW f
  PROVE  \E g : FoldOf(g, f, S)
<1> DEFINE C == {t \in SUBSET S : ~ \E g : FoldOf(g, f, t)}
<1>1. SUFFICES ASSUME C # {} PROVE FALSE
  BY DEF C
<1>2. PICK t \in C : \A u \in C : u \subseteq t => u = t
  <2>1. C \in SUBSET SUBSET S
    OBVIOUS
  <2> HIDE DEF C
  <2> QED
    BY <1>1, <2>1, SmallestSubset
<1>3. t \subseteq S /\ ~ \E g : FoldOf(g, f, t)
  BY <1>2
<1>4. ASSUME NEW u \in SUBSET t, u # t PROVE \E g : FoldOf(g, f, u)
  <2>1. u \notin C
    BY <1>2, <1>4
  <2> QED
    BY <1>3, <2>1
<1> HIDE DEF C
<1> DEFINE G(u) == (CHOOSE g : FoldOf(g, f, u))[u]
           K(u) == IF u = {} THEN 0 ELSE f[Pick(u)] + G(u \ {Pick(u)})
           k == [u \in SUBSET t |-> K(u)]
<1>5. ASSUME NEW u \in SUBSET t, u # t PROVE G(u) = K(u)
  <2>1. PICK g : FoldOf(g, f, u)
    BY <1>4, <1>5
  <2> DEFINE g0 == CHOOSE gg : FoldOf(gg, f, u)
  <2>2. FoldOf(g0, f, u)
    BY <2>1
  <2>3. G(u) = g0[u]
    OBVIOUS
  <2> HIDE DEF g0
  <2>4. g0[u] = IF u = {} THEN 0 ELSE f[Pick(u)] + g0[u \ {Pick(u)}]
    BY <2>2, FoldAt DEF FoldsAt
  <2>5. CASE u = {}
    BY <2>3, <2>4, <2>5
  <2>6. CASE u # {}
    <3> DEFINE v == u \ {Pick(u)}
               g1 == CHOOSE gg : FoldOf(gg, f, v)
    <3>1. Pick(u) \in u
      BY <2>6, PickIsMember
    <3>2. v \in SUBSET t /\ v # t /\ v \subseteq u
      BY <3>1
    <3>3. FoldOf(g1, f, v)
      <4> HIDE DEF v
      <4>1. \E gg : FoldOf(gg, f, v)
        BY <1>4, <3>2
      <4> QED
        BY <4>1
    <3>4. G(v) = g1[v]
      OBVIOUS
    <3>5. IsFiniteSet(v)
      BY <1>3, <3>2, FS_Subset
    <3> HIDE DEF v, g1
    <3>6. g0[v] = g1[v]
      <4>1. v \subseteq v /\ AgreeOn(f, f, v)
        BY DEF AgreeOn
      <4> QED
        BY <2>2, <3>2, <3>3, <3>5, <4>1, FoldsAgree
    <3>7. K(u) = f[Pick(u)] + G(v)
      BY <2>6 DEF v
    <3> QED
      BY <2>3, <2>4, <2>6, <3>4, <3>6, <3>7 DEF v
  <2> QED
    BY <2>5, <2>6
<1> HIDE DEF G
<1>6. ASSUME NEW u \in SUBSET t
      PROVE  K(u) = IF u = {} THEN 0 ELSE f[Pick(u)] + k[u \ {Pick(u)}]
  <2>1. CASE u = {}
    BY <2>1
  <2>2. CASE u # {}
    <3> DEFINE v == u \ {Pick(u)}
    <3>1. Pick(u) \in u
      BY <2>2, PickIsMember
    <3>2. v \in SUBSET t /\ v # t
      BY <3>1
    <3>3. G(v) = K(v)
      <4> HIDE DEF v, K
      <4> QED
        BY <1>5, <3>2
    <3>4. k[v] = K(v)
      <4> HIDE DEF v, K
      <4> QED
        BY <3>2
    <3> QED
      BY <2>2, <3>3, <3>4
  <2> QED
    BY <2>1, <2>2
<1> HIDE DEF K
<1>7. k = [u \in SUBSET t |-> IF u = {} THEN 0 ELSE f[Pick(u)] + k[u \ {Pick(u)}]]
  <2> DEFINE R(u) == IF u = {} THEN 0 ELSE f[Pick(u)] + k[u \ {Pick(u)}]
  <2>1. \A u \in SUBSET t : K(u) = R(u)
    BY <1>6
  <2> HIDE DEF R
  <2>2. k = [u \in SUBSET t |-> R(u)]
    BY <2>1
  <2> QED
    BY <2>2 DEF R
<1> HIDE DEF k
<1> QED
  BY <1>3, <1>7 DEF FoldOf

-----------------------------------------------------------------------------
(* A sum of nothing. *)
LEMMA SumOfNone ==
  ASSUME NEW f
  PROVE  SumOver(f, {}) = 0
<1> DEFINE g == CHOOSE gg : FoldOf(gg, f, {})
<1>1. FoldOf(g, f, {})
  <2>1. \E gg : FoldOf(gg, f, {})
    BY FoldExists, FS_EmptySet
  <2> QED
    BY <2>1
<1>2. SumOver(f, {}) = g[{}]
  BY DEF SumOver
<1> HIDE DEF g
<1>3. g[{}] = IF {} = {} THEN 0 ELSE f[Pick({})] + g[{} \ {Pick({})}]
  <2>1. {} \in SUBSET {}
    OBVIOUS
  <2> QED
    BY <1>1, <2>1, FoldAt DEF FoldsAt
<1> QED
  BY <1>2, <1>3

(* Any fold of f over a set that holds s gives the sum over s. *)
LEMMA FoldIsSum ==
  ASSUME NEW S, NEW s, s \subseteq S, IsFiniteSet(s),
         NEW f, NEW g, FoldOf(g, f, S)
  PROVE  g[s] = SumOver(f, s)
<1> DEFINE h == CHOOSE gg : FoldOf(gg, f, s)
<1>1. FoldOf(h, f, s)
  <2>1. \E gg : FoldOf(gg, f, s)
    BY FoldExists
  <2> QED
    BY <2>1
<1>2. SumOver(f, s) = h[s]
  BY DEF SumOver
<1> HIDE DEF h
<1>3. g[s] = h[s]
  <2>1. s \subseteq s /\ AgreeOn(f, f, s)
    BY DEF AgreeOn
  <2> QED
    BY <1>1, <2>1, FoldsAgree
<1> QED
  BY <1>2, <1>3

(* The sum takes out the element that is picked. *)
LEMMA SumUnfolds ==
  ASSUME NEW S, IsFiniteSet(S), S # {}, NEW f
  PROVE  SumOver(f, S) = f[Pick(S)] + SumOver(f, S \ {Pick(S)})
<1>1. PICK g : FoldOf(g, f, S)
  BY FoldExists
<1> DEFINE T == S \ {Pick(S)}
<1>2. T \subseteq S /\ IsFiniteSet(T)
  BY FS_Subset
<1>3. g[S] = f[Pick(S)] + g[T]
  <2>1. S \in SUBSET S
    OBVIOUS
  <2> QED
    BY <1>1, <2>1, FoldAt DEF FoldsAt
<1> HIDE DEF T
<1>4. g[S] = SumOver(f, S)
  <2>1. S \subseteq S
    OBVIOUS
  <2> QED
    BY <1>1, <2>1, FoldIsSum
<1>5. g[T] = SumOver(f, T)
  BY <1>1, <1>2, FoldIsSum
<1> QED
  BY <1>3, <1>4, <1>5 DEF T

(* Sums of the same numbers are the same. *)
LEMMA SumCongruence ==
  ASSUME NEW S, IsFiniteSet(S), NEW f, NEW e, \A x \in S : f[x] = e[x]
  PROVE  SumOver(f, S) = SumOver(e, S)
<1>1. PICK g : FoldOf(g, f, S)
  BY FoldExists
<1>2. PICK h : FoldOf(h, e, S)
  BY FoldExists
<1>3. S \subseteq S /\ AgreeOn(f, e, S)
  BY DEF AgreeOn
<1>4. g[S] = h[S]
  BY <1>1, <1>2, <1>3, FoldsAgree
<1>5. g[S] = SumOver(f, S)
  BY <1>1, <1>3, FoldIsSum
<1>6. h[S] = SumOver(e, S)
  BY <1>2, <1>3, FoldIsSum
<1> QED
  BY <1>4, <1>5, <1>6

(* A sum of integers is an integer. *)
LEMMA SumIsInteger ==
  ASSUME NEW S, IsFiniteSet(S), NEW f, \A x \in S : f[x] \in Int
  PROVE  SumOver(f, S) \in Int
<1> DEFINE C == {t \in SUBSET S : SumOver(f, t) \notin Int}
<1>1. SUFFICES ASSUME C # {} PROVE FALSE
  OBVIOUS
<1>2. PICK t \in C : \A u \in C : u \subseteq t => u = t
  <2>1. C \in SUBSET SUBSET S
    OBVIOUS
  <2> HIDE DEF C
  <2> QED
    BY <1>1, <2>1, SmallestSubset
<1>3. t \subseteq S /\ SumOver(f, t) \notin Int /\ IsFiniteSet(t)
  BY FS_Subset
<1>4. t # {}
  BY <1>3, SumOfNone
<1>5. Pick(t) \in t
  BY <1>4, PickIsMember
<1>6. SumOver(f, t \ {Pick(t)}) \in Int
  BY <1>2, <1>3, <1>5
<1>7. SumOver(f, t) = f[Pick(t)] + SumOver(f, t \ {Pick(t)})
  BY <1>3, <1>4, SumUnfolds
<1>8. f[Pick(t)] \in Int
  BY <1>3, <1>5
<1> QED
  BY <1>3, <1>6, <1>7, <1>8

(* A sum of natural numbers is one. *)
LEMMA SumIsNatural ==
  ASSUME NEW S, IsFiniteSet(S), NEW f, \A x \in S : f[x] \in Nat
  PROVE  SumOver(f, S) \in Nat
<1> DEFINE C == {t \in SUBSET S : SumOver(f, t) \notin Nat}
<1>1. SUFFICES ASSUME C # {} PROVE FALSE
  OBVIOUS
<1>2. PICK t \in C : \A u \in C : u \subseteq t => u = t
  <2>1. C \in SUBSET SUBSET S
    OBVIOUS
  <2> HIDE DEF C
  <2> QED
    BY <1>1, <2>1, SmallestSubset
<1>3. t \subseteq S /\ SumOver(f, t) \notin Nat /\ IsFiniteSet(t)
  BY FS_Subset
<1>4. t # {}
  BY <1>3, SumOfNone
<1>5. Pick(t) \in t
  BY <1>4, PickIsMember
<1>6. SumOver(f, t \ {Pick(t)}) \in Nat
  BY <1>2, <1>3, <1>5
<1>7. SumOver(f, t) = f[Pick(t)] + SumOver(f, t \ {Pick(t)})
  BY <1>3, <1>4, SumUnfolds
<1>8. f[Pick(t)] \in Nat
  BY <1>3, <1>5
<1> QED
  BY <1>3, <1>6, <1>7, <1>8

(* A sum of zeros. *)
LEMMA SumOfZeros ==
  ASSUME NEW S, IsFiniteSet(S), NEW f, \A x \in S : f[x] = 0
  PROVE  SumOver(f, S) = 0
<1> DEFINE C == {t \in SUBSET S : SumOver(f, t) # 0}
<1>1. SUFFICES ASSUME C # {} PROVE FALSE
  OBVIOUS
<1>2. PICK t \in C : \A u \in C : u \subseteq t => u = t
  <2>1. C \in SUBSET SUBSET S
    OBVIOUS
  <2> HIDE DEF C
  <2> QED
    BY <1>1, <2>1, SmallestSubset
<1>3. t \subseteq S /\ SumOver(f, t) # 0 /\ IsFiniteSet(t)
  BY FS_Subset
<1>4. t # {}
  BY <1>3, SumOfNone
<1>5. Pick(t) \in t
  BY <1>4, PickIsMember
<1>6. SumOver(f, t \ {Pick(t)}) = 0
  BY <1>2, <1>3, <1>5
<1>7. SumOver(f, t) = f[Pick(t)] + SumOver(f, t \ {Pick(t)})
  BY <1>3, <1>4, SumUnfolds
<1> QED
  BY <1>3, <1>5, <1>6, <1>7

(* Any element can be taken out of a sum, whichever one the fold would pick. *)
LEMMA SumWithout ==
  ASSUME NEW S, IsFiniteSet(S), NEW f, \A x \in S : f[x] \in Int, NEW a \in S
  PROVE  SumOver(f, S) = f[a] + SumOver(f, S \ {a})
<1> DEFINE C == {t \in SUBSET S : \E x \in t :
                   SumOver(f, t) # f[x] + SumOver(f, t \ {x})}
<1>1. SUFFICES ASSUME C # {} PROVE FALSE
  OBVIOUS
<1>2. PICK t \in C : \A u \in C : u \subseteq t => u = t
  <2>1. C \in SUBSET SUBSET S
    OBVIOUS
  <2> HIDE DEF C
  <2> QED
    BY <1>1, <2>1, SmallestSubset
<1>3. t \subseteq S /\ IsFiniteSet(t)
  BY FS_Subset
<1>4. PICK x \in t : SumOver(f, t) # f[x] + SumOver(f, t \ {x})
  BY <1>2
<1> DEFINE p == Pick(t)
           u == t \ {p}
           v == t \ {x}
           w == t \ {p, x}
<1>5. SumOver(f, t) = f[p] + SumOver(f, u)
  BY <1>3, <1>4, SumUnfolds
<1>6. p \in t
  BY <1>4, PickIsMember
<1>7. p # x
  BY <1>4, <1>5
<1>8. /\ u \subseteq t /\ u # t /\ v \subseteq t /\ v # t
      /\ x \in u /\ p \in v /\ u \ {x} = w /\ v \ {p} = w
  BY <1>4, <1>6, <1>7
<1>9. u \notin C /\ v \notin C /\ u \in SUBSET S /\ v \in SUBSET S
  <2> HIDE DEF C, u, v, w
  <2> QED
    BY <1>2, <1>3, <1>8
<1>10. SumOver(f, u) = f[x] + SumOver(f, w)
  <2> HIDE DEF u, v, w, p
  <2> QED
    BY <1>8, <1>9
<1>11. SumOver(f, v) = f[p] + SumOver(f, w)
  <2> HIDE DEF u, v, w, p
  <2> QED
    BY <1>8, <1>9
<1>12. f[p] \in Int /\ f[x] \in Int /\ SumOver(f, w) \in Int
  <2>1. w \subseteq S /\ IsFiniteSet(w)
    BY <1>3, FS_Subset
  <2> HIDE DEF w
  <2>2. SumOver(f, w) \in Int
    BY <2>1, SumIsInteger
  <2> QED
    BY <1>3, <1>4, <1>6, <2>2
<1> HIDE DEF u, w, p
<1> QED
  BY <1>4, <1>5, <1>10, <1>11, <1>12

(* When one number changes by d, so does the sum. *)
LEMMA SumOfUpdate ==
  ASSUME NEW S, IsFiniteSet(S), NEW f, NEW e, NEW a \in S, NEW d \in Int,
         \A x \in S : f[x] \in Int,
         e[a] = f[a] + d, \A x \in S \ {a} : e[x] = f[x]
  PROVE  SumOver(e, S) = SumOver(f, S) + d
<1>1. \A x \in S : e[x] \in Int
  OBVIOUS
<1>2. SumOver(f, S) = f[a] + SumOver(f, S \ {a})
  BY SumWithout
<1>3. SumOver(e, S) = e[a] + SumOver(e, S \ {a})
  BY <1>1, SumWithout
<1>4. IsFiniteSet(S \ {a})
  BY FS_Subset
<1>5. SumOver(e, S \ {a}) = SumOver(f, S \ {a})
  BY <1>4, SumCongruence
<1>6. SumOver(f, S \ {a}) \in Int
  BY <1>4, SumIsInteger
<1> QED
  BY <1>2, <1>3, <1>5, <1>6

(* Zeros that join do not change a sum. *)
LEMMA SumExtends ==
  ASSUME NEW S, NEW T, IsFiniteSet(T), S \subseteq T, NEW f, NEW e,
         \A x \in S : f[x] \in Int /\ e[x] = f[x], \A x \in T \ S : e[x] = 0
  PROVE  SumOver(e, T) = SumOver(f, S)
<1> DEFINE C == {t \in SUBSET T : S \subseteq t /\ SumOver(e, t) # SumOver(e, S)}
<1>1. IsFiniteSet(S)
  BY FS_Subset
<1>2. SumOver(e, S) = SumOver(f, S) /\ SumOver(f, S) \in Int
  BY <1>1, SumCongruence, SumIsInteger
<1>3. SUFFICES ASSUME C # {} PROVE FALSE
  BY <1>2
<1>4. PICK t \in C : \A u \in C : u \subseteq t => u = t
  <2>1. C \in SUBSET SUBSET T
    OBVIOUS
  <2> HIDE DEF C
  <2> QED
    BY <1>3, <2>1, SmallestSubset
<1>5. t \subseteq T /\ S \subseteq t /\ SumOver(e, t) # SumOver(e, S) /\ IsFiniteSet(t)
  BY FS_Subset
<1>6. PICK a \in t : a \notin S
  BY <1>5
<1>7. SumOver(e, t \ {a}) = SumOver(e, S)
  BY <1>4, <1>5, <1>6
<1>8. \A x \in t : e[x] \in Int
  BY <1>5
<1>9. SumOver(e, t) = e[a] + SumOver(e, t \ {a})
  BY <1>5, <1>8, SumWithout
<1>10. e[a] = 0
  BY <1>5, <1>6
<1> QED
  BY <1>2, <1>5, <1>7, <1>9, <1>10

-----------------------------------------------------------------------------
(* Numbers *)

\* A nonempty set of integers that are not below a has a least one.
LEMMA LeastOf ==
  ASSUME NEW a \in Int, NEW S, S \subseteq Int, S # {}, \A x \in S : a <= x
  PROVE  \E x \in S : \A y \in S : x <= y
<1> DEFINE T == {n \in Nat : n + a \in S}
<1>1. T # {}
  <2>1. PICK x \in S : TRUE
    OBVIOUS
  <2>2. x - a \in T
    BY <2>1
  <2> QED
    BY <2>2
<1>2. T \subseteq Nat
  OBVIOUS
<1> HIDE DEF T
<1>3. PICK n \in T : \A m \in T : ~(<<m, n>> \in OpToRel(<, Nat))
  BY <1>1, <1>2, NatLessThanWellFounded, WFMin
<1>4. \A m \in T : n <= m
  <2>1. \A m \in T : ~(m < n)
    BY <1>2, <1>3 DEF OpToRel
  <2> QED
    BY <1>2, <2>1
<1>5. n + a \in S /\ n \in Nat
  BY <1>2 DEF T
<1>6. ASSUME NEW y \in S PROVE n + a <= y
  <2>1. y - a \in T
    BY DEF T
  <2> QED
    BY <1>4, <1>5, <2>1
<1> QED
  BY <1>5, <1>6

\* What holds of a and passes from each number to the next holds up to n.
LEMMA UpTo ==
  ASSUME NEW a \in Int, NEW n \in Int, NEW S, a \in S,
         \A k \in a + 1 .. n : k - 1 \in S => k \in S
  PROVE  a .. n \subseteq S
<1> DEFINE C == {k \in a .. n : k \notin S}
<1>1. SUFFICES ASSUME C # {} PROVE FALSE
  OBVIOUS
<1>2. PICK k \in C : \A m \in C : k <= m
  <2>1. C \subseteq Int /\ \A x \in C : a <= x
    OBVIOUS
  <2> HIDE DEF C
  <2> QED
    BY <1>1, <2>1, LeastOf
<1>3. k # a /\ k \in a + 1 .. n /\ k - 1 \in a .. n
  BY <1>2
<1>4. k - 1 \in S
  BY <1>2, <1>3
<1> QED
  BY <1>2, <1>3, <1>4

-----------------------------------------------------------------------------
(* Ranks.  B gives for each element of X those that come before it. *)

ComesBefore(X, B) ==
  /\ B \in [X -> SUBSET X]
  /\ \A i \in X : i \notin B[i]
  /\ \A i, j \in X : i # j => i \in B[j] \/ j \in B[i]
  /\ \A i, j \in X : i \in B[j] => B[i] \subseteq B[j]

\* An element comes before another one when fewer elements come before it.
LEMMA RankIsMonotone ==
  ASSUME NEW X, IsFiniteSet(X), NEW B, ComesBefore(X, B), NEW i \in X, NEW j \in X, i \in B[j]
  PROVE  Cardinality(B[i]) < Cardinality(B[j])
<1>1. B[j] \subseteq X /\ B[i] \subseteq B[j] /\ i \notin B[i]
  BY DEF ComesBefore
<1>2. IsFiniteSet(B[j])
  BY <1>1, FS_Subset
<1>3. /\ Cardinality(B[i]) <= Cardinality(B[j])
      /\ Cardinality(B[j]) = Cardinality(B[i]) => B[i] = B[j]
      /\ IsFiniteSet(B[i])
  BY <1>1, <1>2, FS_Subset
<1>4. Cardinality(B[i]) \in Nat /\ Cardinality(B[j]) \in Nat
  BY <1>2, <1>3, FS_CardinalityType
<1> QED
  BY <1>1, <1>3, <1>4

\* Every rank is that of one element.
LEMMA RanksAreTaken ==
  ASSUME NEW X, IsFiniteSet(X), NEW B, ComesBefore(X, B), NEW k \in 1 .. Cardinality(X)
  PROVE  \E i \in X : Cardinality(B[i]) = k - 1
<1> DEFINE n == Cardinality(X)
           R == 0 .. n - 1
           f == [i \in X |-> Cardinality(B[i])]
<1>1. n \in Nat
  BY FS_CardinalityType
<1>2. ASSUME NEW i \in X PROVE Cardinality(B[i]) \in R
  <2>1. B[i] \subseteq X \ {i}
    BY DEF ComesBefore
  <2>2. IsFiniteSet(X \ {i}) /\ Cardinality(X \ {i}) = n - 1
    BY FS_RemoveElement
  <2>3. IsFiniteSet(B[i]) /\ Cardinality(B[i]) <= n - 1
    BY <2>1, <2>2, FS_Subset
  <2>4. Cardinality(B[i]) \in Nat
    BY <2>3, FS_CardinalityType
  <2> QED
    BY <1>1, <2>3, <2>4
<1>3. \A i, j \in X : i # j => f[i] # f[j]
  <2>1. ASSUME NEW i \in X, NEW j \in X, i # j PROVE Cardinality(B[i]) # Cardinality(B[j])
    <3>1. i \in B[j] \/ j \in B[i]
      BY <2>1 DEF ComesBefore
    <3>2. Cardinality(B[i]) < Cardinality(B[j]) \/ Cardinality(B[j]) < Cardinality(B[i])
      BY <3>1, RankIsMonotone
    <3> QED
      BY <1>1, <1>2, <3>2
  <2> QED
    BY <2>1
<1>4. f \in Injection(X, R)
  BY <1>2, <1>3 DEF Injection, IsInjective
<1>5. IsFiniteSet(R) /\ Cardinality(R) = n
  <2> HIDE DEF n
  <2>1. 0 \in Int /\ n - 1 \in Int
    BY <1>1
  <2>2. IsFiniteSet(R) /\ Cardinality(R) = IF 0 > n - 1 THEN 0 ELSE n - 1 - 0 + 1
    BY <2>1, FS_Interval
  <2> QED
    BY <1>1, <2>2
<1>6. f \in Surjection(X, R)
  <2> HIDE DEF f, R
  <2> QED
    BY <1>4, <1>5, FS_Injection
<1>7. k - 1 \in R
  BY <1>1
<1>8. PICK i \in X : f[i] = k - 1
  <2> HIDE DEF f, R
  <2> QED
    BY <1>6, <1>7 DEF Surjection
<1> QED
  BY <1>8

\* A smaller rank comes before a greater one.
LEMMA RanksCompare ==
  ASSUME NEW X, IsFiniteSet(X), NEW B, ComesBefore(X, B), NEW i \in X, NEW j \in X,
         Cardinality(B[i]) < Cardinality(B[j])
  PROVE  i \in B[j]
<1>1. SUFFICES ASSUME i \notin B[j] PROVE FALSE
  OBVIOUS
<1>2. B[i] \subseteq X /\ B[j] \subseteq X
  BY DEF ComesBefore
<1>3. Cardinality(B[i]) \in Nat /\ Cardinality(B[j]) \in Nat
  BY <1>2, FS_Subset, FS_CardinalityType
<1>4. i # j
  BY <1>3
<1>5. j \in B[i]
  BY <1>1, <1>4 DEF ComesBefore
<1> QED
  BY <1>3, <1>5, RankIsMonotone

-----------------------------------------------------------------------------
(* InOrder *)

\* The elements of ids, each once, the lowest first.
AscendingIn(ids, seq) ==
  /\ seq \in [1 .. Cardinality(ids) -> ids]
  /\ \A j, k \in 1 .. Cardinality(ids) : j < k => seq[j] < seq[k]

Below(ids) == [i \in ids |-> {j \in ids : j < i}]

LEMMA BelowComesBefore ==
  ASSUME NEW ids \in SUBSET Int
  PROVE  ComesBefore(ids, Below(ids))
<1>1. Below(ids) \in [ids -> SUBSET ids]
  BY DEF Below
<1>2. \A i, j \in ids : i \in Below(ids)[j] <=> i < j
  BY DEF Below
<1>3. \A i, j \in ids : i \in Below(ids)[j] => Below(ids)[i] \subseteq Below(ids)[j]
  <2> SUFFICES ASSUME NEW i \in ids, NEW j \in ids, i < j, NEW x \in Below(ids)[i]
               PROVE  x \in Below(ids)[j]
    BY <1>2
  <2>1. x \in ids /\ x < i
    BY DEF Below
  <2> QED
    BY <1>2, <2>1
<1> QED
  BY <1>1, <1>2, <1>3 DEF ComesBefore

LEMMA InOrderIsOrdered ==
  ASSUME NEW ids \in SUBSET Int, IsFiniteSet(ids)
  PROVE  AscendingIn(ids, InOrder(ids))
<1> DEFINE n == Cardinality(ids)
           B == Below(ids)
           at(k) == CHOOSE i \in ids : Cardinality({j \in ids : j < i}) = k - 1
<1>1. ComesBefore(ids, B)
  BY BelowComesBefore
<1>2. \A i \in ids : B[i] = {j \in ids : j < i}
  BY DEF Below
<1>3. ASSUME NEW k \in 1 .. n PROVE at(k) \in ids /\ Cardinality(B[at(k)]) = k - 1
  <2> HIDE DEF B
  <2>1. \E i \in ids : Cardinality({j \in ids : j < i}) = k - 1
    <3>1. PICK i \in ids : Cardinality(B[i]) = k - 1
      BY <1>1, RanksAreTaken
    <3> QED
      BY <1>2, <3>1
  <2> QED
    BY <1>2, <2>1
<1>4. InOrder(ids) = [k \in 1 .. n |-> at(k)]
  BY DEF InOrder
<1> HIDE DEF at
<1>5. ASSUME NEW j \in 1 .. n, NEW k \in 1 .. n, j < k PROVE at(j) < at(k)
  <2>1. n \in Nat
    BY FS_CardinalityType
  <2>2. at(j) \in ids /\ at(k) \in ids /\ Cardinality(B[at(j)]) < Cardinality(B[at(k)])
    BY <1>3, <1>5, <2>1
  <2> HIDE DEF B
  <2>3. at(j) \in B[at(k)]
    BY <1>1, <2>2, RanksCompare
  <2> QED
    BY <1>2, <2>2, <2>3
<1> QED
  BY <1>3, <1>4, <1>5 DEF AscendingIn

\* The sequence has every element.
LEMMA OrderedHasAll ==
  ASSUME NEW ids \in SUBSET Int, IsFiniteSet(ids), NEW seq, AscendingIn(ids, seq)
  PROVE  \A i \in ids : \E k \in 1 .. Cardinality(ids) : seq[k] = i
<1> DEFINE n == Cardinality(ids)
<1>1. n \in Nat
  BY FS_CardinalityType
<1>2. IsFiniteSet(1 .. n) /\ Cardinality(1 .. n) = n
  BY <1>1, FS_Interval
<1>3. \A j, k \in 1 .. n : j # k => seq[j] # seq[k]
  <2>1. ASSUME NEW j \in 1 .. n, NEW k \in 1 .. n, j # k PROVE seq[j] # seq[k]
    <3>1. j < k \/ k < j
      BY <1>1, <2>1
    <3>2. seq[j] \in Int /\ seq[k] \in Int
      BY DEF AscendingIn
    <3> QED
      BY <3>1, <3>2 DEF AscendingIn
  <2> QED
    BY <2>1
<1>4. seq \in Injection(1 .. n, ids)
  BY <1>3 DEF AscendingIn, Injection, IsInjective
<1>5. seq \in Surjection(1 .. n, ids)
  <2> HIDE DEF n
  <2>1. Cardinality(1 .. n) = Cardinality(ids)
    BY <1>2 DEF n
  <2> QED
    BY <1>4, <2>1, FS_Injection
<1> QED
  BY <1>5 DEF Surjection

\* There is only one such sequence.
LEMMA OneOrder ==
  ASSUME NEW ids \in SUBSET Int, IsFiniteSet(ids),
         NEW s, AscendingIn(ids, s), NEW t, AscendingIn(ids, t)
  PROVE  s = t
<1> DEFINE n == Cardinality(ids)
           D == {k \in 1 .. n : s[k] # t[k]}
<1>1. n \in Nat
  BY FS_CardinalityType
<1>2. s \in [1 .. n -> ids] /\ t \in [1 .. n -> ids]
  BY DEF AscendingIn
<1>3. \A j, k \in 1 .. n : j < k => s[j] < s[k] /\ t[j] < t[k]
  BY DEF AscendingIn
<1>4. ASSUME NEW k \in 1 .. n
      PROVE  (\E a \in 1 .. n : s[a] = t[k]) /\ (\E b \in 1 .. n : t[b] = s[k])
  <2>1. s[k] \in ids /\ t[k] \in ids
    BY <1>2
  <2>2. \A i \in ids : \E a \in 1 .. n : s[a] = i
    BY OrderedHasAll
  <2>3. \A i \in ids : \E b \in 1 .. n : t[b] = i
    BY OrderedHasAll
  <2> QED
    BY <2>1, <2>2, <2>3
<1> HIDE DEF n
<1>5. SUFFICES ASSUME D # {} PROVE FALSE
  <2>1. ASSUME D = {} PROVE s = t
    <3>1. \A k \in 1 .. n : s[k] = t[k]
      BY <2>1
    <3>2. s = [k \in 1 .. n |-> s[k]] /\ t = [k \in 1 .. n |-> t[k]]
      BY <1>2
    <3> QED
      BY <3>1, <3>2
  <2> QED
    BY <2>1
<1>6. PICK k \in D : \A m \in D : k <= m
  <2>1. D \subseteq Int
    OBVIOUS
  <2>2. \A x \in D : 1 <= x
    BY <1>1
  <2>3. 1 \in Int
    OBVIOUS
  <2> HIDE DEF D
  <2> QED
    BY <1>5, <2>1, <2>2, <2>3, LeastOf
<1>7. k \in 1 .. n /\ s[k] # t[k]
  OBVIOUS
<1>8. \A m \in 1 .. n : m < k => s[m] = t[m]
  BY <1>1, <1>6
<1> HIDE DEF D
<1>9. \A m \in 1 .. n : s[m] \in Int /\ t[m] \in Int
  BY <1>2
<1>10. PICK a \in 1 .. n : s[a] = t[k]
  BY <1>4, <1>7
<1>11. PICK b \in 1 .. n : t[b] = s[k]
  BY <1>4, <1>7
<1>12. a # k /\ b # k
  BY <1>7, <1>10, <1>11
<1>13. CASE a < k
  <2>1. t[a] = t[k] /\ t[a] < t[k]
    BY <1>3, <1>7, <1>8, <1>10, <1>13
  <2> QED
    BY <1>7, <1>9, <2>1
<1>14. CASE b < k
  <2>1. s[b] = s[k] /\ s[b] < s[k]
    BY <1>3, <1>7, <1>8, <1>11, <1>14
  <2> QED
    BY <1>7, <1>9, <2>1
<1>15. CASE k < a /\ k < b
  <2>1. s[k] < t[k] /\ t[k] < s[k]
    BY <1>3, <1>7, <1>10, <1>11, <1>15
  <2> QED
    BY <1>7, <1>9, <2>1
<1> QED
  BY <1>1, <1>7, <1>12, <1>13, <1>14, <1>15

\* The order of a set is that of its lower part, and then that of its upper part.
LEMMA OrderJoins ==
  ASSUME NEW low \in SUBSET Int, IsFiniteSet(low), NEW high \in SUBSET Int,
         IsFiniteSet(high), \A i \in low, j \in high : i < j
  PROVE  InOrder(low \cup high) = InOrder(low) \o InOrder(high)
<1> DEFINE a == Cardinality(low)
           b == Cardinality(high)
           s == InOrder(low)
           t == InOrder(high)
           both == low \cup high
<1>1. a \in Nat /\ b \in Nat
  BY FS_CardinalityType
<1>2. IsFiniteSet(both) /\ Cardinality(both) = a + b
  <2>1. low \cap high = {}
    <3> SUFFICES ASSUME NEW x \in low, x \in high PROVE FALSE
      OBVIOUS
    <3>1. x < x /\ x \in Int
      OBVIOUS
    <3> QED
      BY <3>1
  <2>2. Cardinality(low \cap high) = 0
    BY <2>1, FS_EmptySet
  <2> QED
    BY <1>1, <2>2, FS_Union
<1>3. AscendingIn(low, s) /\ AscendingIn(high, t) /\ AscendingIn(both, InOrder(both))
  BY <1>2, InOrderIsOrdered
<1>4. s \in Seq(low) /\ t \in Seq(high) /\ Len(s) = a /\ Len(t) = b
  BY <1>1, <1>3 DEF AscendingIn
<1> HIDE DEF s, t
<1>5. /\ s \o t \in Seq(both) /\ Len(s \o t) = a + b
      /\ \A k \in 1 .. a + b : (s \o t)[k] = IF k <= a THEN s[k] ELSE t[k - a]
  BY <1>1, <1>4
<1>6. ASSUME NEW j \in 1 .. a + b, NEW k \in 1 .. a + b, j < k PROVE (s \o t)[j] < (s \o t)[k]
  <2>1. CASE k <= a
    <3>1. j \in 1 .. a /\ k \in 1 .. a
      BY <1>1, <1>6, <2>1
    <3>2. (s \o t)[j] = s[j] /\ (s \o t)[k] = s[k]
      BY <1>5, <3>1
    <3>3. s[j] < s[k]
      BY <1>3, <1>6, <3>1 DEF AscendingIn
    <3> QED
      BY <3>2, <3>3
  <2>2. CASE j > a
    <3>1. j - a \in 1 .. b /\ k - a \in 1 .. b /\ j - a < k - a /\ ~(j <= a) /\ ~(k <= a)
      BY <1>1, <1>6, <2>2
    <3>2. (s \o t)[j] = t[j - a] /\ (s \o t)[k] = t[k - a]
      BY <1>5, <3>1
    <3>3. t[j - a] < t[k - a]
      BY <1>3, <3>1 DEF AscendingIn
    <3> QED
      BY <3>2, <3>3
  <2>3. CASE j <= a /\ a < k
    <3>1. j \in 1 .. a /\ k - a \in 1 .. b /\ ~(k <= a)
      BY <1>1, <2>3
    <3>2. s[j] \in low /\ t[k - a] \in high
      BY <1>3, <3>1 DEF AscendingIn
    <3>3. (s \o t)[j] = s[j] /\ (s \o t)[k] = t[k - a]
      BY <1>1, <1>5, <2>3, <3>1
    <3> QED
      BY <3>2, <3>3
  <2>4. k <= a \/ j > a \/ (j <= a /\ a < k)
    <3> HIDE DEF a, b
    <3> QED
      BY <1>1
  <2> QED
    BY <2>1, <2>2, <2>3, <2>4
<1>7. AscendingIn(both, s \o t)
  <2>1. s \o t \in [1 .. a + b -> both]
    <3> DEFINE c == a + b
    <3>1. s \o t \in Seq(both) /\ Len(s \o t) = c
      BY <1>5
    <3> HIDE DEF both, c
    <3>2. s \o t \in [1 .. c -> both]
      BY <3>1, LenProperties
    <3> QED
      BY <3>2 DEF c
  <2> HIDE DEF both
  <2> QED
    BY <1>2, <1>6, <2>1 DEF AscendingIn
<1>8. both \subseteq Int
  OBVIOUS
<1>9. InOrder(both) = s \o t
  <2> HIDE DEF both
  <2> QED
    BY <1>2, <1>3, <1>7, <1>8, OneOrder
<1> QED
  BY <1>9 DEF s, t

\* A run of numbers in order.
LEMMA OrderOfRun ==
  ASSUME NEW a \in Int, NEW b \in Int
  PROVE  InOrder(a .. b) = [k \in 1 .. b - a + 1 |-> a + k - 1]
<1> DEFINE n == Cardinality(a .. b)
           s == [k \in 1 .. b - a + 1 |-> a + k - 1]
<1>1. IsFiniteSet(a .. b) /\ n = IF a > b THEN 0 ELSE b - a + 1
  BY FS_Interval
<1>2. 1 .. n = 1 .. b - a + 1
  <2> HIDE DEF n
  <2> QED
    BY <1>1
<1>3. AscendingIn(a .. b, s)
  <2>1. s \in [1 .. b - a + 1 -> a .. b]
    OBVIOUS
  <2>2. \A j, k \in 1 .. b - a + 1 : j < k => s[j] < s[k]
    OBVIOUS
  <2> HIDE DEF s
  <2> QED
    BY <1>2, <2>1, <2>2 DEF AscendingIn
<1>4. AscendingIn(a .. b, InOrder(a .. b))
  BY <1>1, InOrderIsOrdered
<1> HIDE DEF s
<1> QED
  BY <1>1, <1>3, <1>4, OneOrder DEF s

-----------------------------------------------------------------------------
(* Sorted *)

Earlier(seq) ==
  [i \in DOMAIN seq |-> {j \in DOMAIN seq : seq[j] < seq[i] \/ (seq[j] = seq[i] /\ j < i)}]

LEMMA EarlierComesBefore ==
  ASSUME NEW seq \in Seq(Int)
  PROVE  ComesBefore(DOMAIN seq, Earlier(seq))
<1> DEFINE X == DOMAIN seq
           B == Earlier(seq)
<1>1. \A i \in X : i \in Int /\ seq[i] \in Int
  BY LenProperties, ElementOfSeq
<1>2. B \in [X -> SUBSET X]
  BY DEF Earlier
<1>3. \A i, j \in X : i \in B[j] <=> (seq[i] < seq[j] \/ (seq[i] = seq[j] /\ i < j))
  BY DEF Earlier
<1> HIDE DEF X, B
<1>4. \A i, j \in X : i \in B[j] => B[i] \subseteq B[j]
  <2> SUFFICES ASSUME NEW i \in X, NEW j \in X, i \in B[j], NEW x \in B[i] PROVE x \in B[j]
    OBVIOUS
  <2>1. x \in X
    BY <1>2
  <2> QED
    BY <1>1, <1>3, <2>1
<1>5. \A i \in X : i \notin B[i]
  BY <1>1, <1>3
<1>6. \A i, j \in X : i # j => i \in B[j] \/ j \in B[i]
  BY <1>1, <1>3
<1> QED
  BY <1>2, <1>4, <1>5, <1>6 DEF ComesBefore, X, B

\* Sorting is a permutation of the indices, the lower values and indices first.
LEMMA SortedIs ==
  ASSUME NEW seq \in Seq(Int)
  PROVE  \E p \in [1 .. Len(seq) -> 1 .. Len(seq)] :
           /\ Sorted[seq] = [k \in 1 .. Len(seq) |-> seq[p[k]]]
           /\ \A j, k \in 1 .. Len(seq) :
                j < k => seq[p[j]] < seq[p[k]] \/ (seq[p[j]] = seq[p[k]] /\ p[j] < p[k])
           /\ \A i \in 1 .. Len(seq) : \E k \in 1 .. Len(seq) : p[k] = i
<1> DEFINE n == Len(seq)
           X == DOMAIN seq
           B == Earlier(seq)
           Before(i) == {j \in DOMAIN seq : seq[j] < seq[i] \/ (seq[j] = seq[i] /\ j < i)}
           at(k) == CHOOSE i \in DOMAIN seq : Cardinality(Before(i)) = k - 1
           p == [k \in 1 .. n |-> at(k)]
<1>1. n \in Nat /\ X = 1 .. n
  BY LenProperties
<1>2. IsFiniteSet(X) /\ Cardinality(X) = n
  BY <1>1, FS_Interval
<1>3. Sorted[seq] = [k \in DOMAIN seq |-> seq[at(k)]]
  BY DEF Sorted
<1>4. ComesBefore(X, B) /\ \A i \in X : B[i] = Before(i)
  BY EarlierComesBefore DEF Earlier
<1>5. ASSUME NEW k \in 1 .. n PROVE at(k) \in X /\ Cardinality(B[at(k)]) = k - 1
  <2> HIDE DEF B, X, n, Before
  <2>1. PICK i \in X : Cardinality(B[i]) = k - 1
    BY <1>2, <1>4, RanksAreTaken
  <2>2. \E j \in DOMAIN seq : Cardinality(Before(j)) = k - 1
    BY <1>4, <2>1 DEF X
  <2> QED
    BY <1>4, <2>2 DEF X
<1> HIDE DEF at, Before
<1>6. p \in [1 .. n -> 1 .. n]
  BY <1>1, <1>5
<1>7. Sorted[seq] = [k \in 1 .. n |-> seq[p[k]]]
  BY <1>1, <1>3
<1>8. ASSUME NEW j \in 1 .. n, NEW k \in 1 .. n, j < k
      PROVE  seq[p[j]] < seq[p[k]] \/ (seq[p[j]] = seq[p[k]] /\ p[j] < p[k])
  <2>1. /\ at(j) \in X /\ at(k) \in X /\ Cardinality(B[at(j)]) < Cardinality(B[at(k)])
    BY <1>1, <1>5, <1>8
  <2>2. at(j) \in B[at(k)]
    <3> HIDE DEF B, X
    <3> QED
      BY <1>2, <1>4, <2>1, RanksCompare
  <2> QED
    BY <2>1, <2>2 DEF Earlier
<1>9. ASSUME NEW i \in 1 .. n PROVE \E k \in 1 .. n : p[k] = i
  <2> DEFINE c == Cardinality(B[i])
  <2>1. B[i] \subseteq X \ {i}
    BY <1>1, <1>4 DEF ComesBefore
  <2>2. IsFiniteSet(X \ {i}) /\ Cardinality(X \ {i}) = n - 1
    BY <1>1, <1>2, FS_RemoveElement
  <2>3. c \in Nat /\ c <= n - 1
    <3>1. IsFiniteSet(B[i]) /\ Cardinality(B[i]) <= n - 1
      BY <2>1, <2>2, FS_Subset
    <3> QED
      BY <3>1, FS_CardinalityType
  <2> HIDE DEF c
  <2>4. c + 1 \in 1 .. n
    BY <1>1, <2>3
  <2>5. at(c + 1) \in X /\ Cardinality(B[at(c + 1)]) = c
    BY <1>5, <2>3, <2>4
  <2>6. at(c + 1) = i
    <3>1. SUFFICES ASSUME at(c + 1) # i PROVE FALSE
      OBVIOUS
    <3>2. at(c + 1) \in B[i] \/ i \in B[at(c + 1)]
      BY <1>1, <1>4, <2>5, <3>1 DEF ComesBefore
    <3>3. Cardinality(B[at(c + 1)]) < Cardinality(B[i]) \/ Cardinality(B[i]) < Cardinality(B[at(c + 1)])
      <4> HIDE DEF B, X
      <4>1. i \in X
        BY <1>1
      <4> QED
        BY <1>2, <1>4, <2>5, <3>2, <4>1, RankIsMonotone
    <3> QED
      BY <2>3, <2>5, <3>3 DEF c
  <2> QED
    BY <2>4, <2>6
<1> QED
  BY <1>6, <1>7, <1>8, <1>9

\* What is in order stays as it is.
LEMMA SortedOfAscending ==
  ASSUME NEW seq \in Seq(Int), \A j, k \in DOMAIN seq : j < k => seq[j] < seq[k]
  PROVE  Sorted[seq] = seq
<1> DEFINE n == Len(seq)
           Before(i) == {j \in DOMAIN seq : seq[j] < seq[i] \/ (seq[j] = seq[i] /\ j < i)}
           s == [k \in DOMAIN seq |-> seq[CHOOSE i \in DOMAIN seq : Cardinality(Before(i)) = k - 1]]
<1>1. Sorted[seq] = s
  BY DEF Sorted
<1>2. n \in Nat /\ DOMAIN seq = 1 .. n /\ \A k \in 1 .. n : seq[k] \in Int
  BY LenProperties, ElementOfSeq
<1>3. ASSUME NEW i \in 1 .. n PROVE Cardinality(Before(i)) = i - 1
  <2>1. ASSUME NEW j \in 1 .. n PROVE (seq[j] < seq[i] \/ (seq[j] = seq[i] /\ j < i)) <=> j < i
    <3>1. j < i => seq[j] < seq[i]
      BY <1>2
    <3>2. i < j => seq[i] < seq[j]
      BY <1>2
    <3> QED
      BY <1>2, <3>1, <3>2
  <2>2. Before(i) = 1 .. i - 1
    BY <1>2, <2>1
  <2>3. Cardinality(1 .. i - 1) = i - 1
    BY <1>2, FS_Interval
  <2> HIDE DEF Before
  <2> QED
    BY <2>2, <2>3
<1> HIDE DEF Before
<1>4. ASSUME NEW k \in 1 .. n PROVE s[k] = seq[k]
  <2>1. \A i \in 1 .. n : Cardinality(Before(i)) = k - 1 => i = k
    BY <1>2, <1>3
  <2>2. (CHOOSE i \in DOMAIN seq : Cardinality(Before(i)) = k - 1) = k
    BY <1>2, <1>3, <2>1
  <2> QED
    BY <1>2, <2>2
<1>5. seq = [k \in 1 .. n |-> seq[k]]
  BY <1>2, LenProperties
<1> QED
  BY <1>1, <1>2, <1>4, <1>5

-----------------------------------------------------------------------------
(* Looped *)

LEMMA MaxIsMember ==
  ASSUME NEW s \in SUBSET Int, IsFiniteSet(s), s # {}
  PROVE  Max(s) \in s /\ \A x \in s : x <= Max(s)
<1> DEFINE m == CHOOSE x \in s : \A y \in s : x >= y
<1>1. PICK x \in s : \A y \in s : x >= y
  <2> DEFINE n == Cardinality(s)
             seq == InOrder(s)
  <2>1. n \in Nat /\ n # 0
    BY FS_CardinalityType, FS_EmptySet
  <2>2. AscendingIn(s, seq)
    BY InOrderIsOrdered
  <2>3. \A i \in s : \E k \in 1 .. n : seq[k] = i
    BY <2>2, OrderedHasAll
  <2>4. seq[n] \in s
    BY <2>1, <2>2 DEF AscendingIn
  <2>5. ASSUME NEW y \in s PROVE seq[n] >= y
    <3>1. PICK k \in 1 .. n : seq[k] = y
      BY <2>3
    <3>2. k = n \/ seq[k] < seq[n]
      BY <2>1, <2>2 DEF AscendingIn
    <3>3. seq[n] \in Int /\ y \in Int
      BY <2>4
    <3> HIDE DEF seq, n
    <3> QED
      BY <3>1, <3>2, <3>3
  <2> QED
    BY <2>4, <2>5
<1>2. m \in s /\ \A y \in s : m >= y
  BY <1>1
<1>3. Max(s) = m
  BY DEF Max
<1> HIDE DEF m
<1> QED
  BY <1>2, <1>3

\* The minimum of a finite set of integers is one of them.
LEMMA MinIsLeast ==
  ASSUME NEW s \in SUBSET Int, IsFiniteSet(s), s # {}
  PROVE  Min(s) \in s /\ \A x \in s : Min(s) <= x
<1> DEFINE m == CHOOSE x \in s : \A y \in s : x <= y
<1>1. PICK x \in s : \A y \in s : x <= y
  <2> DEFINE n == Cardinality(s)
             seq == InOrder(s)
  <2>1. n \in Nat /\ n # 0
    BY FS_CardinalityType, FS_EmptySet
  <2>2. AscendingIn(s, seq)
    BY InOrderIsOrdered
  <2>3. \A i \in s : \E k \in 1 .. n : seq[k] = i
    BY <2>2, OrderedHasAll
  <2>4. seq[1] \in s
    BY <2>1, <2>2 DEF AscendingIn
  <2>5. ASSUME NEW y \in s PROVE seq[1] <= y
    <3>1. PICK k \in 1 .. n : seq[k] = y
      BY <2>3
    <3>2. k = 1 \/ seq[1] < seq[k]
      BY <2>1, <2>2 DEF AscendingIn
    <3>3. seq[1] \in Int /\ y \in Int
      BY <2>4
    <3> HIDE DEF seq, n
    <3> QED
      BY <3>1, <3>2, <3>3
  <2> QED
    BY <2>4, <2>5
<1>2. m \in s /\ \A y \in s : m <= y
  BY <1>1
<1>3. Min(s) = m
  BY DEF Min
<1> HIDE DEF m
<1> QED
  BY <1>2, <1>3

\* What a function takes on a finite set is finite.
LEMMA ImageIsFinite ==
  ASSUME NEW A, IsFiniteSet(A), NEW f
  PROVE  IsFiniteSet({f[x] : x \in A})
<1> DEFINE V == {f[x] : x \in A}
           g == [x \in A |-> f[x]]
<1>1. g \in Surjection(A, V)
  BY DEF Surjection
<1> HIDE DEF g, V
<1>2. IsFiniteSet(V)
  BY <1>1, FS_Surjection
<1> QED
  BY <1>2 DEF V

\* Among the largest values of f, one is at the least place.
LEMMA FirstOfLargest ==
  ASSUME NEW A \in SUBSET Int, IsFiniteSet(A), A # {}, NEW f, \A x \in A : f[x] \in Int
  PROVE  \E k \in A : \A j \in A : f[k] > f[j] \/ (f[k] = f[j] /\ k <= j)
<1> DEFINE V == {f[x] : x \in A}
           B == {x \in A : f[x] = Max(V)}
<1>1. V \in SUBSET Int /\ IsFiniteSet(V) /\ V # {}
  <2>1. V \in SUBSET Int /\ V # {}
    OBVIOUS
  <2>2. IsFiniteSet(V)
    BY ImageIsFinite
  <2> QED
    BY <2>1, <2>2
<1>2. Max(V) \in V /\ \A v \in V : v <= Max(V)
  BY <1>1, MaxIsMember
<1>3. B \in SUBSET Int /\ B # {} /\ IsFiniteSet(B)
  BY <1>2, FS_Subset
<1>4. Min(B) \in B /\ \A x \in B : Min(B) <= x
  BY <1>3, MinIsLeast
<1>5. PICK m \in Int : m = Max(V)
  BY <1>1, <1>2
<1>6. PICK k \in A : f[k] = m /\ \A x \in B : k <= x
  BY <1>4, <1>5
<1>7. \A j \in A : f[j] <= m /\ (f[j] = m => k <= j)
  BY <1>2, <1>5, <1>6
<1> HIDE DEF V, B
<1> QED
  BY <1>6, <1>7

\* What FoldLeft defines for a loop over seq: a function on the sets of indices.
LoopOf(g, step, value, seq, S) ==
  g = [s \in SUBSET S |-> IF s = {} THEN value ELSE step[g[s \ {Max(s)}]][seq[Max(s)]]]
LoopsAt(g, step, value, seq, s) ==
  g[s] = IF s = {} THEN value ELSE step[g[s \ {Max(s)}]][seq[Max(s)]]

\* The equation of a loop, at one set of indices.
LEMMA LoopAt ==
  ASSUME NEW g, NEW step, NEW value, NEW seq, NEW S, LoopOf(g, step, value, seq, S), NEW s \in SUBSET S
  PROVE  LoopsAt(g, step, value, seq, s)
<1> DEFINE h == [t \in SUBSET S |-> IF t = {} THEN value ELSE step[g[t \ {Max(t)}]][seq[Max(t)]]]
<1>1. g = h
  BY DEF LoopOf
<1>2. h[s] = IF s = {} THEN value ELSE step[g[s \ {Max(s)}]][seq[Max(s)]]
  OBVIOUS
<1> HIDE DEF h
<1> QED
  BY <1>1, <1>2 DEF LoopsAt

\* Two loops agree wherever both are defined.
LEMMA LoopsAgree ==
  ASSUME NEW S, NEW R, NEW s, \A x \in s : x \in Int, s \subseteq S, s \subseteq R, IsFiniteSet(s),
         NEW step, NEW value, NEW seq,
         NEW g, NEW h, LoopOf(g, step, value, seq, S), LoopOf(h, step, value, seq, R)
  PROVE  g[s] = h[s]
<1> DEFINE C == {t \in SUBSET s : g[t] # h[t]}
<1>1. SUFFICES ASSUME C # {} PROVE FALSE
  OBVIOUS
<1>2. PICK t \in C : \A u \in C : u \subseteq t => u = t
  <2> HIDE DEF C
  <2>1. C \in SUBSET SUBSET s
    BY DEF C
  <2> QED
    BY <1>1, <2>1, SmallestSubset
<1>3. t \in SUBSET S /\ t \in SUBSET R /\ t \subseteq s /\ g[t] # h[t]
  OBVIOUS
<1>4. /\ g[t] = IF t = {} THEN value ELSE step[g[t \ {Max(t)}]][seq[Max(t)]]
      /\ h[t] = IF t = {} THEN value ELSE step[h[t \ {Max(t)}]][seq[Max(t)]]
  <2> HIDE DEF C
  <2>1. LoopsAt(g, step, value, seq, t)
    BY <1>3, LoopAt
  <2>2. LoopsAt(h, step, value, seq, t)
    BY <1>3, LoopAt
  <2> QED
    BY <2>1, <2>2 DEF LoopsAt
<1>5. t # {}
  BY <1>3, <1>4
<1>6. Max(t) \in t
  BY <1>3, <1>5, FS_Subset, MaxIsMember
<1>7. t \ {Max(t)} \notin C
  BY <1>2, <1>6
<1>8. g[t \ {Max(t)}] = h[t \ {Max(t)}]
  BY <1>3, <1>7
<1> QED
  BY <1>3, <1>4, <1>8

\* A loop exists for every finite set of indices.
LEMMA LoopExists ==
  ASSUME NEW S, \A x \in S : x \in Int, IsFiniteSet(S), NEW step, NEW value, NEW seq
  PROVE  \E g : LoopOf(g, step, value, seq, S)
<1> DEFINE C == {t \in SUBSET S : ~ \E g : LoopOf(g, step, value, seq, t)}
<1>1. SUFFICES ASSUME C # {} PROVE FALSE
  BY DEF C
<1>2. PICK t \in C : \A u \in C : u \subseteq t => u = t
  <2>1. C \in SUBSET SUBSET S
    OBVIOUS
  <2> HIDE DEF C
  <2> QED
    BY <1>1, <2>1, SmallestSubset
<1>3. t \subseteq S /\ ~ \E g : LoopOf(g, step, value, seq, t)
  BY <1>2
<1>4. ASSUME NEW u \in SUBSET t, u # t PROVE \E g : LoopOf(g, step, value, seq, u)
  <2>1. u \notin C
    BY <1>2, <1>4
  <2> QED
    BY <1>3, <2>1
<1> HIDE DEF C
<1> DEFINE G(u) == (CHOOSE g : LoopOf(g, step, value, seq, u))[u]
           K(u) == IF u = {} THEN value ELSE step[G(u \ {Max(u)})][seq[Max(u)]]
           k == [u \in SUBSET t |-> K(u)]
<1>5. ASSUME NEW u \in SUBSET t, u # t PROVE G(u) = K(u)
  <2>1. PICK g : LoopOf(g, step, value, seq, u)
    BY <1>4, <1>5
  <2> DEFINE g0 == CHOOSE gg : LoopOf(gg, step, value, seq, u)
  <2>2. LoopOf(g0, step, value, seq, u)
    BY <2>1
  <2>3. G(u) = g0[u]
    OBVIOUS
  <2> HIDE DEF g0
  <2>4. g0[u] = IF u = {} THEN value ELSE step[g0[u \ {Max(u)}]][seq[Max(u)]]
    BY <2>2, LoopAt DEF LoopsAt
  <2>5. CASE u = {}
    BY <2>3, <2>4, <2>5
  <2>6. CASE u # {}
    <3> DEFINE v == u \ {Max(u)}
               g1 == CHOOSE gg : LoopOf(gg, step, value, seq, v)
    <3>1. Max(u) \in u
      BY <1>3, <2>6, FS_Subset, MaxIsMember
    <3>2. v \in SUBSET t /\ v # t /\ v \subseteq u
      BY <3>1
    <3>3. LoopOf(g1, step, value, seq, v)
      <4> HIDE DEF v
      <4>1. \E gg : LoopOf(gg, step, value, seq, v)
        BY <1>4, <3>2
      <4> QED
        BY <4>1
    <3>4. G(v) = g1[v]
      OBVIOUS
    <3>5. IsFiniteSet(v)
      BY <1>3, <3>2, FS_Subset
    <3> HIDE DEF v, g1
    <3>6. g0[v] = g1[v]
      <4>1. v \subseteq v /\ \A x \in v : x \in Int
        BY <1>3, <3>2
      <4> QED
        BY <2>2, <3>2, <3>3, <3>5, <4>1, LoopsAgree
    <3>7. K(u) = step[G(v)][seq[Max(u)]]
      BY <2>6 DEF v
    <3> QED
      BY <2>3, <2>4, <2>6, <3>4, <3>6, <3>7 DEF v
  <2> QED
    BY <2>5, <2>6
<1> HIDE DEF G
<1>6. ASSUME NEW u \in SUBSET t
      PROVE  K(u) = IF u = {} THEN value ELSE step[k[u \ {Max(u)}]][seq[Max(u)]]
  <2>1. CASE u = {}
    BY <2>1
  <2>2. CASE u # {}
    <3> DEFINE v == u \ {Max(u)}
    <3>1. Max(u) \in u
      BY <1>3, <2>2, FS_Subset, MaxIsMember
    <3>2. v \in SUBSET t /\ v # t
      BY <3>1
    <3>3. G(v) = K(v)
      <4> HIDE DEF v, K
      <4> QED
        BY <1>5, <3>2
    <3>4. k[v] = K(v)
      <4> HIDE DEF v, K
      <4> QED
        BY <3>2
    <3> QED
      BY <2>2, <3>3, <3>4
  <2> QED
    BY <2>1, <2>2
<1> HIDE DEF K
<1>7. k = [u \in SUBSET t |-> IF u = {} THEN value ELSE step[k[u \ {Max(u)}]][seq[Max(u)]]]
  <2> DEFINE R(u) == IF u = {} THEN value ELSE step[k[u \ {Max(u)}]][seq[Max(u)]]
  <2>1. \A u \in SUBSET t : K(u) = R(u)
    BY <1>6
  <2> HIDE DEF R
  <2>2. k = [u \in SUBSET t |-> R(u)]
    BY <2>1
  <2> QED
    BY <2>2 DEF R
<1> HIDE DEF k
<1> QED
  BY <1>3, <1>7 DEF LoopOf

\* What a loop computes, turn by turn.
LEMMA LoopRuns ==
  ASSUME NEW step, NEW value, NEW T, NEW seq \in Seq(T)
  PROVE  \E f : /\ f[0] = value
                /\ \A n \in 1 .. Len(seq) : f[n] = step[f[n - 1]][seq[n]]
                /\ Looped(step, value, seq) = f[Len(seq)]
<1> DEFINE g == CHOOSE h : LoopOf(h, step, value, seq, DOMAIN seq)
           f == [n \in 0 .. Len(seq) |-> g[1 .. n]]
<1>1. Looped(step, value, seq) = g[DOMAIN seq]
  BY DEF Looped, FoldLeft, MapThenFoldSet, LoopOf
<1>2. DOMAIN seq = 1 .. Len(seq) /\ Len(seq) \in Nat
  BY LenProperties
<1>3. LoopOf(g, step, value, seq, DOMAIN seq)
  <2>1. DOMAIN seq \in SUBSET Int /\ IsFiniteSet(DOMAIN seq)
    BY <1>2, FS_Interval
  <2>2. \E h : LoopOf(h, step, value, seq, DOMAIN seq)
    BY <2>1, LoopExists
  <2> QED
    BY <2>2
<1> HIDE DEF g
<1>4. f[0] = value
  <2>1. 1 .. 0 = {} /\ {} \in SUBSET DOMAIN seq
    OBVIOUS
  <2>2. g[{}] = value
    BY <1>3, <2>1, LoopAt DEF LoopsAt
  <2>3. f[0] = g[1 .. 0]
    BY <1>2
  <2> QED
    BY <2>1, <2>2, <2>3
<1>5. ASSUME NEW n \in 1 .. Len(seq) PROVE f[n] = step[f[n - 1]][seq[n]]
  <2>1. 1 .. n \in SUBSET DOMAIN seq /\ 1 .. n # {} /\ IsFiniteSet(1 .. n) /\ 1 .. n \in SUBSET Int
    <3>1. n \in Int /\ n \in 1 .. n /\ n <= Len(seq)
      BY <1>2
    <3>2. IsFiniteSet(1 .. n)
      BY <3>1, FS_Interval
    <3>3. \A x \in 1 .. n : x \in DOMAIN seq /\ x \in Int
      BY <1>2, <3>1
    <3> QED
      BY <3>1, <3>2, <3>3
  <2>2. Max(1 .. n) = n
    <3>1. Max(1 .. n) \in 1 .. n /\ \A x \in 1 .. n : x <= Max(1 .. n)
      BY <2>1, MaxIsMember
    <3>2. n \in 1 .. n
      BY <1>2
    <3> QED
      BY <3>1, <3>2
  <2>3. (1 .. n) \ {n} = 1 .. n - 1
    BY <1>2
  <2>4. LoopsAt(g, step, value, seq, 1 .. n)
    BY <1>3, <2>1, LoopAt
  <2>5. g[1 .. n] = step[g[1 .. n - 1]][seq[n]]
    BY <2>1, <2>2, <2>3, <2>4 DEF LoopsAt
  <2>6. f[n] = g[1 .. n] /\ f[n - 1] = g[1 .. n - 1]
    BY <1>2
  <2> HIDE DEF f
  <2> QED
    BY <2>5, <2>6
<1>6. g[DOMAIN seq] = f[Len(seq)]
  BY <1>2
<1> HIDE DEF f
<1> QED
  BY <1>1, <1>4, <1>5, <1>6

\* A loop stays within the values that its steps keep.
LEMMA LoopKeeps ==
  ASSUME NEW step, NEW value, NEW T, NEW seq \in Seq(T), NEW Good, value \in Good,
         \A v \in Good : \A n \in 1 .. Len(seq) : step[v][seq[n]] \in Good
  PROVE  Looped(step, value, seq) \in Good
<1>1. PICK f : /\ f[0] = value
               /\ \A n \in 1 .. Len(seq) : f[n] = step[f[n - 1]][seq[n]]
               /\ Looped(step, value, seq) = f[Len(seq)]
  BY LoopRuns
<1> DEFINE S == {n \in 0 .. Len(seq) : f[n] \in Good}
<1>2. Len(seq) \in Nat
  BY LenProperties
<1>3. 0 \in S
  BY <1>1, <1>2
<1>4. ASSUME NEW n \in 0 + 1 .. Len(seq), n - 1 \in S PROVE n \in S
  BY <1>1, <1>2, <1>4
<1>5. 0 .. Len(seq) \subseteq S
  <2>1. 0 \in Int /\ Len(seq) \in Int
    BY <1>2
  <2> HIDE DEF S
  <2> QED
    BY <1>3, <1>4, <2>1, UpTo
<1> QED
  BY <1>1, <1>2, <1>5

-----------------------------------------------------------------------------
(* More about sums *)

\* What holds of no element, and with each element that joins, holds of all.
LEMMA Joining ==
  ASSUME NEW S, IsFiniteSet(S), NEW P, {} \in P,
         \A t \in SUBSET S : \A x \in S \ t : t \in P => t \cup {x} \in P
  PROVE  S \in P
<1> DEFINE C == {t \in SUBSET S : t \notin P}
<1>1. SUFFICES ASSUME C # {} PROVE FALSE
  OBVIOUS
<1>2. PICK t \in C : \A u \in C : u \subseteq t => u = t
  <2>1. C \subseteq SUBSET S
    OBVIOUS
  <2> HIDE DEF C
  <2> QED
    BY <1>1, <2>1, SmallestSubset
<1>3. PICK x \in t : TRUE
  BY <1>2
<1>4. t \ {x} \notin C /\ t \ {x} \in SUBSET S
  BY <1>2
<1>5. (t \ {x}) \cup {x} \in P
  BY <1>2, <1>4
<1>6. (t \ {x}) \cup {x} = t
  OBVIOUS
<1> QED
  BY <1>2, <1>5, <1>6

\* One more element adds its number.
LEMMA SumJoins ==
  ASSUME NEW S, IsFiniteSet(S), NEW a, a \notin S, NEW f, \A x \in S \cup {a} : f[x] \in Int
  PROVE  SumOver(f, S \cup {a}) = SumOver(f, S) + f[a]
<1>1. IsFiniteSet(S \cup {a}) /\ (S \cup {a}) \ {a} = S
  BY FS_AddElement
<1>2. SumOver(f, S \cup {a}) = f[a] + SumOver(f, (S \cup {a}) \ {a})
  <2> DEFINE T == S \cup {a}
  <2>1. IsFiniteSet(T) /\ (\A x \in T : f[x] \in Int) /\ a \in T
    BY <1>1
  <2> HIDE DEF T
  <2>2. SumOver(f, T) = f[a] + SumOver(f, T \ {a})
    BY <2>1, SumWithout
  <2> QED
    BY <2>2 DEF T
<1>3. SumOver(f, S) \in Int /\ f[a] \in Int
  BY SumIsInteger
<1>4. SumOver(f, (S \cup {a}) \ {a}) = SumOver(f, S)
  BY <1>1, Zenon
<1> DEFINE both == SumOver(f, S \cup {a})
           rest == SumOver(f, (S \cup {a}) \ {a})
<1> HIDE DEF both, rest
<1>5. both = f[a] + rest /\ rest = SumOver(f, S)
  BY <1>2, <1>4 DEF both, rest
<1> QED
  BY <1>3, <1>5 DEF both

\* sum() is the sum.
LEMMA TotalIs ==
  ASSUME NEW S, IsFiniteSet(S), NEW f
  PROVE  Total(f, S) = SumOver(f, S)
BY DEF Total, MapThenSumSet, MapThenFoldSet, SumOver, FoldOf, Pick

\* The sum over two parts.
LEMMA SumOfParts ==
  ASSUME NEW S, IsFiniteSet(S), NEW T, IsFiniteSet(T), S \cap T = {},
         NEW f, \A x \in S \cup T : f[x] \in Int
  PROVE  SumOver(f, S \cup T) = SumOver(f, S) + SumOver(f, T)
<1> DEFINE P == {t \in SUBSET T : SumOver(f, S \cup t) = SumOver(f, S) + SumOver(f, t)}
<1>1. SumOver(f, S) \in Int
  BY SumIsInteger
<1>2. {} \in P
  <2>1. SumOver(f, {}) = 0 /\ S \cup {} = S
    BY SumOfNone
  <2> QED
    BY <1>1, <2>1
<1>3. ASSUME NEW t \in SUBSET T, NEW x \in T \ t, t \in P PROVE t \cup {x} \in P
  <2>1. IsFiniteSet(t) /\ IsFiniteSet(S \cup t)
    <3>1. IsFiniteSet(t)
      BY FS_Subset
    <3> QED
      BY <3>1, FS_Union
  <2>2. SumOver(f, t \cup {x}) = SumOver(f, t) + f[x]
    BY <2>1, SumJoins
  <2>3. SumOver(f, (S \cup t) \cup {x}) = SumOver(f, S \cup t) + f[x]
    <3> DEFINE U == S \cup t
    <3>1. IsFiniteSet(U) /\ x \notin U /\ \A y \in U \cup {x} : f[y] \in Int
      BY <2>1
    <3> HIDE DEF U
    <3>2. SumOver(f, U \cup {x}) = SumOver(f, U) + f[x]
      BY <3>1, SumJoins
    <3> QED
      BY <3>2 DEF U
  <2>4. (S \cup t) \cup {x} = S \cup (t \cup {x}) /\ f[x] \in Int /\ SumOver(f, t) \in Int
    BY <2>1, SumIsInteger
  <2>5. SumOver(f, S \cup t) = SumOver(f, S) + SumOver(f, t)
    BY <1>3
  <2>6. SumOver(f, (S \cup t) \cup {x}) = SumOver(f, S \cup (t \cup {x}))
    BY <2>4, Zenon
  <2>7. SumOver(f, S \cup (t \cup {x})) = SumOver(f, S) + SumOver(f, t \cup {x})
    BY <1>1, <2>2, <2>3, <2>4, <2>5, <2>6
  <2> QED
    BY <2>7
<1>4. T \in P
  <2> HIDE DEF P
  <2> QED
    BY <1>2, <1>3, Joining
<1> QED
  BY <1>4

\* Ones count.
LEMMA SumOfOnes ==
  ASSUME NEW S, IsFiniteSet(S), NEW f, \A x \in S : f[x] = 1
  PROVE  SumOver(f, S) = Cardinality(S)
<1> DEFINE P == {t \in SUBSET S : SumOver(f, t) = Cardinality(t)}
<1>1. {} \in P
  BY SumOfNone, FS_EmptySet
<1>2. ASSUME NEW t \in SUBSET S, NEW x \in S \ t, t \in P PROVE t \cup {x} \in P
  <2>1. IsFiniteSet(t) /\ \A y \in t \cup {x} : f[y] \in Int
    BY FS_Subset
  <2>2. SumOver(f, t \cup {x}) = SumOver(f, t) + f[x]
    BY <2>1, SumJoins
  <2>3. Cardinality(t \cup {x}) = Cardinality(t) + 1
    BY <2>1, FS_AddElement
  <2> QED
    BY <1>2, <2>2, <2>3
<1> HIDE DEF P
<1>3. S \in P
  BY <1>1, <1>2, Joining
<1> QED
  BY <1>3 DEF P

\* Every number in the sum is at most m, or at least m.
LEMMA SumAtMost ==
  ASSUME NEW S, IsFiniteSet(S), NEW f, \A x \in S : f[x] \in Int, NEW m \in Int
  PROVE  /\ (\A x \in S : f[x] <= m) => SumOver(f, S) <= Cardinality(S) * m
         /\ (\A x \in S : m <= f[x]) => Cardinality(S) * m <= SumOver(f, S)
<1> DEFINE P == {t \in SUBSET S :
                   /\ (\A x \in t : f[x] <= m) => SumOver(f, t) <= Cardinality(t) * m
                   /\ (\A x \in t : m <= f[x]) => Cardinality(t) * m <= SumOver(f, t)}
<1>1. {} \in P
  <2>1. SumOver(f, {}) = 0 /\ Cardinality({}) * m = 0
    BY SumOfNone, FS_EmptySet
  <2> QED
    BY <2>1
<1>2. ASSUME NEW t \in SUBSET S, NEW x \in S \ t, t \in P PROVE t \cup {x} \in P
  <2>1. IsFiniteSet(t) /\ f[x] \in Int /\ \A y \in t \cup {x} : f[y] \in Int
    BY FS_Subset
  <2>2. SumOver(f, t \cup {x}) = SumOver(f, t) + f[x] /\ SumOver(f, t) \in Int
    BY <2>1, SumJoins, SumIsInteger
  <2>3. Cardinality(t \cup {x}) = Cardinality(t) + 1 /\ Cardinality(t) \in Nat
    BY <2>1, FS_AddElement, FS_CardinalityType
  <2>4. Cardinality(t \cup {x}) * m = Cardinality(t) * m + m /\ Cardinality(t) * m \in Int
    BY <2>3
  <2> DEFINE u == t \cup {x}
             su == SumOver(f, u)
             st == SumOver(f, t)
             cu == Cardinality(u) * m
             ct == Cardinality(t) * m
  <2>5. /\ (\A y \in t : f[y] <= m) => st <= ct
        /\ (\A y \in t : m <= f[y]) => ct <= st
    BY <1>2
  <2>6. su = st + f[x] /\ st \in Int /\ cu = ct + m /\ ct \in Int
    BY <2>2, <2>4
  <2> HIDE DEF su, st, cu, ct
  <2>7. /\ (\A y \in u : f[y] <= m) => su <= cu
        /\ (\A y \in u : m <= f[y]) => cu <= su
    BY <2>1, <2>5, <2>6
  <2> QED
    BY <2>7 DEF su, cu
<1> HIDE DEF P
<1>3. S \in P
  BY <1>1, <1>2, Joining
<1> QED
  BY <1>3 DEF P

(* The members of S whose key is k. *)
OfKey(S, key, k) == {x \in S : key[x] = k}

\* Sorting numbers by a key and adding up each heap adds them all up.
LEMMA SumByKey ==
  ASSUME NEW S, IsFiniteSet(S), NEW f, \A x \in S : f[x] \in Int,
         NEW K, IsFiniteSet(K), NEW key, \A x \in S : key[x] \in K,
         NEW g, \A k \in K : g[k] = SumOver(f, OfKey(S, key, k))
  PROVE  SumOver(g, K) = SumOver(f, S)
<1> USE DEF OfKey
<1> DEFINE P == {t \in SUBSET K : SumOver(g, t) = SumOver(f, {x \in S : key[x] \in t})}
<1>1. {} \in P
  <2>1. {x \in S : key[x] \in {}} = {}
    OBVIOUS
  <2> QED
    BY <2>1, SumOfNone
<1>2. ASSUME NEW t \in SUBSET K, NEW k \in K \ t, t \in P PROVE t \cup {k} \in P
  <2> DEFINE mine == {x \in S : key[x] = k}
             others == {x \in S : key[x] \in t}
  <2>1. /\ IsFiniteSet(t) /\ IsFiniteSet(mine) /\ IsFiniteSet(others) /\ mine \cap others = {}
        /\ {x \in S : key[x] \in t \cup {k}} = others \cup mine
        /\ \A x \in mine \cup others : f[x] \in Int
    <3>1. IsFiniteSet(t)
      BY FS_Subset
    <3>2. IsFiniteSet(mine)
      BY FS_Subset
    <3>3. IsFiniteSet(others)
      BY FS_Subset
    <3> QED
      BY <3>1, <3>2, <3>3
  <2>2. \A j \in K : g[j] \in Int
    <3> TAKE j \in K
    <3> DEFINE H == {x \in S : key[x] = j}
    <3>1. IsFiniteSet(H) /\ \A x \in H : f[x] \in Int
      BY FS_Subset
    <3> HIDE DEF H
    <3>2. SumOver(f, H) \in Int
      BY <3>1, SumIsInteger
    <3> QED
      BY <3>2 DEF H
  <2>3. SumOver(g, t \cup {k}) = SumOver(g, t) + g[k]
    BY <2>1, <2>2, SumJoins
  <2>4. SumOver(f, others \cup mine) = SumOver(f, others) + SumOver(f, mine)
    <3> HIDE DEF mine, others
    <3> QED
      BY <2>1, SumOfParts
  <2>5. g[k] = SumOver(f, mine) /\ SumOver(g, t) = SumOver(f, others)
    BY <1>2
  <2>6. SumOver(f, {x \in S : key[x] \in t \cup {k}}) = SumOver(f, others \cup mine)
    BY <2>1
  <2> HIDE DEF mine, others
  <2> QED
    BY <2>3, <2>4, <2>5, <2>6
<1>3. K \in P
  <2> HIDE DEF P
  <2> QED
    BY <1>1, <1>2, Joining
<1>4. {x \in S : key[x] \in K} = S
  OBVIOUS
<1> QED
  BY <1>3, <1>4

\* One number more at the end of a list.
LEMMA SumOfAppended ==
  ASSUME NEW s \in Seq(Int), NEW x \in Int
  PROVE  SumOver(Append(s, x), DOMAIN Append(s, x)) = SumOver(s, DOMAIN s) + x
<1> DEFINE n == Len(s)
           t == Append(s, x)
<1>1. n \in Nat /\ DOMAIN s = 1 .. n /\ DOMAIN t = (1 .. n) \cup {n + 1} /\ n + 1 \notin 1 .. n
  OBVIOUS
<1>2. IsFiniteSet(1 .. n) /\ \A i \in 1 .. n : t[i] = s[i] /\ s[i] \in Int
  BY <1>1, FS_Interval
<1>3. t[n + 1] = x
  OBVIOUS
<1> HIDE DEF n, t
<1>4. SumOver(t, (1 .. n) \cup {n + 1}) = SumOver(t, 1 .. n) + t[n + 1]
  BY <1>1, <1>2, <1>3, SumJoins
<1>5. SumOver(t, 1 .. n) = SumOver(s, 1 .. n)
  BY <1>2, SumCongruence
<1> QED
  BY <1>1, <1>3, <1>4, <1>5 DEF t
-----------------------------------------------------------------------------
(* The figures about closed trades *)

\* Wins and losses are all trades, and the ledger ends with the sum of them.
LEMMA ReportIs ==
  ASSUME NEW starting \in Int, NEW trades \in Seq(Int)
  PROVE  LET report == Performance(starting, trades)
             total == SumOver(trades, DOMAIN trades)
         IN /\ total \in Int /\ report.totalPnl = total
            /\ report.grossProfit \in Int /\ report.grossLoss \in Int
            /\ report.grossProfit - report.grossLoss = report.totalPnl
            /\ report.trades = Len(trades) /\ report.wins + report.losses = report.trades
            /\ report.maxDrawdown = MaxDrawdown(EquityCurve(starting, trades))
            /\ trades # << >> => MoneyLedger(starting, trades)[Len(trades)].after = starting + total
<1> DEFINE n == Len(trades)
           D == DOMAIN trades
           wins == {i \in D : trades[i] > 0}
           losses == {i \in D : trades[i] <= 0}
           report == Performance(starting, trades)
<1>1. n \in Nat /\ D = 1 .. n /\ \A i \in D : trades[i] \in Int
  OBVIOUS
<1>2. IsFiniteSet(D) /\ Cardinality(D) = n
  <2>1. IsFiniteSet(1 .. n) /\ Cardinality(1 .. n) = n
    BY <1>1, FS_Interval
  <2> QED
    BY <1>1, <2>1
<1>3. IsFiniteSet(wins) /\ IsFiniteSet(losses) /\ wins \cap losses = {} /\ wins \cup losses = D
  <2>1. IsFiniteSet(wins)
    BY <1>2, FS_Subset
  <2>2. IsFiniteSet(losses)
    BY <1>2, FS_Subset
  <2>3. \A i \in D : trades[i] > 0 <=> ~(trades[i] <= 0)
    BY <1>1
  <2> QED
    BY <2>1, <2>2, <2>3
<1>4. /\ report.totalPnl = Total(trades, D) /\ report.trades = n
      /\ report.grossProfit = Total(trades, wins) /\ report.grossLoss = -Total(trades, losses)
      /\ report.wins = Cardinality(wins) /\ report.losses = Cardinality(losses)
      /\ report.maxDrawdown = MaxDrawdown(EquityCurve(starting, trades))
  BY DEF Performance
<1> DEFINE total == SumOver(trades, D)
           sw == SumOver(trades, wins)
           sl == SumOver(trades, losses)
<1>5. total = sw + sl /\ total \in Int /\ sw \in Int /\ sl \in Int
  <2>1. \A i \in wins \cup losses : trades[i] \in Int
    BY <1>1
  <2> HIDE DEF wins, losses, D
  <2>2. SumOver(trades, wins \cup losses) = SumOver(trades, wins) + SumOver(trades, losses)
    BY <1>3, <2>1, SumOfParts
  <2> QED
    BY <1>1, <1>2, <1>3, <2>1, <2>2, SumIsInteger
<1>6. Total(trades, D) = total /\ Total(trades, wins) = sw /\ Total(trades, losses) = sl
  <2> HIDE DEF wins, losses, D
  <2> QED
    BY <1>2, <1>3, TotalIs
<1>7. Cardinality(wins) + Cardinality(losses) = n
  <2> HIDE DEF wins, losses, D
  <2>1. Cardinality(wins \cup losses) = Cardinality(wins) + Cardinality(losses) - Cardinality({})
    BY <1>3, FS_Union
  <2>2. Cardinality(wins) \in Nat /\ Cardinality(losses) \in Nat
    BY <1>3, FS_CardinalityType
  <2>3. Cardinality({}) = 0
    BY FS_EmptySet
  <2>4. Cardinality(wins \cup losses) = n
    BY <1>2, <1>3
  <2> QED
    BY <1>1, <2>1, <2>2, <2>3, <2>4
<1>8. ASSUME trades # << >> PROVE MoneyLedger(starting, trades)[n].after = starting + total
  <2>1. n \in D /\ n + 1 \in 1 .. n + 1 /\ 1 .. (n + 1) - 1 = D
    BY <1>1, <1>8
  <2>2. MoneyLedger(starting, trades)[n].after = EquityCurve(starting, trades)[n + 1]
    BY <2>1 DEF MoneyLedger
  <2>3. EquityCurve(starting, trades)[n + 1] = starting + Total(trades, 1 .. (n + 1) - 1)
    BY <2>1 DEF EquityCurve
  <2> QED
    BY <1>6, <2>1, <2>2, <2>3
<1> HIDE DEF total, sw, sl, report, n, wins, losses
<1>9. /\ report.totalPnl = total /\ report.grossProfit = sw /\ report.grossLoss = -sl
      /\ report.wins + report.losses = n
  BY <1>4, <1>6, <1>7
<1>10. report.grossProfit - report.grossLoss = report.totalPnl /\ report.grossLoss \in Int
  BY <1>5, <1>9
<1> QED
  BY <1>4, <1>5, <1>8, <1>9, <1>10 DEF total, report, n

\* The curve begins where the account begins and has one point for each trade.
LEMMA CurveIs ==
  ASSUME NEW starting \in Int, NEW trades \in Seq(Int)
  PROVE  /\ EquityCurve(starting, trades) \in Seq(Int)
         /\ Len(EquityCurve(starting, trades)) = Len(trades) + 1
<1> DEFINE n == Len(trades)
<1>1. n \in Nat /\ n + 1 \in Nat /\ \A i \in 1 .. n : trades[i] \in Int
  OBVIOUS
<1>2. ASSUME NEW i \in 1 .. n + 1 PROVE starting + Total(trades, 1 .. i - 1) \in Int
  <2>1. IsFiniteSet(1 .. i - 1) /\ \A j \in 1 .. i - 1 : trades[j] \in Int
    <3>1. IsFiniteSet(1 .. i - 1)
      BY FS_Interval
    <3> QED
      BY <1>1, <3>1
  <2> DEFINE S == 1 .. i - 1
  <2> HIDE DEF S
  <2>2. Total(trades, S) \in Int
    BY <2>1, TotalIs, SumIsInteger DEF S
  <2> QED
    BY <2>2 DEF S
<1> DEFINE P(i) == starting + Total(trades, 1 .. i - 1)
<1> HIDE DEF n, P
<1>3. EquityCurve(starting, trades) = [i \in 1 .. n + 1 |-> P(i)]
  BY DEF EquityCurve, n, P
<1>4. \A i \in 1 .. n + 1 : P(i) \in Int
  BY <1>2 DEF P
<1> QED
  BY <1>1, <1>3, <1>4 DEF n

\* What the pass over the curve has seen after its first n points.
SeenUpTo(curve, n, seen) ==
  /\ seen \in Drawdowns
  /\ \A p \in 1 .. n : curve[p] <= seen.peak
  /\ \E p \in 1 .. (IF n = 0 THEN 1 ELSE n) : seen.peak = curve[p]
  /\ \A p, q \in 1 .. n : p <= q => curve[p] - curve[q] <= seen.worst
  /\ seen.worst >= 0
  /\ seen.worst > 0 => \E p, q \in 1 .. n : p <= q /\ seen.worst = curve[p] - curve[q]

\* One pass finds the deepest of all falls.
LEMMA DrawdownIs ==
  ASSUME NEW curve \in Seq(Int), curve # << >>
  PROVE  /\ MaxDrawdown(curve) \in Drawdowns
         /\ SeenUpTo(curve, Len(curve), MaxDrawdown(curve))
<1> DEFINE n == Len(curve)
           first == [peak |-> Head(curve), worst |-> 0, base |-> 0]
<1>1. n \in Nat \ {0} /\ Head(curve) = curve[1] /\ \A i \in 1 .. n : curve[i] \in Int
  OBVIOUS
<1>2. PICK f : /\ f[0] = first
               /\ \A i \in 1 .. n : f[i] = Falls[f[i - 1]][curve[i]]
               /\ Looped(Falls, first, curve) = f[n]
  <2> HIDE DEF first
  <2> QED
    BY LoopRuns
<1> DEFINE S == {i \in 0 .. n : SeenUpTo(curve, i, f[i])}
<1>3. 0 \in S
  <2>1. f[0] \in Drawdowns /\ f[0].peak = curve[1] /\ f[0].worst = 0
    BY <1>1, <1>2 DEF Drawdowns
  <2> QED
    BY <1>1, <2>1 DEF SeenUpTo
<1>4. ASSUME NEW i \in 0 + 1 .. n, i - 1 \in S PROVE i \in S
  <2> DEFINE seen == f[i - 1]
             v == curve[i]
             peak == Higher(seen.peak, v)
             next == Deeper(seen, peak, peak - v)
  <2>1. i \in 1 .. n /\ i \in Nat \ {0} /\ i - 1 \in Nat /\ i - 1 \in 0 .. n /\ v \in Int
    BY <1>1
  <2>2. SeenUpTo(curve, i - 1, seen)
    BY <1>4
  <2>3. seen \in Drawdowns /\ seen.peak \in Int /\ seen.worst \in Int /\ seen.base \in Int
    BY <2>2 DEF SeenUpTo, Drawdowns
  <2>4. f[i] = next
    <3>1. f[i] = Falls[seen][v]
      BY <1>2, <2>1
    <3>2. Falls[seen][v] = Fall(seen, v)
      BY <2>1, <2>3 DEF Falls
    <3> QED
      BY <3>1, <3>2 DEF Fall
  <2>5. peak \in Int /\ peak >= seen.peak /\ peak >= v /\ (peak = seen.peak \/ peak = v)
    BY <2>1, <2>3 DEF Higher
  <2> HIDE DEF peak
  <2>6. /\ next \in Drawdowns /\ next.peak = peak /\ next.worst \in Int
        /\ next.worst >= seen.worst /\ next.worst >= peak - v
        /\ next.worst = seen.worst \/ next.worst = peak - v
    BY <2>1, <2>3, <2>5 DEF Deeper, Higher, Drawdowns
  <2>7. \A p \in 1 .. i : p \in 1 .. n /\ curve[p] \in Int /\ (p # i => p \in 1 .. i - 1)
    BY <1>1, <2>1
  <2>8. \A p \in 1 .. i : curve[p] <= peak
    <3> TAKE p \in 1 .. i
    <3>1. CASE p = i
      BY <2>5, <3>1
    <3>2. CASE p # i
      <4>1. curve[p] <= seen.peak /\ curve[p] \in Int
        BY <2>2, <2>7, <3>2 DEF SeenUpTo
      <4> QED
        BY <2>3, <2>5, <4>1
    <3> QED
      BY <3>1, <3>2
  <2>9. \E p \in 1 .. i : peak = curve[p]
    <3>1. CASE peak = v
      BY <2>1, <3>1
    <3>2. CASE peak = seen.peak
      <4>1. PICK p \in 1 .. (IF i - 1 = 0 THEN 1 ELSE i - 1) : seen.peak = curve[p]
        BY <2>2 DEF SeenUpTo
      <4>2. p \in 1 .. i
        BY <2>1, <4>1
      <4> QED
        BY <3>2, <4>1, <4>2
    <3> QED
      BY <2>5, <3>1, <3>2
  <2> HIDE DEF next, seen
  <2>10. \A p, q \in 1 .. i : p <= q => curve[p] - curve[q] <= next.worst
    <3> SUFFICES ASSUME NEW p \in 1 .. i, NEW q \in 1 .. i, p <= q
                 PROVE  curve[p] - curve[q] <= next.worst
      OBVIOUS
    <3>0. curve[p] \in Int /\ curve[q] \in Int
      BY <2>7
    <3>1. CASE q = i
      <4>1. curve[p] <= peak /\ curve[q] = v
        BY <2>8, <3>1
      <4> QED
        BY <2>1, <2>5, <2>6, <3>0, <4>1
    <3>2. CASE q # i
      <4>1. q \in 1 .. i - 1 /\ p \in 1 .. i - 1
        BY <2>1, <3>2
      <4>2. curve[p] - curve[q] <= seen.worst
        BY <2>2, <4>1 DEF SeenUpTo
      <4> QED
        BY <2>3, <2>6, <3>0, <4>2
    <3> QED
      BY <3>1, <3>2
  <2>11. next.worst > 0 => \E p, q \in 1 .. i : p <= q /\ next.worst = curve[p] - curve[q]
    <3> SUFFICES ASSUME next.worst > 0
                 PROVE  \E p, q \in 1 .. i : p <= q /\ next.worst = curve[p] - curve[q]
      OBVIOUS
    <3>1. CASE next.worst = peak - v
      <4>1. PICK p \in 1 .. i : peak = curve[p]
        BY <2>9
      <4>2. i \in 1 .. i /\ p <= i
        BY <2>1
      <4> QED
        BY <3>1, <4>1, <4>2
    <3>2. CASE next.worst = seen.worst
      <4>1. PICK p \in 1 .. i - 1, q \in 1 .. i - 1 : p <= q /\ seen.worst = curve[p] - curve[q]
        BY <2>2, <3>2 DEF SeenUpTo
      <4>2. p \in 1 .. i /\ q \in 1 .. i
        BY <2>1
      <4> QED
        BY <3>2, <4>1, <4>2
    <3> QED
      BY <2>6, <3>1, <3>2
  <2>12. next.worst >= 0
    BY <2>2, <2>3, <2>6 DEF SeenUpTo
  <2>13. SeenUpTo(curve, i, next)
    <3>1. next \in Drawdowns /\ next.peak = peak /\ ~(i = 0)
      BY <2>1, <2>6
    <3> QED
      BY <2>8, <2>9, <2>10, <2>11, <2>12, <3>1 DEF SeenUpTo
  <2> QED
    BY <2>1, <2>4, <2>13
<1>5. 0 .. n \subseteq S
  <2>1. 0 \in Int /\ n \in Int
    BY <1>1
  <2> HIDE DEF S
  <2> QED
    BY <1>3, <1>4, <2>1, UpTo
<1>6. SeenUpTo(curve, n, f[n])
  <2>1. n \in 0 .. n
    BY <1>1
  <2> QED
    BY <1>5, <2>1
<1>7. MaxDrawdown(curve) = f[n]
  BY <1>2 DEF MaxDrawdown
<1> QED
  BY <1>6, <1>7 DEF SeenUpTo

\* The deepest fall, as the greatest of the differences.
LEMMA DeepestFallIs ==
  ASSUME NEW curve \in Seq(Int), curve # << >>
  PROVE  LET spans == {p \in (DOMAIN curve) \X (DOMAIN curve) : p[1] <= p[2]}
         IN MaxDrawdown(curve).worst = Max({curve[p[1]] - curve[p[2]] : p \in spans})
<1> DEFINE n == Len(curve)
           spans == {p \in (DOMAIN curve) \X (DOMAIN curve) : p[1] <= p[2]}
           falls == {curve[p[1]] - curve[p[2]] : p \in spans}
           w == MaxDrawdown(curve).worst
<1>1. n \in Nat \ {0} /\ DOMAIN curve = 1 .. n /\ \A i \in 1 .. n : curve[i] \in Int
  OBVIOUS
<1>2. SeenUpTo(curve, n, MaxDrawdown(curve)) /\ w \in Int
  <2>1. MaxDrawdown(curve) \in Drawdowns /\ SeenUpTo(curve, n, MaxDrawdown(curve))
    BY DrawdownIs
  <2> QED
    BY <2>1 DEF Drawdowns
<1>3. \A x \in falls : x \in Int /\ x <= w
  <2> TAKE x \in falls
  <2>1. PICK p \in 1 .. n, q \in 1 .. n : p <= q /\ x = curve[p] - curve[q]
    BY <1>1
  <2> QED
    BY <1>1, <1>2, <2>1 DEF SeenUpTo
<1>4. \A p, q \in 1 .. n : p <= q => curve[p] - curve[q] \in falls
  <2> TAKE p, q \in 1 .. n
  <2>1. p <= q => <<p, q>> \in spans
    BY <1>1
  <2> QED
    BY <2>1
<1>5. w \in falls
  <2>1. CASE w > 0
    <3>1. PICK p \in 1 .. n, q \in 1 .. n : p <= q /\ w = curve[p] - curve[q]
      BY <1>2, <2>1 DEF SeenUpTo
    <3> HIDE DEF falls
    <3> QED
      BY <1>4, <3>1
  <2>2. CASE ~(w > 0)
    <3>1. w = 0
      BY <1>2, <2>2 DEF SeenUpTo
    <3>2. 1 \in 1 .. n /\ curve[1] - curve[1] = 0
      BY <1>1
    <3> HIDE DEF falls
    <3> QED
      BY <1>4, <3>1, <3>2
  <2> QED
    BY <2>1, <2>2
<1> HIDE DEF falls, w
<1>6. Max(falls) = w
  <2>1. Max(falls) \in falls /\ \A x \in falls : Max(falls) >= x
    BY <1>3, <1>5 DEF Max
  <2>2. PICK m \in falls : m = Max(falls)
    BY <2>1
  <2>3. m \in Int /\ m <= w /\ m >= w
    BY <1>3, <1>5, <2>1, <2>2
  <2> QED
    BY <1>2, <2>2, <2>3
<1> QED
  BY <1>6 DEF falls, w
=============================================================================
