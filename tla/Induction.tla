------------------------------ MODULE Induction ------------------------------
(***************************************************************************)
(* Induction over numbers and over the size of finite sets, stated for     *)
(* sets instead of predicates (the set of the numbers that have the        *)
(* property), and what the folds of the community modules rest on: the     *)
(* function they define exists.                                            *)
(***************************************************************************)
EXTENDS Integers, FiniteSets, Functions, FiniteSetTheorems, WellFoundedInduction, TLAPS

\* A set of numbers has a least one.
LEMMA LeastNumber ==
    ASSUME NEW T, T \subseteq Nat, T # {}
    PROVE  \E x \in T : \A y \in T : x <= y
<1> DEFINE R == OpToRel(<, Nat)
<1>1. IsWellFoundedOn(R, Nat)
  BY NatLessThanWellFounded
<1>2. \A x, y \in Nat : x < y => <<x, y>> \in R
  BY DEF OpToRel
<1> HIDE DEF R
<1>3. PICK x \in T : \A y \in T : ~ (<<y, x>> \in R)
  BY <1>1, WFMin
<1>4. \A y \in T : ~ (y < x)
  BY <1>2, <1>3
<1> QED
  BY <1>3, <1>4

\* Induction: a set of numbers with 0 and with the successor of each of its members.
LEMMA SetInduction ==
    ASSUME NEW T, T \subseteq Nat, 0 \in T, \A n \in Nat : n \in T => n + 1 \in T
    PROVE  T = Nat
<1> SUFFICES ASSUME Nat \ T # {} PROVE FALSE
  OBVIOUS
<1>1. PICK x \in Nat \ T : \A y \in Nat \ T : x <= y
  BY LeastNumber
<1>2. x # 0 /\ x - 1 \in Nat /\ x - 1 \in T
  BY <1>1
<1> QED
  BY <1>1, <1>2

\* The values of a function on a finite set are finitely many.
LEMMA FiniteRange ==
    ASSUME NEW S, IsFiniteSet(S), NEW f, DOMAIN f = S
    PROVE  IsFiniteSet({f[x] : x \in S})
<1> DEFINE T == {f[x] : x \in S}
           g == [x \in S |-> f[x]]
<1>1. g \in Surjection(S, T)
  BY DEF Surjection
<1> QED
  BY <1>1, FS_Surjection

\* Induction over the subsets of a finite set, by taking elements away.
LEMMA FiniteInduction ==
    ASSUME NEW S, IsFiniteSet(S), NEW W,
           \A s \in SUBSET S : (\A x \in s : s \ {x} \in W) => s \in W
    PROVE  S \in W
<1> DEFINE T == {n \in Nat : \A s \in SUBSET S : Cardinality(s) <= n => s \in W}
<1>1. \A s \in SUBSET S : IsFiniteSet(s) /\ Cardinality(s) \in Nat
  BY FS_Subset, FS_CardinalityType
<1>2. \A s \in SUBSET S : \A x \in s :
          s \ {x} \in SUBSET S /\ Cardinality(s \ {x}) = Cardinality(s) - 1
  BY <1>1, FS_RemoveElement
<1>3. 0 \in T
  <2>1. \A s \in SUBSET S : Cardinality(s) <= 0 => s = {}
    BY <1>1, FS_EmptySet
  <2> QED
    BY <2>1
<1>4. ASSUME NEW n \in Nat, n \in T PROVE n + 1 \in T
  <2>1. ASSUME NEW s \in SUBSET S, Cardinality(s) <= n + 1 PROVE s \in W
    <3>1. ASSUME NEW x \in s PROVE s \ {x} \in W
      <4>1. Cardinality(s \ {x}) <= n
        BY <1>1, <1>2, <2>1
      <4> QED
        BY <1>4, <4>1
    <3> QED
      BY <3>1
  <2> QED
    BY <2>1
<1>5. T = Nat
  <2> HIDE DEF T
  <2>1. T \subseteq Nat
    BY DEF T
  <2> QED
    BY <1>3, <1>4, <2>1, SetInduction
<1>6. Cardinality(S) \in T
  BY <1>1, <1>5
<1> QED
  BY <1>6

\* iter folds the elements of the subsets of S with step, one by one in the order of pick.
IsFold(iter, S, base, step, pick) ==
    \A s \in SUBSET S :
        iter[s] = IF s = {} THEN base ELSE step[<<pick[s], iter[s \ {pick[s]}]>>]

\* Such a function exists when S is finite, with values where step has them.
LEMMA FoldExists ==
    ASSUME NEW S, IsFiniteSet(S), NEW V, NEW base \in V,
           NEW step \in [S \X V -> V],
           NEW pick, \A s \in SUBSET S : s # {} => pick[s] \in s
    PROVE  \E iter \in [SUBSET S -> V] : IsFold(iter, S, base, step, pick)
<1> DEFINE Small(n) == {s \in SUBSET S : Cardinality(s) <= n}
           Value(g, s) == IF s = {} THEN base ELSE step[<<pick[s], g[s \ {pick[s]}]>>]
           T == {n \in Nat : \E g \in [Small(n) -> V] : \A s \in Small(n) : g[s] = Value(g, s)}
<1>1. \A s \in SUBSET S : IsFiniteSet(s) /\ Cardinality(s) \in Nat
  BY FS_Subset, FS_CardinalityType
<1>2. \A s \in SUBSET S : s # {} =>
          /\ s \ {pick[s]} \in SUBSET S
          /\ Cardinality(s \ {pick[s]}) = Cardinality(s) - 1
  BY <1>1, FS_RemoveElement
<1>3. 0 \in T
  <2>1. \A s \in Small(0) : s = {}
    BY <1>1, FS_EmptySet
  <2>2. [s \in Small(0) |-> base] \in [Small(0) -> V]
    OBVIOUS
  <2> QED
    BY <2>1, <2>2
<1>4. ASSUME NEW n \in Nat, n \in T PROVE n + 1 \in T
  <2>1. PICK g \in [Small(n) -> V] : \A s \in Small(n) : g[s] = Value(g, s)
    BY <1>4
  <2> DEFINE h == [s \in Small(n + 1) |-> IF s \in Small(n) THEN g[s] ELSE Value(g, s)]
  <2>2. \A s \in Small(n + 1) : s # {} => s \ {pick[s]} \in Small(n)
    BY <1>1, <1>2
  <2>3. \A s \in Small(n + 1) : s # {} => pick[s] \in S
    OBVIOUS
  <2>4. \A s \in Small(n + 1) : Value(g, s) \in V
    BY <2>1, <2>2, <2>3
  <2>5. h \in [Small(n + 1) -> V]
    BY <2>1, <2>4
  <2>6. \A s \in Small(n) : s \in Small(n + 1) /\ h[s] = g[s]
    BY <1>1
  <2>7. \A s \in Small(n + 1) : h[s] = Value(g, s)
    BY <2>1
  <2>8. \A s \in Small(n + 1) : Value(h, s) = Value(g, s)
    BY <2>2, <2>6
  <2>9. \A s \in Small(n + 1) : h[s] = Value(h, s)
    BY <2>7, <2>8
  <2> HIDE DEF h, Value, Small
  <2> QED
    BY <2>5, <2>9
<1>5. Cardinality(S) \in T
  <2> HIDE DEF T
  <2>1. T = Nat
    <3>1. T \subseteq Nat
      BY DEF T
    <3> QED
      BY <1>3, <1>4, <3>1, SetInduction
  <2> QED
    BY <2>1, <1>1
<1>6. Small(Cardinality(S)) = SUBSET S
  BY <1>1, FS_Subset
<1>7. PICK g \in [Small(Cardinality(S)) -> V] :
          \A s \in Small(Cardinality(S)) : g[s] = Value(g, s)
  BY <1>5
<1> HIDE DEF Small
<1> QED
  BY <1>6, <1>7 DEF IsFold
==============================================================================
