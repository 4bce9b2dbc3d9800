------------------------------ MODULE Recursion ------------------------------
(***************************************************************************)
(* Induction and recursion over numbers, for the proofs of the recursive   *)
(* functions and the folds of the models.  A property is the set of what   *)
(* has it, and the step of a recursion is a function, so that every lemma  *)
(* can be used with any.                                                   *)
(***************************************************************************)
EXTENDS Integers, FiniteSets, FiniteSetTheorems, WellFoundedInduction, TLAPS

LEMMA SetInduction ==
  ASSUME NEW S, 0 \in S, \A n \in Nat : n \in S => n + 1 \in S
  PROVE  Nat \subseteq S
<1> DEFINE T == Nat \ S
<1> SUFFICES ASSUME T # {} PROVE FALSE
  OBVIOUS
<1>1. PICK x \in T : \A y \in T : ~ (<<y, x>> \in OpToRel(<, Nat))
  BY NatLessThanWellFounded, WFMin
<1>2. x \in Nat /\ x # 0
  BY <1>1
<1>3. x - 1 \in Nat /\ x - 1 < x /\ x = (x - 1) + 1
  BY <1>2
<1>4. x - 1 \in S
  BY <1>1, <1>2, <1>3 DEF OpToRel
<1> QED BY <1>1, <1>3, <1>4

LEMMA LeastOf ==
  ASSUME NEW S \in SUBSET Nat, S # {}
  PROVE  \E x \in S : \A y \in S : x <= y
<1>1. PICK x \in S : \A y \in S : ~ (<<y, x>> \in OpToRel(<, Nat))
  BY NatLessThanWellFounded, WFMin
<1>2. \A y \in S : ~(y < x)
  BY <1>1 DEF OpToRel
<1>3. \A y \in S : x <= y
  BY <1>2
<1> QED BY <1>3

(***************************************************************************)
(* Elements of X have a rank, and one of a rank above 0 depends on another *)
(* of a lower rank.                                                        *)
(***************************************************************************)
Ranked(X, rank, prev) ==
  /\ rank \in [X -> Nat] /\ prev \in [X -> X]
  /\ \A x \in X : rank[x] # 0 => rank[prev[x]] < rank[x]

LEMMA RankInduction ==
  ASSUME NEW X, NEW rank, NEW prev, Ranked(X, rank, prev), NEW G,
         \A x \in X : rank[x] = 0 => x \in G,
         \A x \in X : rank[x] # 0 /\ prev[x] \in G => x \in G
  PROVE  X \subseteq G
<1> DEFINE S == {n \in Nat : \A x \in X : rank[x] <= n => x \in G}
<1>1. 0 \in S
  BY DEF Ranked
<1>2. ASSUME NEW n \in Nat, n \in S PROVE n + 1 \in S
  <2>1. ASSUME NEW x \in X, rank[x] <= n + 1 PROVE x \in G
    <3>1. CASE rank[x] = 0
      BY <3>1
    <3>2. CASE rank[x] # 0
      <4>1. prev[x] \in X /\ rank[prev[x]] <= n
        BY <2>1, <3>2 DEF Ranked
      <4> QED BY <1>2, <3>2, <4>1
    <3> QED BY <3>1, <3>2
  <2> QED BY <2>1
<1> HIDE DEF S
<1>3. Nat \subseteq S
  BY <1>1, <1>2, SetInduction
<1>4. \A x \in X : rank[x] \in S /\ rank[x] <= rank[x]
  BY <1>3 DEF Ranked
<1> QED BY <1>4 DEF S

(***************************************************************************)
(* A function can be defined along the ranks.                              *)
(***************************************************************************)
Follows(X, rank, prev, base, step, f, x) ==
  f[x] = IF rank[x] = 0 THEN base[x] ELSE step[x][f[prev[x]]]

LEMMA RankRecursion ==
  ASSUME NEW X, NEW rank, NEW prev, Ranked(X, rank, prev), NEW D,
         NEW base \in [X -> D], NEW step \in [X -> [D -> D]]
  PROVE  \E f \in [X -> D] : \A x \in X : Follows(X, rank, prev, base, step, f, x)
<1> DEFINE Good(f, n) == \A x \in X : rank[x] <= n => Follows(X, rank, prev, base, step, f, x)
           S == {n \in Nat : \E f \in [X -> D] : Good(f, n)}
<1>1. 0 \in S
  <2>1. Good(base, 0)
    BY DEF Ranked, Follows
  <2> QED BY <2>1
<1>2. ASSUME NEW n \in Nat, n \in S PROVE n + 1 \in S
  <2>1. PICK f \in [X -> D] : Good(f, n)
    BY <1>2
  <2> DEFINE g == [x \in X |-> IF rank[x] = 0 THEN base[x] ELSE step[x][f[prev[x]]]]
  <2>2. g \in [X -> D]
    BY DEF Ranked
  <2>3. \A x \in X : rank[x] <= n => g[x] = f[x]
    BY <2>1 DEF Follows
  <2>4. ASSUME NEW x \in X, rank[x] <= n + 1 PROVE Follows(X, rank, prev, base, step, g, x)
    <3>1. CASE rank[x] = 0
      BY <3>1 DEF Follows
    <3>2. CASE rank[x] # 0
      <4>1. prev[x] \in X /\ rank[prev[x]] <= n
        BY <2>4, <3>2 DEF Ranked
      <4>2. g[prev[x]] = f[prev[x]]
        BY <2>3, <4>1
      <4> QED BY <3>2, <4>2 DEF Follows
    <3> QED BY <3>1, <3>2
  <2> HIDE DEF g
  <2> QED BY <2>2, <2>4
<1>3. Nat \subseteq S
  <2> HIDE DEF S
  <2> QED BY <1>1, <1>2, SetInduction
<1> DEFINE At(n) == CHOOSE f \in [X -> D] : Good(f, n)
<1>4. \A n \in Nat : At(n) \in [X -> D] /\ Good(At(n), n)
  BY <1>3
<1> HIDE DEF At
<1>5. ASSUME NEW m \in Nat, NEW n \in Nat, m <= n
      PROVE  \A x \in X : rank[x] <= m => At(m)[x] = At(n)[x]
  <2> DEFINE G == {x \in X : rank[x] <= m => At(m)[x] = At(n)[x]}
  <2>1. Good(At(m), m) /\ Good(At(n), n)
    BY <1>4
  <2>2. ASSUME NEW x \in X, rank[x] = 0 PROVE x \in G
    <3>1. At(m)[x] = base[x] /\ At(n)[x] = base[x]
      BY <2>1, <2>2 DEF Follows
    <3> QED BY <3>1
  <2>3. ASSUME NEW x \in X, rank[x] # 0, prev[x] \in G PROVE x \in G
    <3> SUFFICES ASSUME rank[x] <= m PROVE At(m)[x] = At(n)[x]
      OBVIOUS
    <3>1. rank[prev[x]] <= m /\ rank[x] <= n
      BY <1>5, <2>3 DEF Ranked
    <3>2. At(m)[prev[x]] = At(n)[prev[x]]
      BY <2>3, <3>1
    <3> QED BY <2>1, <2>3, <3>1, <3>2 DEF Follows
  <2> HIDE DEF G
  <2>4. X \subseteq G
    BY <2>2, <2>3, RankInduction
  <2> QED BY <2>4 DEF G
<1> DEFINE h == [x \in X |-> At(rank[x])[x]]
<1>6. h \in [X -> D]
  <2>1. \A x \in X : At(rank[x]) \in [X -> D]
    BY <1>4 DEF Ranked
  <2> QED BY <2>1
<1>7. ASSUME NEW x \in X PROVE Follows(X, rank, prev, base, step, h, x)
  <2>1. rank[x] \in Nat /\ Good(At(rank[x]), rank[x])
    BY <1>4 DEF Ranked
  <2>2. h[x] = At(rank[x])[x]
    OBVIOUS
  <2>3. CASE rank[x] = 0
    BY <2>1, <2>2, <2>3 DEF Follows
  <2>4. CASE rank[x] # 0
    <3>1. prev[x] \in X /\ rank[prev[x]] \in Nat /\ rank[prev[x]] <= rank[x]
      BY <2>4 DEF Ranked
    <3>2. h[prev[x]] = At(rank[x])[prev[x]]
      <4>1. At(rank[prev[x]])[prev[x]] = At(rank[x])[prev[x]]
        BY <1>5, <2>1, <3>1
      <4> QED BY <3>1, <4>1
    <3> HIDE DEF h
    <3> QED BY <2>1, <2>2, <2>4, <3>2 DEF Follows
  <2> QED BY <2>3, <2>4
<1> HIDE DEF h
<1> QED BY <1>6, <1>7

(***************************************************************************)
(* A fold takes the elements of a finite set one by one, in some order.    *)
(***************************************************************************)
Rest(s) == s \ {CHOOSE x \in s : TRUE}

LEMMA SubsetsRanked ==
  ASSUME NEW S, IsFiniteSet(S)
  PROVE  /\ Ranked(SUBSET S, [s \in SUBSET S |-> Cardinality(s)],
                   [s \in SUBSET S |-> IF s = {} THEN {} ELSE Rest(s)])
         /\ \A s \in SUBSET S : Cardinality(s) = 0 <=> s = {}
<1>1. \A s \in SUBSET S : IsFiniteSet(s) /\ Cardinality(s) \in Nat
  BY FS_Subset, FS_CardinalityType
<1>2. \A s \in SUBSET S : Cardinality(s) = 0 <=> s = {}
  BY <1>1, FS_EmptySet
<1>3. ASSUME NEW s \in SUBSET S, s # {} PROVE Cardinality(Rest(s)) < Cardinality(s)
  <2> DEFINE x == CHOOSE x \in s : TRUE
  <2>1. x \in s
    BY <1>3
  <2> HIDE DEF x
  <2>2. IsFiniteSet(s) /\ Cardinality(s) \in Nat
    BY <1>1
  <2>3. Cardinality(s \ {x}) = Cardinality(s) - 1
    BY <2>1, <2>2, FS_RemoveElement
  <2> QED BY <2>2, <2>3 DEF Rest, x
<1> DEFINE rank == [s \in SUBSET S |-> Cardinality(s)]
           prev == [s \in SUBSET S |-> IF s = {} THEN {} ELSE Rest(s)]
<1>4. rank \in [SUBSET S -> Nat]
  BY <1>1
<1>5. prev \in [SUBSET S -> SUBSET S]
  BY DEF Rest
<1>6. ASSUME NEW s \in SUBSET S, rank[s] # 0 PROVE rank[prev[s]] < rank[s]
  <2>1. s # {} /\ Rest(s) \in SUBSET S
    BY <1>2, <1>6 DEF Rest
  <2> QED BY <1>3, <2>1
<1> HIDE DEF rank, prev
<1>7. Ranked(SUBSET S, rank, prev)
  BY <1>4, <1>5, <1>6 DEF Ranked
<1> QED BY <1>2, <1>7 DEF rank, prev

LEMMA SubsetInduction ==
  ASSUME NEW S, IsFiniteSet(S), NEW G, {} \in G,
         \A s \in SUBSET S : s # {} /\ Rest(s) \in G => s \in G
  PROVE  SUBSET S \subseteq G
<1> DEFINE rank == [s \in SUBSET S |-> Cardinality(s)]
           prev == [s \in SUBSET S |-> IF s = {} THEN {} ELSE Rest(s)]
<1>1. Ranked(SUBSET S, rank, prev) /\ \A s \in SUBSET S : rank[s] = 0 <=> s = {}
  BY SubsetsRanked
<1>2. \A s \in SUBSET S : s # {} => prev[s] = Rest(s)
  OBVIOUS
<1> HIDE DEF rank, prev
<1> DEFINE X == SUBSET S
<1>3. Ranked(X, rank, prev)
  BY <1>1
<1>4. \A s \in X : rank[s] = 0 => s \in G
  BY <1>1
<1>5. \A s \in X : rank[s] # 0 /\ prev[s] \in G => s \in G
  BY <1>1, <1>2
<1> HIDE DEF X
<1>6. X \subseteq G
  BY <1>3, <1>4, <1>5, RankInduction
<1> QED BY <1>6 DEF X

(* The fold of a step that is a function.                                  *)
Unfolds(f, S, base, step) ==
  \A s \in SUBSET S :
    f[s] = IF s = {} THEN base ELSE step[CHOOSE x \in s : TRUE][f[Rest(s)]]

LEMMA FoldExists ==
  ASSUME NEW S, IsFiniteSet(S), NEW D, NEW base \in D, NEW step \in [S -> [D -> D]]
  PROVE  \E f \in [SUBSET S -> D] : Unfolds(f, S, base, step)
<1> DEFINE rank == [s \in SUBSET S |-> Cardinality(s)]
           prev == [s \in SUBSET S |-> IF s = {} THEN {} ELSE Rest(s)]
           first == [s \in SUBSET S |-> base]
           next == [s \in SUBSET S |-> IF s = {} THEN [d \in D |-> d]
                                       ELSE step[CHOOSE x \in s : TRUE]]
<1>1. Ranked(SUBSET S, rank, prev) /\ \A s \in SUBSET S : rank[s] = 0 <=> s = {}
  BY SubsetsRanked
<1>2. \A s \in SUBSET S : s # {} => prev[s] = Rest(s) /\ next[s] = step[CHOOSE x \in s : TRUE]
  OBVIOUS
<1>3. first \in [SUBSET S -> D] /\ \A s \in SUBSET S : first[s] = base
  OBVIOUS
<1>4. next \in [SUBSET S -> [D -> D]]
  OBVIOUS
<1> HIDE DEF rank, prev, first, next
<1>5. PICK f \in [SUBSET S -> D] : \A s \in SUBSET S : Follows(SUBSET S, rank, prev, first, next, f, s)
  BY <1>1, <1>3, <1>4, RankRecursion
<1>6. Unfolds(f, S, base, step)
  <2> SUFFICES ASSUME NEW s \in SUBSET S
               PROVE  f[s] = IF s = {} THEN base ELSE step[CHOOSE x \in s : TRUE][f[Rest(s)]]
    BY DEF Unfolds
  <2>1. f[s] = IF rank[s] = 0 THEN first[s] ELSE next[s][f[prev[s]]]
    BY <1>5 DEF Follows
  <2>2. CASE s = {}
    BY <1>1, <1>3, <2>1, <2>2
  <2>3. CASE s # {}
    BY <1>1, <1>2, <2>1, <2>3
  <2> QED BY <2>2, <2>3
<1> QED BY <1>6
=============================================================================
