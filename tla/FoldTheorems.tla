---------------------------- MODULE FoldTheorems ----------------------------
(***************************************************************************)
(* Induction for sets and sequences, in the form of sets of the values for *)
(* which a statement holds, and what folds over finite sets compute.  The  *)
(* models add up seconds and read queues of lines with folds; the proofs   *)
(* about them need that the recursive function a fold is defined with      *)
(* exists.                                                                 *)
(***************************************************************************)
EXTENDS WellFoundedInduction, FiniteSetTheorems, TLAPS

Less == {p \in Nat \X Nat : p[1] < p[2]}

LEMMA LessWellFounded == IsWellFoundedOn(Less, Nat)
<1>1. Less = OpToRel(<, Nat) BY DEF Less, OpToRel
<1> QED BY <1>1, NatLessThanWellFounded

LEMMA LeastNatural ==
  ASSUME NEW T \in SUBSET Nat, T # {}
  PROVE  \E x \in T : \A y \in T : x <= y
<1>1. PICK x \in T : \A y \in T : ~ (<<y, x>> \in Less)
  BY LessWellFounded, WFMin
<1>2. ASSUME NEW y \in T PROVE x <= y
  <2>1. x \in Nat /\ y \in Nat OBVIOUS
  <2>2. ~(y < x)
    <3> SUFFICES ASSUME y < x PROVE FALSE
      OBVIOUS
    <3> DEFINE p == <<y, x>>
    <3>1. p \in Nat \X Nat /\ p[1] = y /\ p[2] = x BY <2>1
    <3>2. p \in Less BY <3>1 DEF Less
    <3> QED BY <1>1, <3>2
  <2> QED BY <2>1, <2>2
<1> QED BY <1>2

\* The natural numbers for which something holds are all of them.
LEMMA NaturalsHave ==
  ASSUME NEW T, 0 \in T, \A n \in Nat : n \in T => n + 1 \in T
  PROVE  \A n \in Nat : n \in T
<1> SUFFICES ASSUME Nat \ T # {} PROVE FALSE
  OBVIOUS
<1>1. PICK x \in Nat \ T : \A y \in Nat \ T : x <= y BY LeastNatural
<1>2. x # 0 /\ x - 1 \in Nat BY <1>1
<1>3. x - 1 \in T BY <1>1, <1>2
<1> QED BY <1>1, <1>2, <1>3

LEMMA SubsetSize ==
  ASSUME NEW S, IsFiniteSet(S), NEW A \in SUBSET S
  PROVE  /\ Cardinality(A) \in Nat /\ Cardinality(A) <= Cardinality(S)
         /\ Cardinality(A) = 0 <=> A = {}
         /\ \A x \in A : Cardinality(A \ {x}) = Cardinality(A) - 1
<1>1. IsFiniteSet(A) /\ Cardinality(A) <= Cardinality(S) BY FS_Subset
<1>2. Cardinality(A) \in Nat BY <1>1, FS_CardinalityType
<1>3. Cardinality(A) = 0 <=> A = {} BY <1>1, FS_EmptySet
<1>4. \A x \in A : Cardinality(A \ {x}) = Cardinality(A) - 1 BY <1>1, FS_RemoveElement
<1> QED BY <1>1, <1>2, <1>3, <1>4

\* So are the subsets of a finite set.
LEMMA SubsetsHave ==
  ASSUME NEW S, IsFiniteSet(S), NEW T,
         \A A \in SUBSET S : (\A x \in A : A \ {x} \in T) => A \in T
  PROVE  \A A \in SUBSET S : A \in T
<1> DEFINE N == {n \in Nat : \A A \in SUBSET S : Cardinality(A) = n => A \in T}
<1>1. 0 \in N BY SubsetSize
<1>2. ASSUME NEW n \in Nat, n \in N PROVE n + 1 \in N
  <2> SUFFICES ASSUME NEW A \in SUBSET S, Cardinality(A) = n + 1 PROVE A \in T
    OBVIOUS
  <2>1. ASSUME NEW x \in A PROVE A \ {x} \in T
    <3>1. Cardinality(A \ {x}) = n BY SubsetSize
    <3> QED BY <1>2, <3>1
  <2> QED BY <2>1
<1> HIDE DEF N
<1>3. \A n \in Nat : n \in N BY <1>1, <1>2, NaturalsHave
<1>4. ASSUME NEW A \in SUBSET S PROVE A \in T
  BY <1>3, SubsetSize DEF N
<1> QED BY <1>4

\* A fold takes the elements of a set in the order of pick.
IsFold(S, D, base, pick, step, f) ==
  /\ f \in [SUBSET S -> D]
  /\ \A A \in SUBSET S :
       f[A] = IF A = {} THEN base ELSE step[pick[A]][f[A \ {pick[A]}]]

LEMMA FoldExists ==
  ASSUME NEW S, IsFiniteSet(S), NEW D, NEW base \in D, NEW step \in [S -> [D -> D]],
         NEW pick, \A A \in SUBSET S : A # {} => pick[A] \in A
  PROVE  \E f : IsFold(S, D, base, pick, step, f)
<1> DEFINE Small(n) == {A \in SUBSET S : Cardinality(A) <= n}
           Next(f, A) == IF A = {} THEN base ELSE step[pick[A]][f[A \ {pick[A]}]]
           Good(n, f) == /\ f \in [Small(n) -> D]
                         /\ \A A \in Small(n) : f[A] = Next(f, A)
           N == {n \in Nat : \E f : Good(n, f)}
<1>1. 0 \in N
  <2> DEFINE f == [A \in Small(0) |-> base]
  <2>1. \A A \in Small(0) : A = {} BY SubsetSize
  <2>2. Good(0, f) BY <2>1
  <2> QED BY <2>2
<1>2. ASSUME NEW n \in Nat, n \in N PROVE n + 1 \in N
  <2>1. PICK f : Good(n, f) BY <1>2
  <2> DEFINE g == [A \in Small(n + 1) |-> Next(f, A)]
  <2>2. ASSUME NEW A \in Small(n + 1), A # {}
        PROVE  pick[A] \in A /\ A \ {pick[A]} \in Small(n)
    BY <2>2, SubsetSize
  <2>3. ASSUME NEW A \in Small(n + 1) PROVE Next(f, A) \in D
    <3>1. CASE A = {} BY <3>1
    <3>2. CASE A # {}
      <4>1. f[A \ {pick[A]}] \in D BY <2>1, <2>2, <3>2
      <4>2. pick[A] \in S BY <2>2, <3>2
      <4> QED BY <3>2, <4>1, <4>2
    <3> QED BY <3>1, <3>2
  <2>4. g \in [Small(n + 1) -> D] BY <2>3
  <2>5. ASSUME NEW A \in Small(n) PROVE A \in Small(n + 1) /\ g[A] = f[A]
    <3>1. A \in Small(n + 1) BY SubsetSize
    <3> QED BY <2>1, <3>1
  <2>6. ASSUME NEW A \in Small(n + 1) PROVE g[A] = Next(g, A)
    <3>1. CASE A = {} BY <3>1
    <3>2. CASE A # {}
      <4>1. g[A \ {pick[A]}] = f[A \ {pick[A]}] BY <2>2, <2>5, <3>2
      <4> QED BY <3>2, <4>1
    <3> QED BY <3>1, <3>2
  <2>7. Good(n + 1, g) BY <2>4, <2>6
  <2> HIDE DEF Good, g
  <2> QED BY <2>7
<1> HIDE DEF N
<1>3. \A n \in Nat : n \in N BY <1>1, <1>2, NaturalsHave
<1>4. Cardinality(S) \in Nat BY FS_CardinalityType
<1>5. PICK f : Good(Cardinality(S), f) BY <1>3, <1>4 DEF N
<1>6. Small(Cardinality(S)) = SUBSET S BY SubsetSize
<1> QED BY <1>5, <1>6 DEF IsFold
=============================================================================
