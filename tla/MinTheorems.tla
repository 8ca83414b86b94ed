---------------------------- MODULE MinTheorems -----------------------------
(* What Min of the community modules returns on sets of natural numbers;   *)
(* the scans of Lexer and FileCheck are defined with it; and induction.    *)
EXTENDS FiniteSetsExt, FiniteSetTheorems, WellFoundedInduction, TLAPS

(* The elements of S up to x.                                              *)
UpTo(S, x) == {y \in S : y <= x}

(* A non-empty set of naturals has a least element, and Min is it: the     *)
(* sets UpTo(S, x) are finite, so one of them contains no other.           *)
LEMMA MinIsLeast ==
  ASSUME NEW S \in SUBSET Nat, S # {}
  PROVE  /\ Min(S) \in S
         /\ Min(S) \in Nat
         /\ \A j \in S : Min(S) <= j
<1> DEFINE Initials == {UpTo(S, x) : x \in S}
<1>1. Initials \subseteq FiniteSubsetsOf(S) /\ Initials # {}
  <2>1. ASSUME NEW x \in S
        PROVE  IsFiniteSet(UpTo(S, x))
    <3>1. UpTo(S, x) \in SUBSET Nat /\ x \in Nat /\ \A y \in UpTo(S, x) : y <= x
      BY DEF UpTo
    <3>2. QED
      BY <3>1, FS_BoundedSetOfNaturals
  <2>2. QED
    BY <2>1 DEF FiniteSubsetsOf, UpTo
<1>2. \E I \in Initials : \A J \in Initials : ~(<<J, I>> \in StrictSubsetOrdering(S))
  <2> HIDE DEF Initials
  <2>1. QED
    BY <1>1, FS_StrictSubsetOrderingWellFounded, WFMin
<1>3. PICK x \in S : \A y \in S : ~(<<UpTo(S, y), UpTo(S, x)>> \in StrictSubsetOrdering(S))
  BY <1>2
<1>4. ASSUME NEW y \in S
      PROVE  x <= y
  <2>1. SUFFICES ASSUME y < x PROVE FALSE
    BY <1>3
  <2>2. UpTo(S, y) \subseteq UpTo(S, x)
    <3>1. SUFFICES ASSUME NEW z \in S, z <= y PROVE z <= x
      BY DEF UpTo
    <3>2. x \in Nat /\ y \in Nat /\ z \in Nat
      OBVIOUS
    <3>3. QED
      BY <2>1, <3>1, <3>2
  <2>3. x \in UpTo(S, x) /\ x \notin UpTo(S, y)
    BY <2>1 DEF UpTo
  <2>4. UpTo(S, y) \in SUBSET S /\ UpTo(S, x) \in SUBSET S
    BY DEF UpTo
  <2>5. QED
    BY <1>3, <2>2, <2>3, <2>4 DEF StrictSubsetOrdering
<1>5. QED
  BY <1>4 DEF Min

(* Induction, with a set in place of a predicate: one that holds 0 and     *)
(* with every number its successor leaves no least number out.             *)
LEMMA Induction ==
  ASSUME NEW S \in SUBSET Nat, 0 \in S, \A n \in S : n + 1 \in S
  PROVE  S = Nat
<1> DEFINE T == Nat \ S
<1>1. SUFFICES ASSUME T # {} PROVE FALSE
  OBVIOUS
<1>2. /\ Min(T) \in T /\ Min(T) \in Nat
      /\ \A j \in T : Min(T) <= j
  BY <1>1, MinIsLeast
<1> DEFINE m == Min(T)
<1>3. m \in Nat /\ m # 0 /\ m \notin S
  BY <1>2
<1>4. \A n \in Nat : n \notin S => m <= n
  BY <1>2
<1> HIDE DEF m, T
<1>5. m - 1 \in Nat /\ ~(m <= m - 1)
  BY <1>3
<1>6. m - 1 \in S
  BY <1>4, <1>5
<1>7. (m - 1) + 1 = m
  BY <1>3
<1> QED BY <1>3, <1>6, <1>7
=============================================================================
