---------------------------- MODULE TableLemmas ----------------------------
(* What the scans over the fixed-size tables return. *)
EXTENDS Tables, WellFoundedInduction, TLAPS

\* A scan of a table of n slots that looks for a slot of S finds the one with
\* the smallest index, if there is one.
LEMMA FirstSlotIsMin ==
  ASSUME NEW n \in Nat, NEW S \in SUBSET (0 .. n - 1), S # {}
  PROVE  FirstSlot(S) \in S /\ \A j \in S : FirstSlot(S) <= j
<1> DEFINE Less == {ss \in Nat \X Nat : ss[1] < ss[2]}
<1>1. Less = OpToRel(<, Nat)
  BY Zenon DEF OpToRel
<1>2. IsWellFoundedOn(Less, Nat)
  BY <1>1, NatLessThanWellFounded, Zenon
<1>3. S \subseteq Nat
  OBVIOUS
<1>4. PICK x \in S : \A y \in S : ~(<<y, x>> \in Less)
  <2> HIDE DEF Less
  <2> QED BY <1>2, <1>3, WFMin, Zenon
<1>5. ASSUME NEW y \in S PROVE x <= y
  <2>1. y \in Nat /\ x \in Nat
    BY <1>3
  <2>2. <<y, x>> \in Nat \X Nat
    BY <2>1
  <2>3. ~(<<y, x>>[1] < <<y, x>>[2])
    BY <1>4, <2>2, Zenon
  <2> QED BY <2>1, <2>3
<1> QED BY <1>5 DEF FirstSlot

=============================================================================
