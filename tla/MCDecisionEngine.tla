-------------------------- MODULE MCDecisionEngine --------------------------
(* An instance of DecisionEngine for TLC.                                  *)
EXTENDS DecisionEngine

(* Figures on both sides of every boundary of the rules.                   *)
MCApplicants ==
  [credit : {300, 600, 810, 900}, stability : {0, 100}, gst : BOOLEAN,
   dti : {0, 20, 50, 61, 120}]

(* A model that grows with every risk its features show.                   *)
MCDefaultProbability(row) ==
  Clamp((CASE row.grade = "A" -> 3 [] row.grade = "B" -> 10 [] row.grade = "C" -> 20
           [] row.grade = "D" -> 30 [] row.grade = "E" -> 55)
        + (row.utilisation \div 10) + (row.dti \div 4)
        + (IF row.verification = "Not Verified" THEN 2 ELSE 0)
        + (IF row.taxLien > 0 THEN 8 ELSE 0), 0, 100)

(* XGB_V1_reference_snapshot.json, and what is significant for its four    *)
(* values: only to lie beyond all of them (p is 0.018 for three).          *)
MCSnapshot == [utilisation |-> <<10, 60, 10, 60>>, dti |-> <<0, 0, 0, 0>>,
               taxLien |-> <<0, 0, 0, 0>>, neverDelinquent |-> <<0, 0, 0, 0>>]
MCSignificant(k, n) == n = 4 /\ k = 4

ASSUME MCReferencesAssumption == FewReferences(Snapshot)
=============================================================================
