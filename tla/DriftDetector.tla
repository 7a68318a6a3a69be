---------------------------- MODULE DriftDetector ----------------------------
(***************************************************************************)
(* Whether the features of one application have drifted from a reference:  *)
(* the worker repeats the application 32 times and compares the "sample"   *)
(* with each feature's reference values by a Kolmogorov-Smirnov test.      *)
(***************************************************************************)
EXTENDS Integers, Sequences, FiniteSets

CONSTANT Significant(_, _)
  \* whether a distance of k/n between n values and 32 equal ones has a
  \* p-value below 1 percent

(* The distance to a sample of one value, times the number of reference    *)
(* values: all of these that lie below it, or all above.                   *)
KSDistance(reference, value) ==
  LET below == Cardinality({i \in DOMAIN reference : reference[i] < value})
      above == Cardinality({i \in DOMAIN reference : reference[i] > value})
  IN  IF below > above THEN below ELSE above

(* Features without reference values, or without a value, are not checked. *)
DetectDrift(row, snapshot) ==
  {f \in DOMAIN snapshot \cap DOMAIN row :
     snapshot[f] # <<>> /\ Significant(KSDistance(snapshot[f], row[f]), Len(snapshot[f]))}

(* Few reference values, as the shipped snapshot has: no distance short of *)
(* the largest is significant.                                             *)
FewReferences(snapshot) ==
  \A f \in DOMAIN snapshot :
    /\ DOMAIN snapshot[f] = 1..Len(snapshot[f]) /\ Len(snapshot[f]) \in Nat
    /\ \A k \in 0..(Len(snapshot[f]) - 1) : ~Significant(k, Len(snapshot[f]))
=============================================================================
