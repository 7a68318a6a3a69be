----------------------------- MODULE ModelMetrics -----------------------------
(***************************************************************************)
(* What is measured on a scored split: the selection metrics, calibration, *)
(* confusion matrices, segments and fairness.  A scored row has its true   *)
(* class y, its probability p in percent and the values it is grouped by.  *)
(* Rates over one split share a denominator: only numerators are kept      *)
(* where nothing else is compared.                                         *)
(***************************************************************************)
EXTENDS Integers, Sequences, FiniteSets

CONSTANTS
  Bins,         \* ECE bins
  Thresholds,   \* the threshold grid, in percent
  MinSegment,   \* min_count of compute_segment_diagnostics
  MinGroup,     \* min_count of fairness_analysis
  MaxGroups,    \* max_groups of fairness_analysis
  GroupRank(_)  \* the order of the group names

ASSUME MetricsAssumption ==
  /\ Bins \in 1..100 /\ MaxGroups \in Nat \ {0}
  /\ 50 \in Thresholds /\ Thresholds \subseteq 0..100

(* The sum of the values of a function.                                    *)
SumOver(f) ==
  LET sum[s \in SUBSET DOMAIN f] ==
        IF s = {} THEN 0 ELSE LET i == CHOOSE i \in s : TRUE IN f[i] + sum[s \ {i}]
  IN  sum[DOMAIN f]

Positives(scored) == {i \in DOMAIN scored : scored[i].y = 1}
Negatives(scored) == {i \in DOMAIN scored : scored[i].y = 0}

(* Each positive counts the average rank of the rows it ties with; the     *)
(* area is a pair.                                                         *)
AucRoc(scored) ==
  LET pos == Cardinality(Positives(scored))
      neg == Len(scored) - pos
      Below(i) == Cardinality({k \in DOMAIN scored : scored[k].p < scored[i].p})
      Ties(i)  == Cardinality({k \in DOMAIN scored : scored[k].p = scored[i].p})
      rankSum  == SumOver([i \in Positives(scored) |-> 2 * Below(i) + 1 + Ties(i)])
  IN  IF pos = 0 \/ neg = 0 THEN <<1, 2>>
      ELSE <<rankSum - pos * (pos + 1), 2 * pos * neg>>

(* Rows of equal probability stay in the order of the split.  In sixtieths *)
(* of a positive, which are whole for up to six rows.                      *)
AveragePrecision(scored) ==
  LET Upto(i) == {k \in DOMAIN scored : \/ scored[k].p > scored[i].p
                                        \/ scored[k].p = scored[i].p /\ k <= i}
  IN  SumOver([i \in Positives(scored) |->
                (60 * Cardinality(Upto(i) \cap Positives(scored))) \div Cardinality(Upto(i))])

Brier(scored) ==
  SumOver([i \in DOMAIN scored |->
            (scored[i].p - 100 * scored[i].y) * (scored[i].p - 100 * scored[i].y)])

ComputeBinaryMetrics(scored) ==
  [auc |-> AucRoc(scored), ap |-> AveragePrecision(scored), brier |-> Brier(scored)]

BinOf(p) == IF p = 100 THEN Bins - 1 ELSE (p * Bins) \div 100

(* Per bin the rows, and how far predictions and defaults are apart.       *)
CalibrationError(scored) ==
  LET Rows(b) == {i \in DOMAIN scored : BinOf(scored[i].p) = b}
      Gap(b)  == SumOver([i \in Rows(b) |-> scored[i].p - 100 * scored[i].y])
  IN  [b \in 0..(Bins - 1) |-> [count |-> Cardinality(Rows(b)),
                                gap |-> IF Gap(b) < 0 THEN -Gap(b) ELSE Gap(b)]]

ConfusionMatrix(scored, threshold) ==
  LET Cell(predicted, y) ==
        Cardinality({i \in DOMAIN scored : (scored[i].p >= threshold) = predicted /\ scored[i].y = y})
  IN  [tp |-> Cell(TRUE, 1), fp |-> Cell(TRUE, 0), tn |-> Cell(FALSE, 0), fn |-> Cell(FALSE, 1)]

ValuesOf(scored, field) == {scored[i].group[field] : i \in DOMAIN scored}
Members(scored, field, value) == {i \in DOMAIN scored : scored[i].group[field] = value}

SegmentDiagnostics(scored, field) ==
  [v \in {w \in ValuesOf(scored, field) : Cardinality(Members(scored, field, w)) >= MinSegment} |->
     [rows      |-> Cardinality(Members(scored, field, v)),
      defaults  |-> Cardinality(Members(scored, field, v) \cap Positives(scored)),
      predicted |-> Cardinality({i \in Members(scored, field, v) : scored[i].p >= 50})]]

(* MUTANT of Approved: a probability at the threshold is an approval.      *)
ApprovedAtThreshold(scored) == {i \in DOMAIN scored : scored[i].p <= 50}

(* The favorable outcome.                                                  *)
Approved(scored) == {i \in DOMAIN scored : scored[i].p < 50}

(* The largest groups that are large enough, or else the largest of all;   *)
(* the names of two groups of one size are in their order.                 *)
FairnessAnalysis(scored, field) ==
  LET Size(v) == Cardinality(Members(scored, field, v))
      large == {v \in ValuesOf(scored, field) : Size(v) >= MinGroup}
      eligible == IF large = {} THEN ValuesOf(scored, field) ELSE large
      Before(v, w) == Size(v) > Size(w) \/ (Size(v) = Size(w) /\ GroupRank(v) < GroupRank(w))
  IN  [v \in {w \in eligible : Cardinality({u \in eligible : Before(u, w)}) < MaxGroups} |->
         [rows      |-> Size(v),
          approved  |-> Cardinality(Members(scored, field, v) \cap Approved(scored)),
          sound     |-> Cardinality(Members(scored, field, v) \cap Negatives(scored)),
          soundApproved |-> Cardinality(Members(scored, field, v) \cap Negatives(scored)
                                          \cap Approved(scored)),
          reference |-> \A u \in eligible : ~Before(u, v)]]
=============================================================================
