------------------------------ MODULE Benchmark ------------------------------
(***************************************************************************)
(* The head-to-head benchmark of a trained model: every row of the test    *)
(* split is decided twice, by the heuristic and by the model, with the     *)
(* rules of the decision engine and figures derived from the features of a *)
(* training row.                                                           *)
(***************************************************************************)
EXTENDS TrainingPipeline

CONSTANT ConfidenceThreshold   \* of the benchmark and of the worker, in hundredths

VARIABLE benchmark   \* None, Raised, or of each test row the outcome of both arms

R == INSTANCE DecisionRules

(* None is neither an answer nor an outcome of scoring.                    *)
ASSUME BenchmarkAssumption ==
  /\ None \notin BOOLEAN
  /\ \A p \in 0..100 : R!MLOutcome("SCORED", p, {}) # None

(* Income stability, which a loan file does not have: a weighted sum of    *)
(* percentages, whole for the figures in use.                              *)
ProxyIncomeStability(row) ==
  LET Percent(ratio) == (100 * ratio[1]) \div ratio[2]
      burden == Lower(row.emiToIncome[1] \div row.emiToIncome[2], 100)   \* in percent already
  IN  R!Clamp((40 * row.headroom + 40 * row.neverDelinquent + 15 * (100 - burden)
               + 5 * (100 - Lower(Percent(row.inquiryPressure), 100))) \div 100, 0, 100)

CreditOf(row) == row.credit \div 2
Complies(row) == ~row.taxLien

(* Nothing fails in a benchmark.                                           *)
HeuristicOutcome(row) ==
  LET score      == R!RiskScore(CreditOf(row), ProxyIncomeStability(row), row.dti, Complies(row),
                                <<>>, R!RuleSetV1)
      decided    == R!Evaluate(score, row.dti, <<>>, Complies(row), R!RuleSetV1)
      confidence == R!DecisionConfidence(score, decided, 100)
  IN  IF confidence < 60 THEN "NEEDS_REVIEW" ELSE decided

(* MUTANT of MLOutcome: an uncertain model decides all the same.           *)
MLOutcomeUnguarded(row, p) ==
  LET score      == (100 - p) * 100
      decided    == R!Evaluate(score, row.dti, <<>>, Complies(row), R!RuleSetV2)
      confidence == R!DecisionConfidence(score, decided, 100)
  IN  IF confidence < ConfidenceThreshold THEN "NEEDS_REVIEW" ELSE decided

MLOutcome(row, p) ==
  LET score      == (100 - p) * 100
      decided    == R!Evaluate(score, row.dti, <<>>, Complies(row), R!RuleSetV2)
      confidence == R!DecisionConfidence(score, decided, 100)
  IN  IF Higher(p, 100 - p) < ConfidenceThreshold THEN HeuristicOutcome(row)
      ELSE IF confidence < ConfidenceThreshold THEN "NEEDS_REVIEW" ELSE decided

MLThresholdOutcome(p) == IF p < 50 THEN "APPROVE" ELSE "DECLINE"

Outcomes(rows, scored) ==
  [i \in DOMAIN rows |->
     [row |-> rows[i], p |-> scored[i].p, heuristic |-> HeuristicOutcome(rows[i]),
      ml |-> IF study.path = "candidate" THEN MLOutcome(rows[i], scored[i].p)
             ELSE MLThresholdOutcome(scored[i].p)]]

BenchmarkInit == benchmark = None

(* The data are prepared again; the calibrator is used if it was written.  *)
BenchmarkManifest ==
  /\ stage = "trained" /\ study.path = "candidate" /\ benchmark = None
  /\ \E cap \in study.recaps :
       LET again == Prepared(cap)
       IN  IF again = Raised THEN benchmark' = Raised
           ELSE \E raw \in PredictProbabilities(model, again["test"]) :
                  LET scored == IF calibrator = None THEN raw
                                ELSE [i \in DOMAIN raw |-> [raw[i] EXCEPT !.p = calibrator.apply[@]]]
                  IN  benchmark' = Outcomes(again["test"], scored)
  /\ UNCHANGED pipelineVars

BenchmarkOfficial ==
  /\ stage = "trained" /\ study.path = "official" /\ benchmark = None
  /\ \E raw \in PredictProbabilities(model, splits["test"]) :
       benchmark' = Outcomes(splits["test"],
                             [i \in DOMAIN raw |-> [raw[i] EXCEPT !.p = calibrator.apply[@]]])
  /\ UNCHANGED pipelineVars

BenchmarkNext ==
  /\ stage # study.until
  /\ BenchmarkManifest \/ BenchmarkOfficial

-----------------------------------------------------------------------------
(* Properties                                                              *)

(* What the benchmark says of the two scorers is what they would do: with  *)
(* the same figures and no provider failing, the engine itself decides     *)
(* like the benchmark's heuristic arm, and like the model's arm of a       *)
(* candidate run.  The official arm, a bare threshold, at least approves   *)
(* whatever the engine approves on the model's word.                       *)
BenchmarkIsDeployed ==
  benchmark \notin {None, Raised} =>
    \A i \in DOMAIN benchmark :
      LET b       == benchmark[i]
          results == [credit |-> R!Ok(CreditOf(b.row)), bank |-> R!Ok(ProxyIncomeStability(b.row)),
                      gst |-> R!Ok(Complies(b.row))]
          Engine(ml) == R!ComputeDecision(results, b.row.dti, ml, None)
          served     == Engine(R!MLOutcome("SCORED", b.p, {}))
      IN  /\ b.heuristic = Engine(None).decision
          /\ study.path = "candidate" => b.ml = served.decision
          /\ study.path = "official" /\ served.strategy = "ml" /\ served.decision = "APPROVE" =>
               b.ml = "APPROVE"
=============================================================================
