--------------------------- MODULE TrainingPipeline ---------------------------
(***************************************************************************)
(* One model from the file to its report, on either path: a candidate run  *)
(* (prepare, search, select, refit, and later calibrate_manifest and       *)
(* evaluate_manifest, which prepare their data again) or the official      *)
(* model (prepare, search on a slice, calibrate on validation rows, refit, *)
(* evaluate).  An estimator is any function from encoded rows to           *)
(* probabilities, an isotonic calibrator any monotone map of these.        *)
(***************************************************************************)
EXTENDS LoanData, ModelMetrics

CONSTANTS
  Studies,              \* what is run: [path, file, cap, recaps, modulo, metric, probs], the model
                        \* families included and installed, of each one the values of its
                        \* parameters, and until, where the history ends (a bound)
  MaxSearchTrain,       \* rows of the official search's slices
  MaxSearchValidation

(* Files have the columns that are read; a cap leaves room for a row.      *)
ASSUME StudiesAssumption ==
  /\ MaxSearchTrain \in Nat \ {0} /\ MaxSearchValidation \in Nat \ {0}
  /\ \A s \in Studies :
       /\ s.path \in {"candidate", "official"} /\ s.probs \subseteq 0..100
       /\ s.cap \in {None} \cup (Nat \ {0})
       /\ Len(s.file) \in Nat /\ DOMAIN s.file = 1..Len(s.file)
       /\ \A p \in DOMAIN s.file : IsRaw(s.file[p])
       /\ \A name \in DOMAIN s.values :
            /\ Len(s.values[name]) \in Nat
            /\ \A i \in 1..Len(s.values[name]) : Len(s.values[name][i]) \in Nat
       /\ IF s.path = "official" THEN "xgboost" \in DOMAIN s.values
          ELSE s.included \cap s.installed \subseteq DOMAIN s.values
  /\ None \notin Int \cup EmploymentLengths

VARIABLES
  study,       \* one of Studies
  stage,       \* what is next, "trained" for a saved candidate, "raised" or "done"
  splits,      \* the rows of each split
  runs,        \* the search log
  best,        \* the selected row of the log, or 0
  model,       \* the fitted model
  calibrator,  \* the fitted calibrator
  report       \* the evaluation of one split

pipelineVars == <<study, stage, splits, runs, best, model, calibrator, report>>

PositionsOf(rows) == {rows[i].position : i \in DOMAIN rows}

PipelineInit(studies) ==
  /\ study \in studies
  /\ stage = "prepare"
  /\ splits = NoRows
  /\ runs = <<>> /\ best = 0
  /\ model = None /\ calibrator = None /\ report = None

Fail == stage' = "raised" /\ UNCHANGED <<study, splits, runs, best, model, calibrator, report>>

-----------------------------------------------------------------------------
(* Estimators                                                              *)

(* The categories a model knows: the candidate schema is inferred from the *)
(* training split, an official encoder's from the rows it is fitted on.    *)
SchemaOf(rows) ==
  IF study.path = "candidate" THEN InferCategories(splits["train"])
  ELSE {rows[i].home : i \in DOMAIN rows}

FitModel(params, rows) ==
  [params |-> params, fitted |-> PositionsOf(rows), schema |-> SchemaOf(rows)]

Grouping == IF study.path = "candidate" THEN {"home"} ELSE {"zip", "employmentBand"}

Scored(row, p) ==
  [y |-> row.target, p |-> p, group |-> [f \in Grouping |-> NormalizeCategory(row[f])]]

(* Rows that are encoded alike get the same probability.                   *)
PredictProbabilities(m, rows) ==
  LET code == [i \in DOMAIN rows |-> EncodeFeatureRow(rows[i], m.schema)]
  IN  {[i \in DOMAIN rows |-> Scored(rows[i], g[code[i]])] :
         g \in [{code[i] : i \in DOMAIN rows} -> study.probs]}

-----------------------------------------------------------------------------
(* The grid                                                                *)

(* A family is left out by the configuration or for want of its library.   *)
Trainable(name) == name \in study.included \cap study.installed

(* All combinations of the parameters' values, the last one running first. *)
ExpandGrid(values) ==
  LET Times(combos, list) ==
        [m \in 1..(Len(combos) * Len(list)) |->
           Append(combos[(m - 1) \div Len(list) + 1], list[((m - 1) % Len(list)) + 1])]
      product[n \in 0..Len(values)] ==
        IF n = 0 THEN <<<<>>>> ELSE Times(product[n - 1], values[n])
  IN  product[Len(values)]

(* The points of a family.                                                 *)
Points(name) ==
  LET combos == ExpandGrid(study.values[name])
  IN  [i \in DOMAIN combos |-> [candidate |-> name, params |-> combos[i]]]

PointsIfTrainable(name) == IF Trainable(name) THEN Points(name) ELSE <<>>

(* The points of the search, family by family.                             *)
Grid ==
  IF study.path = "candidate"
    THEN PointsIfTrainable("logistic_regression") \o PointsIfTrainable("xgboost")
           \o PointsIfTrainable("lightgbm")
    ELSE Points("xgboost")

-----------------------------------------------------------------------------
(* Preparation                                                             *)

(* Without rows in each of the three splits, or without a family to train, *)
(* there is no run.                                                        *)
Prepare ==
  /\ stage = "prepare"
  /\ LET built == IF study.path = "official" THEN OfficialSplits(study.file)
                  ELSE BuildSplits(study.file, study.cap, study.modulo)
     IN  IF built = Raised THEN Fail
         ELSE /\ splits' = built
              /\ stage' = IF Grid = <<>> \/ \E s \in Fitted : built[s] = <<>> THEN "raised"
                         ELSE "search"
              /\ UNCHANGED <<study, runs, best, model, calibrator, report>>

-----------------------------------------------------------------------------
(* Search                                                                  *)

MetricValue(metrics, name) ==
  CASE name = "validation_auc_pr" -> metrics.ap
    [] name = "validation_auc_roc" -> metrics.auc[1]
    [] name = "validation_brier_neg" -> -metrics.brier

(* By the metric, then by area, then by Brier score.                       *)
Better(m, n, name) ==
  LET a == MetricValue(m, name)
      b == MetricValue(n, name)
  IN  \/ a > b
      \/ a = b /\ m.auc[1] > n.auc[1]
      \/ a = b /\ m.auc[1] = n.auc[1] /\ m.brier < n.brier

SearchRows(s) ==
  CASE study.path = "candidate" -> splits[s]
    [] study.path = "official" /\ s = "train" -> SearchSlice(splits[s], MaxSearchTrain)
    [] study.path = "official" /\ s = "validation" -> SearchSlice(splits[s], MaxSearchValidation)

(* The official search keeps its best row as it goes.                      *)
SearchStep ==
  /\ stage = "search" /\ Len(runs) < Len(Grid)
  /\ LET point   == Grid[Len(runs) + 1]
         fitted  == FitModel(point.params, SearchRows("train"))
     IN  \E scored \in PredictProbabilities(fitted, SearchRows("validation")) :
           LET metrics == ComputeBinaryMetrics(scored)
           IN  /\ runs' = Append(runs, [candidate |-> point.candidate, params |-> point.params,
                                        fitted |-> fitted.fitted, metrics |-> metrics])
               /\ best' = IF study.path = "candidate" THEN 0
                          ELSE IF best = 0 THEN 1
                          ELSE IF Better(metrics, runs[best].metrics, "validation_auc_pr")
                            THEN Len(runs) + 1 ELSE best
  /\ UNCHANGED <<study, stage, splits, model, calibrator, report>>

(* The first of the best.                                                  *)
BestRun(log, name) ==
  CHOOSE i \in DOMAIN log :
    /\ \A k \in DOMAIN log : ~Better(log[k].metrics, log[i].metrics, name)
    /\ \A k \in 1..(i - 1) : Better(log[i].metrics, log[k].metrics, name)

SelectBest ==
  /\ stage = "search" /\ Len(runs) = Len(Grid)
  /\ best' = IF study.path = "candidate" THEN BestRun(runs, study.metric) ELSE best
  /\ stage' = IF study.path = "candidate" THEN "refit" ELSE "fit"
  /\ UNCHANGED <<study, splits, runs, model, calibrator, report>>

-----------------------------------------------------------------------------
(* Fitting and calibration                                                 *)

Isotonic ==
  {h \in [study.probs -> study.probs] : \A p, q \in study.probs : p < q => h[p] <= h[q]}

FitIsotonicCalibrator(m, rows) ==
  {[apply |-> h, fitted |-> PositionsOf(rows), on |-> m.fitted] : h \in Isotonic}

(* MUTANT of FitForCalibration: the final model is calibrated.             *)
FitForCalibrationCombined ==
  /\ stage = "fit"
  /\ model' = FitModel(runs[best].params, splits["train"] \o splits["validation"])
  /\ stage' = "calibrate"
  /\ UNCHANGED <<study, splits, runs, best, calibrator, report>>

FitForCalibration ==
  /\ stage = "fit"
  /\ model' = FitModel(runs[best].params, splits["train"])
  /\ stage' = "calibrate"
  /\ UNCHANGED <<study, splits, runs, best, calibrator, report>>

CalibrateOfficial ==
  /\ stage = "calibrate"
  /\ calibrator' \in FitIsotonicCalibrator(model, splits["validation"])
  /\ stage' = "refit"
  /\ UNCHANGED <<study, splits, runs, best, model, report>>

Refit ==
  /\ stage = "refit"
  /\ model' = FitModel(runs[best].params, splits["train"] \o splits["validation"])
  /\ stage' = "trained"
  /\ UNCHANGED <<study, splits, runs, best, calibrator, report>>

(* calibrate_manifest and evaluate_manifest prepare the data again, with a *)
(* cap of their own and a schema inferred anew; an estimator refuses       *)
(* columns it was not fitted on, and metrics an empty split.               *)
Prepared(cap) ==
  LET built == BuildSplits(study.file, cap, study.modulo)
  IN  IF built = Raised THEN Raised
      ELSE IF InferCategories(built["train"]) # model.schema \/ (\E s \in Fitted : built[s] = <<>>)
        THEN Raised ELSE built

CalibrateManifest ==
  /\ stage = "trained" /\ study.path = "candidate" /\ calibrator = None
  /\ \E cap \in study.recaps :
       LET again == Prepared(cap)
       IN  IF again = Raised THEN Fail
           ELSE /\ calibrator' \in FitIsotonicCalibrator(model, again["validation"])
                /\ UNCHANGED <<study, stage, splits, runs, best, model, report>>

-----------------------------------------------------------------------------
(* Evaluation                                                              *)

(* MUTANT of SummarizeCandidateComparison: the last of equal rows is kept. *)
SummarizeKeepsLast(log) ==
  LET B(i, k) == Better(log[i].metrics, log[k].metrics, "validation_auc_pr")
      Same(i)  == {k \in DOMAIN log : log[k].candidate = log[i].candidate}
      first(i) == CHOOSE k \in Same(i) : \A j \in Same(i) : k <= j
      kept     == {i \in DOMAIN log : \A k \in Same(i) : ~B(k, i) /\ (k > i => B(i, k))}
      Before(i, k) == B(i, k) \/ (~B(k, i) /\ first(i) < first(k))
  IN  [n \in 1..Cardinality(kept) |->
         CHOOSE i \in kept : Cardinality({k \in kept : Before(k, i)}) = n - 1]

(* The first best row of each candidate, the better first, and of equals   *)
(* the one that was searched first.                                        *)
SummarizeCandidateComparison(log) ==
  LET B(i, k) == Better(log[i].metrics, log[k].metrics, "validation_auc_pr")
      Same(i)  == {k \in DOMAIN log : log[k].candidate = log[i].candidate}
      first(i) == CHOOSE k \in Same(i) : \A j \in Same(i) : k <= j
      kept     == {i \in DOMAIN log : \A k \in Same(i) : ~B(k, i) /\ (k < i => B(i, k))}
      Before(i, k) == B(i, k) \/ (~B(k, i) /\ first(i) < first(k))
  IN  [n \in 1..Cardinality(kept) |->
         CHOOSE i \in kept : Cardinality({k \in kept : Before(k, i)}) = n - 1]

EvaluateSplit(split, scored) ==
  [split |-> split, scored |-> scored, metrics |-> ComputeBinaryMetrics(scored),
   calibration |-> CalibrationError(scored),
   thresholds  |-> [t \in Thresholds |-> ConfusionMatrix(scored, t)],
   groups      |-> [f \in Grouping |->
                      IF study.path = "candidate" THEN SegmentDiagnostics(scored, f)
                      ELSE FairnessAnalysis(scored, f)]]

EvaluateManifest ==
  /\ stage = "trained" /\ study.path = "candidate"
  /\ \E cap \in study.recaps, s \in Fitted :
       LET again == Prepared(cap)
       IN  IF again = Raised THEN Fail
           ELSE /\ \E scored \in PredictProbabilities(model, again[s]) :
                     report' = EvaluateSplit(s, scored)
                /\ stage' = "done"
                /\ UNCHANGED <<study, splits, runs, best, model, calibrator>>

EvaluateOfficial ==
  /\ stage = "trained" /\ study.path = "official"
  /\ \E s \in Fitted : \E raw \in PredictProbabilities(model, splits[s]) :
       report' = EvaluateSplit(s, [i \in DOMAIN raw |-> [raw[i] EXCEPT !.p = calibrator.apply[@]]])
  /\ stage' = "done"
  /\ UNCHANGED <<study, splits, runs, best, model, calibrator>>

PipelineNext ==
  /\ stage # study.until
  /\ \/ Prepare \/ SearchStep \/ SelectBest
     \/ FitForCalibration \/ CalibrateOfficial \/ Refit
     \/ CalibrateManifest \/ EvaluateManifest \/ EvaluateOfficial

-----------------------------------------------------------------------------
(* Properties                                                              *)

(* The one end of a FICO range that is known.                              *)
KnownEnd(low, high) ==
  IF (low = None) # (high = None) THEN Zero(low) + Zero(high) ELSE 0

(* An official row with the scores the row builder gives the loan.  Where  *)
(* one end of a range is blank the official builder halves the other, and  *)
(* the row builder takes it whole: nothing else sets their scores apart.   *)
Completed(row) ==
  LET raw  == study.file[row.position]
      fico == KnownEnd(Number(raw.ficoLow), Number(raw.ficoHigh))
      last == KnownEnd(Number(raw.lastLow), Number(raw.lastHigh))
  IN  [row EXCEPT !.credit = @ + fico, !.creditDelta = @ + (last - fico)]

(* What the two builders have of a row: all but the groupings of the       *)
(* official one.                                                           *)
Common(row) ==
  [home    |-> NormalizeCategory(row.home),
   figures |-> [f \in Numeric \cup {"position", "id", "issued", "target"} |-> row[f]]]

(* The rows of a frame that a sample by id takes.                          *)
Sample(frame, modulo) ==
  LET taken[n \in 0..Len(frame)] ==
        IF n = 0 THEN <<>>
        ELSE IF ShouldKeepRow(frame[n].id, modulo) THEN Append(taken[n - 1], frame[n]) ELSE taken[n - 1]
  IN  taken[Len(frame)]

(* The candidate runs and the official model, whose preparation was written *)
(* twice, train on the same loans with the same labels, features and split, *)
(* in the same order: a candidate split is the sampled official one, cut at *)
(* the cap, whenever the row-by-row builder gets through the file at all.   *)
(* Of a loan that has half a FICO range the scores differ, by exactly the   *)
(* known end halved, and no other figure of it does.                        *)
BuildersAgree ==
  study.path = "candidate" /\ stage \notin {"prepare", "raised"} =>
    LET official == OfficialSplits(study.file)
        Sampled(s) == Sample(official[s], study.modulo)
    IN  \A s \in Splits :
          /\ Len(splits[s]) <= Len(Sampled(s))
          /\ s \in Fitted =>
               Len(splits[s]) = IF study.cap = None THEN Len(Sampled(s))
                                ELSE Lower(study.cap, Len(Sampled(s)))
          /\ \A i \in DOMAIN splits[s] : Common(splits[s][i]) = Common(Completed(Sampled(s)[i]))

(* No row of the test year reaches a fitted model or calibrator, on either *)
(* path and whatever is prepared again later; the search fits on training  *)
(* rows only; and the official calibrator is fitted on the predictions of  *)
(* a model that has not seen the rows it predicts.                         *)
NoLeakage ==
  LET test == {i \in DOMAIN study.file :
                 study.file[i].issued \notin {None, Bad} /\ study.file[i].issued > ValidationEnd}
  IN  /\ model # None => model.fitted \cap test = {}
      /\ calibrator # None => calibrator.fitted \cap test = {}
      /\ calibrator # None /\ study.path = "official" => calibrator.fitted \cap calibrator.on = {}
      /\ \A i \in DOMAIN runs : \A p \in runs[i].fitted : study.file[p].issued <= TrainEnd

(* The run that was selected and saved is the one the evaluation report    *)
(* lists first, ties included, although one takes a maximum over all runs  *)
(* and the other sorts the best of each family; the report ranks by        *)
(* AUC-PR, so this is so for the default search metric.  The official      *)
(* running maximum ends at the same row.                                   *)
SelectionsAgree ==
  best # 0 /\ stage # "search" /\ (study.path = "official" \/ study.metric = "validation_auc_pr") =>
    best = SummarizeCandidateComparison(runs)[1]

(* The numbers of one report fit each other and their definitions: the     *)
(* area is the chance that a defaulted loan is ranked above a sound one,   *)
(* every row is in a bin, a higher threshold flags no more loans, and the  *)
(* approvals and flags of the groups add up to the confusion matrix.       *)
ReportsAgree ==
  report # None =>
    LET s     == report.scored
        pairs == Positives(s) \X Negatives(s)
        wins  == Cardinality({pr \in pairs : s[pr[1]].p > s[pr[2]].p})
        ties  == Cardinality({pr \in pairs : s[pr[1]].p = s[pr[2]].p})
        cells == ConfusionMatrix(s, 50)
        Total(g, f) == SumOver([v \in DOMAIN g |-> g[v][f]])
    IN  /\ pairs # {} => report.metrics.auc[1] * 2 * Cardinality(pairs)
                           = report.metrics.auc[2] * (2 * wins + ties)
        /\ SumOver([b \in DOMAIN report.calibration |-> report.calibration[b].count]) = Len(s)
        /\ \A t, u \in Thresholds : t < u =>
             /\ report.thresholds[u].tp <= report.thresholds[t].tp
             /\ report.thresholds[u].fp <= report.thresholds[t].fp
        /\ \A f \in DOMAIN report.groups :
             LET g == report.groups[f]
             IN  Total(g, "rows") = Len(s) =>
                   IF study.path = "candidate" THEN Total(g, "predicted") = cells.tp + cells.fp
                   ELSE /\ Total(g, "approved") = cells.tn + cells.fn
                        /\ Total(g, "soundApproved") = cells.tn
=============================================================================
