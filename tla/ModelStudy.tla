------------------------------ MODULE ModelStudy ------------------------------
(***************************************************************************)
(* The offline side of a model: a training pipeline over a file of loans,  *)
(* with the benchmark of its model, or an experiment over the outcomes of  *)
(* routed applications.  The two share no state; a history is of one of    *)
(* them.  Reports and benchmarks do not read each other: a history ends    *)
(* with the first of either (a bound).                                     *)
(***************************************************************************)
EXTENDS Benchmark

CONSTANTS Amounts, MinSampleSize, MaxOutcomes

ASSUME ExperimentAssumption ==
  /\ IsFiniteSet(Amounts) /\ Amounts \subseteq Nat /\ MinSampleSize \in Nat
  /\ None \notin {"PROMOTE", "ROLLBACK"}

VARIABLES outcomes, analysis, verdict

vars == <<pipelineVars, benchmark, outcomes, analysis, verdict>>

X == INSTANCE Experiment

(* The study of a history that is an experiment.                           *)
NoStudy == [path |-> "experiment"]

Init == PipelineInit(Studies \cup {NoStudy}) /\ BenchmarkInit /\ X!ExperimentInit

Next ==
  \/ /\ study # NoStudy
     /\ benchmark = None
     /\ (PipelineNext /\ UNCHANGED benchmark) \/ BenchmarkNext
     /\ UNCHANGED <<outcomes, analysis, verdict>>
  \/ /\ study = NoStudy
     /\ X!ExperimentNext
     /\ UNCHANGED <<pipelineVars, benchmark>>

Spec == Init /\ [][Next]_vars

PromotionPays == X!PromotionPays
=============================================================================
