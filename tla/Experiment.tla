------------------------------ MODULE Experiment ------------------------------
(***************************************************************************)
(* Outcomes of applications that an A/B test routed, what the two reports  *)
(* on them say (summarize_outcomes and ExperimentFramework.analyze), and   *)
(* the recommendation compare_arms draws from the second one.              *)
(*                                                                         *)
(* Outcomes are kept as how many there are of each kind.  Rates and means  *)
(* are pairs; profits are in hundredths, 12 for a loan that is repaid and  *)
(* -65 for one that defaults, times its amount.  Percentiles of resampled  *)
(* means and p-values are any the data leave open.                         *)
(***************************************************************************)
EXTENDS Integers, FiniteSets, FiniteSetsExt

CONSTANTS
  None, Raised,
  Amounts,        \* loan amounts
  MinSampleSize,  \* min_sample_size of the experiment
  MaxOutcomes     \* bound: outcomes collected

VARIABLES
  outcomes,   \* how many outcomes there are of each kind
  analysis,   \* None, Raised, or the ExperimentResult
  verdict     \* None, or the recommendation

experimentVars == <<outcomes, analysis, verdict>>

Arms == {"heuristic", "ml"}

(* What was not approved is of one kind, whatever the decision, and of one *)
(* amount: nothing counts it.                                              *)
Kinds ==
  {k \in [arm : Arms, decision : {"APPROVE", "DECLINE"}, defaulted : BOOLEAN, amount : Amounts] :
     k.decision = "APPROVE" \/ k.amount = Min(Amounts)}

ExperimentInit ==
  /\ outcomes = [k \in Kinds |-> 0]
  /\ analysis = None /\ verdict = None

(* The sum of f over the outcomes of some kinds.                           *)
Total(f, kinds) ==
  LET sum[s \in SUBSET Kinds] ==
        IF s = {} THEN 0
        ELSE LET k == CHOOSE k \in s : TRUE IN outcomes[k] * f[k] + sum[s \ {k}]
  IN  sum[kinds]

Count(kinds) == Total([k \in Kinds |-> 1], kinds)
Of(arm) == {k \in Kinds : k.arm = arm}
Present(arm) == {k \in Of(arm) : outcomes[k] > 0}
Approvals(arm) == {k \in Of(arm) : k.decision = "APPROVE"}
Defaults(arm) == {k \in Approvals(arm) : k.defaulted}
Rate(n, d) == IF d = 0 THEN <<0, 1>> ELSE <<n, d>>

(* The difference of two rates, over the product of their denominators.    *)
Minus(a, b) == a[1] * b[2] - b[1] * a[2]

(* A loan that was not made neither earns nor loses.                       *)
SimulatedProfit(k) == k.amount * (IF k.defaulted THEN -65 ELSE 12)
ProfitOf(k) == IF k.decision = "APPROVE" THEN SimulatedProfit(k) ELSE 0

Collect ==
  /\ analysis = None /\ Count(Kinds) < MaxOutcomes
  /\ \E k \in Kinds : outcomes' = [outcomes EXCEPT ![k] = @ + 1]
  /\ UNCHANGED <<analysis, verdict>>

-----------------------------------------------------------------------------
(* The A/B report                                                          *)

SummarizeArm(arm) ==
  [rows     |-> Count(Of(arm)),
   approval |-> Rate(Count(Approvals(arm)), Count(Of(arm))),
   default  |-> Rate(Count(Defaults(arm)), Count(Approvals(arm))),
   profitPerApplication |-> Rate(Total([k \in Kinds |-> SimulatedProfit(k)], Approvals(arm)), Count(Of(arm)))]

SummarizeOutcomes ==
  LET h == SummarizeArm("heuristic")
      m == SummarizeArm("ml")
  IN  [approvalDelta |-> Minus(m.approval, h.approval), defaultDelta |-> Minus(m.default, h.default),
       profitPerApplication |-> [heuristic |-> h.profitPerApplication, ml |-> m.profitPerApplication]]

-----------------------------------------------------------------------------
(* The experiment                                                          *)

ComputeMetrics(arm) ==
  LET n == Count(Of(arm))
  IN  [profit   |-> Rate(Total([k \in Kinds |-> ProfitOf(k)], Of(arm)), n),
       default  |-> Rate(Count(Defaults(arm)), Count(Approvals(arm))),
       approval |-> Rate(Count(Approvals(arm)), n)]

Profits(arm) == {ProfitOf(k) : k \in Present(arm)}
Varies(arm) == Cardinality(Profits(arm)) > 1

(* Where the confidence interval of the difference may lie, from the       *)
(* extremes any resampling can reach.                                      *)
BootstrapCI ==
  IF Present("heuristic") = {} \/ Present("ml") = {} THEN {"spans"}
  ELSE LET most  == Max(Profits("ml")) - Min(Profits("heuristic"))
           least == Min(Profits("ml")) - Max(Profits("heuristic"))
       IN  (IF most > 0 THEN {"above"} ELSE {}) \cup (IF least < 0 THEN {"below"} ELSE {})
             \cup (IF least <= 0 /\ most >= 0 THEN {"spans"} ELSE {})

(* The tail of Student's distribution may lie on either side of 0.05.      *)
ApproximateTPvalue == BOOLEAN

(* Nothing is significant without variance, and the degrees of freedom     *)
(* cannot be computed with a single outcome in one arm and variance in the *)
(* other.                                                                  *)
WelchTtest ==
  IF Present("heuristic") = {} \/ Present("ml") = {} THEN {FALSE}
  ELSE IF ~Varies("heuristic") /\ ~Varies("ml") THEN {FALSE}
  ELSE IF 1 \in {Count(Of(a)) : a \in Arms} THEN {}
  ELSE ApproximateTPvalue

Analyze ==
  /\ analysis = None
  /\ LET control   == ComputeMetrics("heuristic")
         treatment == ComputeMetrics("ml")
     IN  IF WelchTtest = {} THEN analysis' = Raised
         ELSE \E ci \in BootstrapCI, significant \in WelchTtest :
                analysis' = [profitDelta   |-> Minus(treatment.profit, control.profit),
                             defaultDelta  |-> Minus(treatment.default, control.default),
                             approvalDelta |-> Minus(treatment.approval, control.approval),
                             ci |-> ci, significant |-> significant,
                             sampleSize |-> [a \in Arms |-> Count(Of(a))]]
  /\ UNCHANGED <<outcomes, verdict>>

(* MUTANT of Recommendation: one arm that is large enough will do, and the *)
(* interval alone decides.                                                 *)
RecommendationFromInterval(a) ==
  IF \A arm \in Arms : a.sampleSize[arm] < MinSampleSize THEN "CONTINUE"
  ELSE IF a.significant /\ a.ci = "above" THEN "PROMOTE"
  ELSE IF a.significant /\ a.ci = "below" THEN "ROLLBACK" ELSE "CONTINUE"

Recommendation(a) ==
  IF \E arm \in Arms : a.sampleSize[arm] < MinSampleSize THEN "CONTINUE"
  ELSE IF a.significant /\ a.ci = "above" /\ a.profitDelta > 0 THEN "PROMOTE"
  ELSE IF a.significant /\ a.ci = "below" /\ a.profitDelta < 0 THEN "ROLLBACK" ELSE "CONTINUE"

CompareArms ==
  /\ analysis \notin {None, Raised} /\ verdict = None
  /\ verdict' = Recommendation(analysis)
  /\ UNCHANGED <<outcomes, analysis>>

ExperimentNext == Collect \/ Analyze \/ CompareArms

-----------------------------------------------------------------------------
(* Properties                                                              *)

(* The A/B report and the experiment's analysis, written twice over the    *)
(* same outcomes, agree on approvals and defaults, and the challenger is   *)
(* promoted (or rolled back) only where the A/B report too shows it to     *)
(* earn more (or less) per application, on enough outcomes of both arms.   *)
PromotionPays ==
  analysis \notin {None, Raised} =>
    LET report == SummarizeOutcomes
        gain   == Minus(report.profitPerApplication.ml, report.profitPerApplication.heuristic)
    IN  /\ report.approvalDelta = analysis.approvalDelta
        /\ report.defaultDelta = analysis.defaultDelta
        /\ verdict = "PROMOTE" => gain > 0
        /\ verdict = "ROLLBACK" => gain < 0
        /\ verdict \in {"PROMOTE", "ROLLBACK"} => \A a \in Arms : Count(Of(a)) >= MinSampleSize
=============================================================================
