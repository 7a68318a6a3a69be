--------------------------- MODULE DecisionEngine ---------------------------
(***************************************************************************)
(* One application through the decision engine: the three providers answer *)
(* or fail, compute_decision_from_env turns their results into a decision, *)
(* the task stores the audit rows of it, and GET /explanation reads them   *)
(* back.  The applicant's true figures are kept beside what the providers  *)
(* said of them, so that a decision on degraded evidence can be compared   *)
(* with the one that sound evidence would have given.                      *)
(***************************************************************************)
EXTENDS DecisionRules, DriftDetector

CONSTANTS
  Applicants,          \* records [credit, stability, gst, dti]: the true figures
  Buckets,             \* A/B buckets, 0..BucketCount-1
  BucketCount,         \* AB_BUCKET_COUNT
  Routings,            \* AB_TEST_ML_RATIO in buckets, or None: no A/B test
  DefaultProbability(_), \* the trained model: a feature row to percent
  Snapshot             \* the reference snapshot: of each feature the reference's values

ASSUME EngineAssumption ==
  /\ BucketCount \in Nat \ {0}
  /\ Buckets \subseteq 0..(BucketCount - 1)
  /\ Applicants \subseteq [credit : Int, stability : Int, gst : BOOLEAN, dti : Int]

VARIABLES
  applicant,   \* the true figures
  bucket,      \* _stable_bucket of the application id
  env,         \* [mlEnabled, ratio]: the worker's environment
  results,     \* None, or what the three services returned
  output,      \* None, or the DecisionOutput
  trail,       \* the audit rows, oldest first
  explanation  \* None, or what GET /explanation answered

vars == <<applicant, bucket, env, results, output, trail, explanation>>

Init ==
  /\ applicant \in Applicants
  /\ bucket \in Buckets
  /\ env \in [mlEnabled : BOOLEAN, ratio : Routings]
  /\ results = None
  /\ output = None
  /\ trail = <<>>
  /\ explanation = None

-----------------------------------------------------------------------------
(* The services                                                            *)

Failing == {Failed(f) : f \in Outages \cup {"FORMAT_ERROR", "NO_RECORD"}}

(* What a report may say, fresh or stale: the score, or nothing where the  *)
(* score is expected.  A stale one is a failure that keeps its data; an    *)
(* outage is a report of 600 points.                                       *)
CreditFetch(true) ==
  {Ok(said) : said \in {true, None}}
    \cup {[failure |-> "STALE_DATA", fallback |-> FALSE, data |-> said] : said \in {true, None}}
    \cup {IF r.failure \in Outages THEN [r EXCEPT !.data = DefaultCreditScore] ELSE r :
            r \in Failing}

(* Without income_stability the analysis is partial, unless it is empty or *)
(* not an object at all: that is a success.  A statement the analyzer      *)
(* could not read counts as replaced.                                      *)
BankAnalyze(true) ==
  {Ok(true), Ok(None), [failure |-> "PARTIAL_DATA", fallback |-> FALSE, data |-> None]}
    \cup {[r EXCEPT !.fallback = @ \/ r.failure = "FORMAT_ERROR"] : r \in Failing}

(* A PAN the register has under another name, or not at all, does not      *)
(* comply.  An answer without a verdict is a success.                      *)
GstVerify(true) ==
  {Ok(true), Ok(None), [failure |-> "PAN_MISMATCH", fallback |-> TRUE, data |-> FALSE]}
    \cup {IF r.failure = "NO_RECORD" THEN [r EXCEPT !.data = FALSE, !.fallback = TRUE] ELSE r :
            r \in Failing}

FetchRow(step, r) == [step |-> step, error |-> r.failure, fallback |-> r.fallback]

Fetch ==
  /\ results = None
  /\ \E c \in CreditFetch(applicant.credit), b \in BankAnalyze(applicant.stability),
        g \in GstVerify(applicant.gst) :
       /\ results' = [credit |-> c, bank |-> b, gst |-> g]
       /\ trail' = <<FetchRow("CREDIT_BUREAU_FETCH", c), FetchRow("BANK_ANALYZER_FETCH", b),
                     FetchRow("GST_VERIFIER_FETCH", g)>>
  /\ UNCHANGED <<applicant, bucket, env, output, explanation>>

-----------------------------------------------------------------------------
(* The model                                                               *)

(* No assignment without the test; with one, the bucket decides.           *)
AssignArm(b, ratio) ==
  IF ratio = None THEN None
  ELSE IF b < Clamp(ratio, 0, BucketCount) THEN "ml" ELSE "heuristic"

(* An assignment overrides ML_ENABLED in both directions.                  *)
MLRequested(e, arm) == IF arm = None THEN e.mlEnabled ELSE arm = "ml"

Grade(credit) ==
  IF credit >= 780 THEN "A" ELSE IF credit >= 720 THEN "B" ELSE IF credit >= 660 THEN "C"
  ELSE IF credit >= 600 THEN "D" ELSE "E"

(* Here the stand-in report of an outage is read like a real one.          *)
CreditScoreValue(credit) == IF credit.data = None THEN DefaultCreditScore ELSE credit.data

(* A partial analysis has the inflow but no income_stability.              *)
VerificationStatus(bank) ==
  IF bank.data # None THEN "Verified"
  ELSE IF bank.failure = "PARTIAL_DATA" THEN "Source Verified"
  ELSE "Not Verified"

(* Shares in percent.  What is missing is filled in: 600 points, average   *)
(* stability, no delinquency for a history that is not known.              *)
FeatureRow(res, dti) ==
  [grade        |-> Grade(CreditScoreValue(res.credit)),
   utilisation  |-> 100 - (IF res.bank.data \in {None, 0} THEN DefaultIncomeStability ELSE res.bank.data),
   verification |-> VerificationStatus(res.bank),
   dti          |-> dti,
   taxLien      |-> IF res.gst.data = FALSE THEN 100 ELSE 0,
   neverDelinquent |-> 100]

(* The model answers with a probability.                                   *)
ASSUME ModelAssumption ==
  \A a \in Applicants :
    \A c \in CreditFetch(a.credit), b \in BankAnalyze(a.stability), g \in GstVerify(a.gst) :
      DefaultProbability(FeatureRow([credit |-> c, bank |-> b, gst |-> g], a.dti)) \in 0..100

MLScore(mode, res, dti) ==
  LET row == FeatureRow(res, dti)
  IN  MLOutcome(mode, DefaultProbability(row), DetectDrift(row, Snapshot))

-----------------------------------------------------------------------------
(* The decision                                                            *)

(* The rows _store_processing_results adds for a decision.                 *)
DecisionRows(out) ==
  (IF out.ml = None THEN <<>>
   ELSE <<[step |-> "ML_SCORING", error |-> out.ml.error, fallback |-> out.ml.fallback]>>)
  \o (IF out.ml # None /\ out.ml.drift # {}
        THEN <<[step |-> "DRIFT_DETECTED", error |-> None, fallback |-> FALSE]>> ELSE <<>>)
  \o <<[step |-> "DECISION_CALCULATION", error |-> None, fallback |-> FALSE]>>
  \o (IF out.decision # "NEEDS_REVIEW" THEN <<>>
      ELSE <<[step |-> IF out.requiresManualReview THEN "MANUAL_REVIEW_OVERRIDE"
                       ELSE "MANUAL_REVIEW_ROUTING",
              error |-> None, fallback |-> out.requiresManualReview]>>)

(* A decision is not None.                                                 *)
ASSUME OutputAssumption ==
  \A a \in Applicants, arm \in {None, "ml", "heuristic"} :
    \A c \in CreditFetch(a.credit), b \in BankAnalyze(a.stability), g \in GstVerify(a.gst) :
      LET res == [credit |-> c, bank |-> b, gst |-> g]
      IN  \A ml \in {None} \cup {MLScore(mode, res, a.dti) : mode \in MLModes} :
            ComputeDecision(res, a.dti, ml, arm) # None

Decide ==
  /\ results # None
  /\ output = None
  /\ LET arm == AssignArm(bucket, env.ratio)
     IN  \E ml \in IF MLRequested(env, arm)
                     THEN {MLScore(mode, results, applicant.dti) : mode \in MLModes}
                     ELSE {None} :
           output' = ComputeDecision(results, applicant.dti, ml, arm)
  /\ trail' = trail \o DecisionRows(output')
  /\ UNCHANGED <<applicant, bucket, env, results, explanation>>

-----------------------------------------------------------------------------
(* GET /explanation                                                        *)

(* MUTANT of DegradedSteps: only what fell back is degraded.               *)
DegradedStepsFallback(rows) == {i \in DOMAIN rows : rows[i].fallback}

DegradedSteps(rows) == {i \in DOMAIN rows : rows[i].error # None \/ rows[i].fallback}

(* The features of a warning, in the order of the columns.                 *)
Column == [dti |-> 1, utilisation |-> 2, taxLien |-> 3, neverDelinquent |-> 4]

FirstThree(drift) ==
  LET named == drift \cap DOMAIN Column
  IN  {f \in named : Cardinality({g \in named : Column[g] < Column[f]}) < 3}

(* The template, and what it is filled with: a cause for each degraded row,*)
(* in the order of the rows.                                               *)
BuildExplanation(rows, out) ==
  LET degraded == DegradedSteps(rows)
  IN  [decision |-> out.decision,
       template |-> IF out.decision = "NEEDS_REVIEW" /\ out.requiresManualReview
                      THEN "INSUFFICIENT_RELIABLE_DATA"
                    ELSE IF degraded # {} THEN "DEGRADED_DATA_QUALITY"
                    ELSE "VERIFIED_DATA_SOURCES",
       causes   |-> [i \in degraded |->
                       [step   |-> rows[i].step,
                        status |-> IF rows[i].error = None THEN "fallback" ELSE rows[i].error]],
       drift    |-> IF \E i \in DOMAIN rows : rows[i].step = "DRIFT_DETECTED"
                      THEN FirstThree(out.ml.drift) ELSE {},
       ruleVersion |-> out.ruleVersion]

GetExplanation ==
  /\ output # None
  /\ explanation = None
  /\ explanation' = BuildExplanation(trail, output)
  /\ UNCHANGED <<applicant, bucket, env, results, output, trail>>

-----------------------------------------------------------------------------
(* GET /decision/{id} changes nothing: what it answers in a state.         *)

GetDecision ==
  IF output = None THEN [status |-> 202]
  ELSE [status |-> 200, decision |-> output.decision, confidence |-> output.confidence,
        dataReliability |-> output.reliability, riskScore |-> output.score,
        ruleVersion |-> output.ruleVersion, scoringStrategy |-> output.strategy,
        abTestArm |-> output.arm]

Next == Fetch \/ Decide \/ GetExplanation

Spec == Init /\ [][Next]_vars

-----------------------------------------------------------------------------
(* Properties                                                              *)

TypeOK ==
  /\ applicant \in Applicants /\ bucket \in Buckets
  /\ env \in [mlEnabled : BOOLEAN, ratio : Routings]
  /\ output # None =>
       /\ results # None
       /\ output.decision \in Decisions /\ output.rule \in Decisions
       /\ output.confidence \in 0..100 /\ output.reliability \in 0..100
       /\ output.score \in 0..10000
       /\ output.arm \in {None, "ml", "heuristic"}
  /\ explanation # None => output # None

Answered  == output # None
Automatic == Answered /\ output.decision # "NEEDS_REVIEW"
Lost(r)   == r.failure \in Outages \cup {"FORMAT_ERROR"}

(* With two of three providers out of reach, or unable to read what they   *)
(* were sent, nothing is decided automatically, whatever the score and     *)
(* whoever computed it.  (An answer of theirs that cannot be read is no    *)
(* failure to the code.)                                                   *)
OutagesAreReviewed ==
  Answered /\ (\E s, t \in DOMAIN results : s # t /\ Lost(results[s]) /\ Lost(results[t]))
    => output.decision = "NEEDS_REVIEW"

(* A better bureau score never makes the heuristic's decision worse, from  *)
(* DECLINE over NEEDS_REVIEW to APPROVE, although the confidence factor    *)
(* that may route a decision to review falls as well as rises with it.     *)
BetterCreditNeverHurts ==
  Answered /\ output.strategy = "heuristic" /\ results.credit = Ok(applicant.credit) =>
    LET Rank(d) == CASE d = "DECLINE" -> 0 [] d = "NEEDS_REVIEW" -> 1 [] d = "APPROVE" -> 2
    IN  \A c \in {a.credit : a \in Applicants} : c >= applicant.credit =>
          Rank(ComputeDecision([results EXCEPT !.credit = Ok(c)], applicant.dti, None, None).decision)
            >= Rank(output.decision)

(* Without the credit bureau an application is decided automatically only  *)
(* at the far ends of the score, where the assumed 600 points do not       *)
(* matter: the confidence product meets the threshold there exactly.       *)
FallbackOnlyAtTheExtremes ==
  Automatic /\ UsedFallbackCredit(results) =>
    \/ output.decision = "APPROVE" /\ output.score >= 8000
    \/ output.decision = "DECLINE" /\ output.score <= 2000

(* Losing the bureau or the bank statement is no way to a loan: whoever is *)
(* approved by the heuristic without one of them would have been approved  *)
(* with the true figures.  (Default figures and the failure penalty are    *)
(* weighed against each other here, which is why it is said of failures    *)
(* only: a success without its figure has the default and no penalty.)     *)
OutageNeverHelps ==
  Answered /\ output.strategy = "heuristic" /\ output.decision = "APPROVE" =>
    LET sound == [results EXCEPT
          !.credit = IF results.credit.failure \in Outages THEN Ok(applicant.credit) ELSE @,
          !.bank   = IF Lost(results.bank) THEN Ok(applicant.stability) ELSE @]
    IN  ComputeDecision(sound, applicant.dti, None, None).decision = "APPROVE"

(* The GST gate: a business that does not comply is never approved against *)
(* the register's word.  The register said nothing then, be it that the    *)
(* answer was lost or that it came without a verdict, which nothing        *)
(* downstream tells from a compliant one; and its silence counted for no   *)
(* more than compliance would: with that on record the same figures and    *)
(* the same model approve too.                                             *)
ApprovalNeedsCompliance ==
  Answered /\ output.decision = "APPROVE" /\ ~applicant.gst =>
    LET complying == [results EXCEPT !.gst = Ok(TRUE)]
    IN  /\ results.gst.data = None
        /\ ComputeDecision(complying, applicant.dti, output.ml, output.arm).decision = "APPROVE"

(* What a client is told of a decision names every provider that failed    *)
(* and every fallback of the model, and speaks of verified sources only    *)
(* when there was none.  (A success without its figure is no failure, and  *)
(* the client is not told of it.)  GET /decision agrees: the decision and  *)
(* the rules are the same, and its reliability is less than full exactly   *)
(* when a provider is named.  A feature the drift warning names lies       *)
(* beyond all of the four values the shipped snapshot has of it.           *)
ExplanationNamesFailures ==
  explanation # None =>
    LET Told(step) == \E i \in DOMAIN explanation.causes : explanation.causes[i].step = step
    IN  /\ results.credit.failure # None <=> Told("CREDIT_BUREAU_FETCH")
        /\ results.bank.failure # None <=> Told("BANK_ANALYZER_FETCH")
        /\ results.gst.failure # None <=> Told("GST_VERIFIER_FETCH")
        /\ output.ml # None /\ output.ml.fallback <=> Told("ML_SCORING")
        /\ DOMAIN explanation.causes # {} => explanation.template # "VERIFIED_DATA_SOURCES"
        /\ GetDecision.decision = explanation.decision
        /\ GetDecision.ruleVersion = explanation.ruleVersion
        /\ GetDecision.dataReliability < 100 <=>
             \E step \in {"CREDIT_BUREAU_FETCH", "BANK_ANALYZER_FETCH", "GST_VERIFIER_FETCH"} : Told(step)
        /\ \A f \in explanation.drift :
             LET figure == FeatureRow(results, applicant.dti)[f]
             IN  \/ \A i \in DOMAIN Snapshot[f] : figure < Snapshot[f][i]
                 \/ \A i \in DOMAIN Snapshot[f] : figure > Snapshot[f][i]
=============================================================================
