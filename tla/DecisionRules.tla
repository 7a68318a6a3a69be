---------------------------- MODULE DecisionRules ----------------------------
(***************************************************************************)
(* From what the three services returned to a decision: the reading of     *)
(* the results, the guardrails on a model's score, and compute_decision.   *)
(*                                                                         *)
(* A result is [failure, fallback, data]: None or the failure type,        *)
(* whether the data stand in for a provider's, and the one figure of them  *)
(* that is decided on.                                                     *)
(***************************************************************************)
EXTENDS RiskRules

CONSTANT ConfidenceThreshold   \* CONFIDENCE_THRESHOLD in hundredths

ASSUME RulesAssumption == ConfidenceThreshold \in 0..100

(* What call() ends with: a success or a failure.  Any answer below 400 is *)
(* a success; the figure of one is None when its body cannot be read or    *)
(* does not have it.  Fallback is used when the failure was one that is    *)
(* retried.                                                                *)
Ok(data)  == [failure |-> None, fallback |-> FALSE, data |-> data]
Failed(f) == [failure |-> f, fallback |-> f \in Outages, data |-> None]

UsedFallbackCredit(res) == res.credit.fallback /\ res.credit.failure \in Outages
CreditScore(res) == IF UsedFallbackCredit(res) THEN None ELSE res.credit.data
GstCompliant(res) ==
  IF res.gst.data # None THEN res.gst.data
  ELSE IF res.gst.failure \in {"PAN_MISMATCH", "NO_RECORD"} THEN FALSE ELSE None
OneFailure(f) == IF f = None THEN <<>> ELSE <<f>>
FailureTypes(res) ==
  OneFailure(res.credit.failure) \o OneFailure(res.bank.failure) \o OneFailure(res.gst.failure)

-----------------------------------------------------------------------------
(* Scoring by the model                                                    *)

(* The outcome of a scoring attempt; used is false when a guardrail threw  *)
(* it back on the heuristic.                                               *)
Fallback(reason, error, p) ==
  [used |-> FALSE, fallback |-> TRUE, reason |-> reason, error |-> error, p |-> p,
   score |-> None, drift |-> {}]

(* What may happen to a requested score: there is no model, the client or  *)
(* an operator forces a failure, or the model answers, with the reference  *)
(* snapshot at hand or not.                                                *)
MLModes == {"MODEL_UNAVAILABLE", "TIMEOUT", "FORCE_LOW_CONFIDENCE", "SCORED",
            "SCORED_WITHOUT_SNAPSHOT"}

(* A default probability of p percent is used when it is far enough from a *)
(* half; drift is what the detector says of the features.                  *)
MLOutcome(mode, p, drift) ==
  CASE mode \in {"MODEL_UNAVAILABLE", "TIMEOUT"} -> Fallback(mode, mode, None)
    [] mode = "FORCE_LOW_CONFIDENCE" -> Fallback(mode, None, 40)
    [] mode \in {"SCORED", "SCORED_WITHOUT_SNAPSHOT"} ->
         [(IF Higher(p, 100 - p) < ConfidenceThreshold
             THEN Fallback("LOW_CONFIDENCE", None, p)
             ELSE [used |-> TRUE, fallback |-> FALSE, reason |-> None, error |-> None,
                   p |-> p, score |-> (100 - p) * 100, drift |-> {}])
          EXCEPT !.drift = IF mode = "SCORED" THEN drift ELSE {}]

-----------------------------------------------------------------------------
(* compute_decision                                                        *)

(* The decision on the results res of an applicant with that DTI; ml is a  *)
(* scoring outcome, or None when none was requested.                       *)
ComputeDecision(res, dti, ml, arm) ==
  LET used        == ml # None /\ ml.used
      failures    == FailureTypes(res)
      rs          == IF used THEN RuleSetV2 ELSE RuleSetV1
      score       == IF used THEN ml.score
                     ELSE RiskScore(CreditScore(res), res.bank.data, dti, GstCompliant(res),
                                    failures, RuleSetV1)
      decided     == Evaluate(score, dti, failures, GstCompliant(res), rs)
      reliability == DataReliability(failures, UsedFallbackCredit(res))
      confidence  == DecisionConfidence(score, decided, reliability)
      review      == confidence < ConfidenceThreshold
  IN  [decision |-> IF review THEN "NEEDS_REVIEW" ELSE decided,
       rule |-> decided, confidence |-> confidence, reliability |-> reliability,
       score |-> score, ruleVersion |-> rs.version, requiresManualReview |-> review,
       strategy |-> IF used THEN "ml" ELSE "heuristic", ml |-> ml, arm |-> arm]
=============================================================================
