------------------------------ MODULE RiskRules ------------------------------
(***************************************************************************)
(* The arithmetic of the decision engine: the rule sets, the heuristic     *)
(* score, the rules in their priority order, data reliability and the      *)
(* confidence of a decision.                                               *)
(*                                                                         *)
(* Numbers are integers: scores in hundredths of a point, DTI, stability,  *)
(* penalties, reliability and confidence in hundredths.                    *)
(***************************************************************************)
EXTENDS Integers, Sequences, FiniteSets

CONSTANT None   \* Python's None

Lower(a, b)  == IF a < b THEN a ELSE b
Higher(a, b) == IF a > b THEN a ELSE b
Clamp(x, lo, hi) == Lower(Higher(x, lo), hi)

Outages  == {"TIMEOUT", "SERVICE_DOWN"}
Failures == Outages \cup {"STALE_DATA", "PARTIAL_DATA", "FORMAT_ERROR",
                          "PAN_MISMATCH", "NO_RECORD"}
Decisions == {"APPROVE", "DECLINE", "NEEDS_REVIEW"}

(* None is neither data nor a failure.                                     *)
ASSUME NoneAssumption == None \notin Int \cup BOOLEAN \cup Failures

(* Two versions of one scorecard.                                          *)
Scorecard(version) ==
  [version |-> version,
   creditWeight |-> 40, stabilityWeight |-> 20, dtiWeight |-> 25, gstWeight |-> 15,
   dataQualityPenalty |-> 5, maxDataQualityPenalty |-> 15,
   approveHigh |-> 7000, approveModerate |-> 5500, decline |-> 3500,
   moderateMaxDti |-> 50, declineDti |-> 60]
RuleSetV1 == Scorecard("RULE_SET_V1")
RuleSetV2 == Scorecard("RULE_SET_V2")

DefaultCreditScore == 600
DefaultIncomeStability == 50

(* MUTANT of RiskScore: neither the components nor the sum are clamped.    *)
RiskScoreUnclamped(credit, stability, dti, gst, failures, rs) ==
  LET c   == IF credit = None THEN DefaultCreditScore ELSE credit
      s   == IF stability = None THEN DefaultIncomeStability ELSE stability
      pen == Lower(Len(failures) * rs.dataQualityPenalty, rs.maxDataQualityPenalty)
  IN  (c * rs.creditWeight + 9 * (s * rs.stabilityWeight + (100 - dti) * rs.dtiWeight
         + (IF gst = TRUE THEN 100 * rs.gstWeight ELSE 0) - 100 * pen)) \div 9

(* Missing data get a default, failures a capped penalty; the sum is in    *)
(* ninths of a hundredth, because a credit score counts per 900.           *)
RiskScore(credit, stability, dti, gst, failures, rs) ==
  LET c   == IF credit = None THEN DefaultCreditScore ELSE credit
      s   == IF stability = None THEN DefaultIncomeStability ELSE stability
      pen == Lower(Len(failures) * rs.dataQualityPenalty, rs.maxDataQualityPenalty)
      sum == Clamp(c, 0, 900) * rs.creditWeight
               + 9 * (Clamp(s, 0, 100) * rs.stabilityWeight
                        + Higher(0, 100 - dti) * rs.dtiWeight
                        + (IF gst = TRUE THEN 100 * rs.gstWeight ELSE 0)
                        - 100 * pen)
  IN  (2 * Clamp(sum, 0, 90000) + 9) \div 18

(* MUTANT of EffectiveScore: only what is known to comply or not is asked, *)
(* and the wrong one of the two is capped.                                 *)
EffectiveScoreUnknownOnly(score, gst, rs) ==
  IF gst = None THEN Lower(score, rs.approveModerate - 100) ELSE score

(* A business known not to comply is scored below the approval threshold.  *)
EffectiveScore(score, gst, rs) ==
  IF gst = FALSE THEN Lower(score, rs.approveModerate - 100) ELSE score

(* The first rule that matches decides.                                    *)
Evaluate(score, dti, failures, gst, rs) ==
  LET effective == EffectiveScore(score, gst, rs)
  IN  IF effective >= rs.approveHigh /\ failures = <<>> THEN "APPROVE"
      ELSE IF effective >= rs.approveModerate /\ dti < rs.moderateMaxDti THEN "APPROVE"
      ELSE IF effective < rs.decline \/ dti > rs.declineDti THEN "DECLINE"
      ELSE "NEEDS_REVIEW"

Penalty ==
  [f \in Failures |->
     CASE f \in {"TIMEOUT", "SERVICE_DOWN", "FORMAT_ERROR"} -> 30
       [] f \in {"STALE_DATA", "PARTIAL_DATA", "PAN_MISMATCH"} -> 20
       [] f = "NO_RECORD" -> 10]
FallbackCreditPenalty == 10

(* MUTANT of DataReliability: the penalty of the worst failure only.       *)
DataReliabilityWorst(failures, usedFallbackCredit) ==
  100 - (IF \E i \in DOMAIN failures : Penalty[failures[i]] = 30 THEN 30
         ELSE IF failures # <<>> THEN 20 ELSE 0)
      - (IF usedFallbackCredit THEN FallbackCreditPenalty ELSE 0)

(* MUTANT of DataReliability: a replaced report costs the replacement only.*)
DataReliabilityReplaced(failures, usedFallbackCredit) ==
  IF usedFallbackCredit THEN 100 - FallbackCreditPenalty
  ELSE IF failures = <<>> THEN 100 ELSE 60

(* MUTANT of DataReliability: an assumed credit score costs nothing more.  *)
DataReliabilityFreeFallback(failures, usedFallbackCredit) ==
  LET lost[i \in 0..Len(failures)] ==
        IF i = 0 THEN 0 ELSE lost[i - 1] + Penalty[failures[i]]
  IN  Clamp(100 - lost[Len(failures)], 0, 100)

(* A full house loses a penalty per failure, three providers at most.      *)
DataReliability(failures, usedFallbackCredit) ==
  LET lost[i \in 0..Len(failures)] ==
        IF i = 0 THEN IF usedFallbackCredit THEN FallbackCreditPenalty ELSE 0
                 ELSE lost[i - 1] + Penalty[failures[i]]
  IN  Clamp(100 - lost[Len(failures)], 0, 100)

(* MUTANT of BoundaryFactor: a refusal is surer the higher the score.      *)
BoundaryFactorReversed(score, decision) ==
  CASE decision = "APPROVE" -> IF score >= 8000 THEN 60 ELSE IF score >= 7000 THEN 70
                               ELSE IF score >= 5500 THEN 90 ELSE 100
    [] decision = "DECLINE" -> IF score <= 2000 THEN 75 ELSE IF score <= 3400 THEN 85 ELSE 100
    [] decision = "NEEDS_REVIEW" -> 50

(* How far from a boundary the raw score lies: the factor of each band.    *)
BoundaryFactor(score, decision) ==
  CASE decision = "APPROVE" -> IF score >= 8000 THEN 100 ELSE IF score >= 7000 THEN 90
                               ELSE IF score >= 5500 THEN 70 ELSE 60
    [] decision = "DECLINE" -> IF score <= 2000 THEN 100 ELSE IF score <= 3400 THEN 85 ELSE 75
    [] decision = "NEEDS_REVIEW" -> 50

(* The products of two hundredths that end in a half and whose double lies *)
(* below it: Python's round sends these down and the other halves up.      *)
HalvesBelow == {70 * 85, 50 * 85, 70 * 75, 30 * 75}

RoundedProduct(a, b) ==
  IF (a * b) \in HalvesBelow THEN (a * b) \div 100 ELSE (a * b + 50) \div 100

DecisionConfidence(score, decision, reliability) ==
  Clamp(RoundedProduct(reliability, BoundaryFactor(score, decision)), 0, 100)
=============================================================================
