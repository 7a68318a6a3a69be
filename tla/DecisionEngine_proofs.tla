------------------------ MODULE DecisionEngine_proofs ------------------------
(***************************************************************************)
(* Theorems about the decision engine, for any applicants, any model, any  *)
(* buckets and routing, and for every confidence threshold that a theorem  *)
(* does not exclude.                                                       *)
(***************************************************************************)
EXTENDS DecisionEngine, FiniteSetTheorems, TLAPS

-----------------------------------------------------------------------------
(* The arithmetic                                                          *)

(* What a failure costs, and no failure nothing.                           *)
Cost(f) == IF f = None THEN 0 ELSE Penalty[f]

(* What each failure costs.                                                *)
LEMMA Penalties ==
  /\ \A f \in Failures : Penalty[f] \in {10, 20, 30}
  /\ \A f \in Outages \cup {"FORMAT_ERROR"} : f \in Failures /\ Penalty[f] = 30
BY DEF Penalty, Failures, Outages

(* Costs are tens up to 30; only no failure costs nothing.                 *)
LEMMA Costs ==
  /\ \A f \in Failures \cup {None} : Cost(f) \in {0, 10, 20, 30} /\ (Cost(f) = 0 <=> f = None)
  /\ \A f \in Outages \cup {"FORMAT_ERROR"} : f # None /\ Cost(f) = 30
BY Penalties, NoneAssumption DEF Cost

(* A concatenation is a sequence, and as long as its parts together.       *)
LEMMA Joined ==
  ASSUME NEW S, NEW s \in Seq(S), NEW t \in Seq(S)
  PROVE  s \o t \in Seq(S) /\ Len(s \o t) = Len(s) + Len(t)
OBVIOUS

(* The failures of three results, in their order: how many, and of what.   *)
LEMMA ThreeFailures ==
  ASSUME NEW res, res.credit.failure \in Failures \cup {None},
         res.bank.failure \in Failures \cup {None}, res.gst.failure \in Failures \cup {None}
  PROVE  /\ FailureTypes(res) \in Seq(Failures) /\ Len(FailureTypes(res)) \in 0..3
         /\ Len(FailureTypes(res)) = (IF res.credit.failure = None THEN 0 ELSE 1)
                                      + (IF res.bank.failure = None THEN 0 ELSE 1)
                                      + (IF res.gst.failure = None THEN 0 ELSE 1)
         /\ FailureTypes(res) = <<>> <=> Len(FailureTypes(res)) = 0
<1>. DEFINE a == OneFailure(res.credit.failure)
            b == OneFailure(res.bank.failure)
            c == OneFailure(res.gst.failure)
<1>1. \A f \in Failures \cup {None} :
        OneFailure(f) \in Seq(Failures) /\ Len(OneFailure(f)) = (IF f = None THEN 0 ELSE 1)
  BY DEF OneFailure
<1>2. FailureTypes(res) = (a \o b) \o c
  BY DEF FailureTypes
<1>3. /\ a \in Seq(Failures) /\ b \in Seq(Failures) /\ c \in Seq(Failures)
      /\ Len(a) = (IF res.credit.failure = None THEN 0 ELSE 1)
      /\ Len(b) = (IF res.bank.failure = None THEN 0 ELSE 1)
      /\ Len(c) = (IF res.gst.failure = None THEN 0 ELSE 1)
  BY <1>1
<1>. HIDE DEF a, b, c
<1>4. a \o b \in Seq(Failures) /\ Len(a \o b) = Len(a) + Len(b)
  BY <1>3, Joined
<1>. DEFINE ab == a \o b
<1>. HIDE DEF ab
<1>5. ab \o c \in Seq(Failures) /\ Len(ab \o c) = Len(ab) + Len(c)
  BY <1>3, <1>4, Joined DEF ab
<1>6. FailureTypes(res) = ab \o c /\ Len(ab) = Len(a) + Len(b)
  BY <1>2, <1>4 DEF ab
<1>. QED BY <1>3, <1>5, <1>6, SMTT(60)

(* The losses added up, as DataReliability does.                           *)
Losses(failures, usedFallbackCredit) ==
  LET lost[i \in 0..Len(failures)] ==
        IF i = 0 THEN IF usedFallbackCredit THEN FallbackCreditPenalty ELSE 0
                 ELSE lost[i - 1] + Penalty[failures[i]]
  IN  lost

(* What is lost before any failure is counted.                             *)
Base(usedFallbackCredit) == IF usedFallbackCredit THEN FallbackCreditPenalty ELSE 0

(* The recursion unfolded for the three providers there are.               *)
LEMMA LossesOfThree ==
  ASSUME NEW failures \in Seq(Failures), Len(failures) \in 0..3, NEW used
  PROVE  \A i \in 0..Len(failures) :
           Losses(failures, used)[i] =
             Base(used) + (IF i >= 1 THEN Penalty[failures[1]] ELSE 0)
                        + (IF i >= 2 THEN Penalty[failures[2]] ELSE 0)
                        + (IF i >= 3 THEN Penalty[failures[3]] ELSE 0)
<1>. DEFINE n == Len(failures)
            IsSum(f) == f = [i \in 0..n |-> IF i = 0 THEN Base(used)
                                            ELSE f[i - 1] + Penalty[failures[i]]]
            w == [i \in 0..n |-> Base(used) + (IF i >= 1 THEN Penalty[failures[1]] ELSE 0)
                                            + (IF i >= 2 THEN Penalty[failures[2]] ELSE 0)
                                            + (IF i >= 3 THEN Penalty[failures[3]] ELSE 0)]
<1>0. /\ Base(used) \in Int
      /\ \A i \in 1..n : Penalty[failures[i]] \in Int
  BY Penalties DEF Base, FallbackCreditPenalty
<1>1. IsSum(w)
  <2>1. ASSUME NEW i \in 0..n
        PROVE  w[i] = IF i = 0 THEN Base(used) ELSE w[i - 1] + Penalty[failures[i]]
    <3>1. CASE i = 0
      BY <1>0, <3>1
    <3>2. CASE i = 1
      BY <1>0, <3>2
    <3>3. CASE i = 2
      BY <1>0, <3>3
    <3>4. CASE i = 3
      BY <1>0, <3>4
    <3>. QED BY <3>1, <3>2, <3>3, <3>4
  <2>. QED BY <2>1
<1>2. Losses(failures, used) = CHOOSE f : IsSum(f)
  BY DEF Losses, Base
<1>. HIDE DEF w
<1>3. IsSum(CHOOSE f : IsSum(f))
  BY <1>1
<1>4. IsSum(Losses(failures, used))
  BY <1>2, <1>3
<1>5. \A i \in 0..n : Losses(failures, used)[i] =
        IF i = 0 THEN Base(used) ELSE Losses(failures, used)[i - 1] + Penalty[failures[i]]
  BY <1>4
<1>. DEFINE s == Losses(failures, used)
<1>. HIDE DEF s
<1>6. n \in 0..3 /\ 0 \in 0..n
  OBVIOUS
<1>7. s[0] = Base(used)
  BY <1>5, <1>6 DEF s
<1>8. n >= 1 => s[1] = s[0] + Penalty[failures[1]]
  BY <1>5 DEF s
<1>9. n >= 2 => s[2] = s[1] + Penalty[failures[2]]
  BY <1>5 DEF s
<1>10. n >= 3 => s[3] = s[2] + Penalty[failures[3]]
  BY <1>5 DEF s
<1>11. ASSUME NEW i \in 0..n
       PROVE  s[i] = Base(used) + (IF i >= 1 THEN Penalty[failures[1]] ELSE 0)
                                + (IF i >= 2 THEN Penalty[failures[2]] ELSE 0)
                                + (IF i >= 3 THEN Penalty[failures[3]] ELSE 0)
  <2>1. i = 0 \/ i = 1 \/ i = 2 \/ i = 3
    <3>1. PICK m \in {0, 1, 2, 3} : m = n
      BY <1>6
    <3>2. i \in 0..m
      BY <3>1
    <3>. QED BY <3>2
  <2>2. i <= n
    BY <1>6
  <2>. QED BY <1>0, <1>7, <1>8, <1>9, <1>10, <2>1, <2>2, SMTT(60)
<1>. QED BY <1>11 DEF s

(* Reliability is what the three results and a replaced report leave of    *)
(* 100.                                                                    *)
LEMMA Reliability ==
  ASSUME NEW res, res.credit.failure \in Failures \cup {None},
         res.bank.failure \in Failures \cup {None}, res.gst.failure \in Failures \cup {None},
         NEW used
  PROVE  DataReliability(FailureTypes(res), used) =
           Clamp(100 - (Base(used) + Cost(res.credit.failure) + Cost(res.bank.failure)
                          + Cost(res.gst.failure)), 0, 100)
<1>. DEFINE fs == FailureTypes(res)
            x == res.credit.failure
            y == res.bank.failure
            z == res.gst.failure
<1>1. fs \in Seq(Failures) /\ Len(fs) \in 0..3
  BY ThreeFailures
<1>2. DataReliability(fs, used) = Clamp(100 - Losses(fs, used)[Len(fs)], 0, 100)
  BY DEF DataReliability, Losses
<1>3. Losses(fs, used)[Len(fs)] =
        Base(used) + (IF Len(fs) >= 1 THEN Penalty[fs[1]] ELSE 0)
                   + (IF Len(fs) >= 2 THEN Penalty[fs[2]] ELSE 0)
                   + (IF Len(fs) >= 3 THEN Penalty[fs[3]] ELSE 0)
  BY <1>1, LossesOfThree, SMTT(60)
<1>4. Base(used) \in Int /\ \A f \in Failures : Penalty[f] \in Int
  BY Penalties DEF Base, FallbackCreditPenalty
<1>5. (IF Len(fs) >= 1 THEN Penalty[fs[1]] ELSE 0) + (IF Len(fs) >= 2 THEN Penalty[fs[2]] ELSE 0)
        + (IF Len(fs) >= 3 THEN Penalty[fs[3]] ELSE 0) = Cost(x) + Cost(y) + Cost(z)
  <2>. USE <1>4 DEF FailureTypes, OneFailure, Cost
  <2>1. CASE x = None /\ y = None /\ z = None
    BY <2>1
  <2>2. CASE x # None /\ y = None /\ z = None
    BY <2>2
  <2>3. CASE x = None /\ y # None /\ z = None
    BY <2>3
  <2>4. CASE x = None /\ y = None /\ z # None
    BY <2>4
  <2>5. CASE x # None /\ y # None /\ z = None
    BY <2>5
  <2>6. CASE x # None /\ y = None /\ z # None
    BY <2>6
  <2>7. CASE x = None /\ y # None /\ z # None
    BY <2>7
  <2>8. CASE x # None /\ y # None /\ z # None
    BY <2>8
  <2>. QED BY <2>1, <2>2, <2>3, <2>4, <2>5, <2>6, <2>7, <2>8
<1>6. Cost(x) \in Int /\ Cost(y) \in Int /\ Cost(z) \in Int
  BY Costs
<1>. DEFINE p1 == IF Len(fs) >= 1 THEN Penalty[fs[1]] ELSE 0
            p2 == IF Len(fs) >= 2 THEN Penalty[fs[2]] ELSE 0
            p3 == IF Len(fs) >= 3 THEN Penalty[fs[3]] ELSE 0
<1>7. p1 \in Int /\ p2 \in Int /\ p3 \in Int
  BY <1>1, <1>4
<1>. HIDE DEF p1, p2, p3
<1>8. Losses(fs, used)[Len(fs)] = Base(used) + p1 + p2 + p3 /\ p1 + p2 + p3 = Cost(x) + Cost(y) + Cost(z)
  BY <1>3, <1>5 DEF p1, p2, p3
<1>9. Losses(fs, used)[Len(fs)] = Base(used) + Cost(x) + Cost(y) + Cost(z)
  BY <1>4, <1>6, <1>7, <1>8, SMTT(60)
<1>. QED BY <1>2, <1>9

(* The factor of each band, and the rounded products.                      *)
LEMMA Factors ==
  ASSUME NEW score
  PROVE  /\ BoundaryFactor(score, "APPROVE") =
              IF score >= 8000 THEN 100 ELSE IF score >= 7000 THEN 90
              ELSE IF score >= 5500 THEN 70 ELSE 60
         /\ BoundaryFactor(score, "DECLINE") =
              IF score <= 2000 THEN 100 ELSE IF score <= 3400 THEN 85 ELSE 75
         /\ BoundaryFactor(score, "NEEDS_REVIEW") = 50
BY DEF BoundaryFactor

(* A factor leaves at most the reliability it is applied to.               *)
LEMMA ProductBound ==
  ASSUME NEW r \in 0..100, NEW b \in {50, 60, 70, 75, 85, 90, 100}
  PROVE  RoundedProduct(r, b) \in 0..r
BY SMT DEF RoundedProduct, HalvesBelow

(* What a factor leaves of a reliability.                                  *)
LEMMA Products ==
  ASSUME NEW r \in 0..100
  PROVE  /\ \A b \in {50, 60, 70, 75, 85, 90, 100} : RoundedProduct(r, b) \in 0..r
         /\ RoundedProduct(r, 100) = r
         /\ RoundedProduct(r, 60) <= RoundedProduct(r, 70)
         /\ RoundedProduct(r, 70) <= RoundedProduct(r, 90)
         /\ RoundedProduct(r, 90) <= RoundedProduct(r, 100)
         /\ RoundedProduct(r, 75) <= RoundedProduct(r, 85)
         /\ RoundedProduct(r, 85) <= RoundedProduct(r, 100)
         /\ r <= 60 => \A b \in {50, 60, 70, 75, 85, 90} : RoundedProduct(r, b) <= 54
BY DEF RoundedProduct, HalvesBelow

(* The larger factor, the larger the product.                              *)
LEMMA ApprovingProducts ==
  ASSUME NEW r \in 0..100, NEW f \in {60, 70, 90, 100}, NEW g \in {60, 70, 90, 100}, f <= g
  PROVE  RoundedProduct(r, f) <= RoundedProduct(r, g)
BY SMT DEF RoundedProduct, HalvesBelow

(* Among the factors of a refusal too.                                     *)
LEMMA DecliningProducts ==
  ASSUME NEW r \in 0..100, NEW f \in {75, 85, 100}, NEW g \in {75, 85, 100}, f <= g
  PROVE  RoundedProduct(r, f) <= RoundedProduct(r, g)
BY SMT DEF RoundedProduct, HalvesBelow

-----------------------------------------------------------------------------
(* What the services return                                                *)

(* The stand-in for a bureau score is a score.                             *)
LEMMA StandIn == DefaultCreditScore \in Int
BY DEF DefaultCreditScore

(* A bureau report has the score or none, an outage the stand-in; only     *)
(* outages are replaced.                                                   *)
LEMMA CreditResults ==
  ASSUME NEW true \in Int, NEW r \in CreditFetch(true)
  PROVE  /\ r.failure \in Failures \cup {None} /\ r.data \in Int \cup {None}
         /\ r.fallback <=> r.failure \in Outages
<1>1. CASE r = Ok(true) \/ r = Ok(None)
  BY <1>1, NoneAssumption DEF Ok, Failures, Outages
<1>2. CASE \/ r = [failure |-> "STALE_DATA", fallback |-> FALSE, data |-> true]
           \/ r = [failure |-> "STALE_DATA", fallback |-> FALSE, data |-> None]
  BY <1>2, NoneAssumption DEF Failures, Outages
<1>3. ASSUME NEW f \in Outages \cup {"FORMAT_ERROR", "NO_RECORD"},
             r = Failed(f) \/ r = [Failed(f) EXCEPT !.data = DefaultCreditScore]
      PROVE  /\ r.failure = f /\ r.data \in Int \cup {None}
             /\ r.fallback <=> r.failure \in Outages
  <2>1. CASE r = Failed(f)
    <3>1. r.failure = f /\ r.data = None
      BY <2>1 DEF Failed
    <3>2. r.fallback = (f \in Outages)
      BY <2>1, Zenon DEF Failed
    <3>. QED BY <3>1, <3>2
  <2>2. CASE r = [Failed(f) EXCEPT !.data = DefaultCreditScore]
    <3>1. r.failure = f /\ r.data = DefaultCreditScore
      BY <2>2 DEF Failed
    <3>2. r.fallback = Failed(f).fallback
      BY <2>2 DEF Failed
    <3>3. r.fallback = (f \in Outages)
      BY <3>2, Zenon DEF Failed
    <3>4. DefaultCreditScore \in Int
      BY StandIn
    <3>5. r.fallback <=> r.failure \in Outages
      BY <3>1, <3>3
    <3>6. r.data \in Int \cup {None}
      BY <3>1, <3>4, Zenon
    <3>. QED BY <3>1, <3>5, <3>6, Zenon
  <2>. QED BY <1>3, <2>1, <2>2, Zenon
<1>4. \A f \in Outages \cup {"FORMAT_ERROR", "NO_RECORD"} :
        f \in Failures /\ f # None /\ Failed(f).failure = f
  BY NoneAssumption DEF Failures, Outages, Failed
<1>5. CASE \E q \in Failing : r = IF q.failure \in Outages THEN [q EXCEPT !.data = DefaultCreditScore] ELSE q
  <2>1. PICK f \in Outages \cup {"FORMAT_ERROR", "NO_RECORD"} :
          r = IF f \in Outages THEN [Failed(f) EXCEPT !.data = DefaultCreditScore] ELSE Failed(f)
    BY <1>4, <1>5 DEF Failing
  <2>. QED BY <1>3, <1>4, <2>1
<1>. QED BY <1>1, <1>2, <1>5 DEF CreditFetch

(* A statement that was lost has no figure.                                *)
LEMMA BankResults ==
  ASSUME NEW true \in Int, NEW r \in BankAnalyze(true)
  PROVE  /\ r.failure \in Failures \cup {None} /\ r.data \in Int \cup {None}
         /\ Lost(r) => r.data = None
<1>1. CASE r = Ok(true) \/ r = Ok(None)
  BY <1>1, NoneAssumption DEF Ok, Lost, Failures, Outages
<1>2. CASE r = [failure |-> "PARTIAL_DATA", fallback |-> FALSE, data |-> None]
  BY <1>2, NoneAssumption DEF Failures, Lost, Outages
<1>4. \A f \in Outages \cup {"FORMAT_ERROR", "NO_RECORD"} :
        f \in Failures /\ f # None /\ Failed(f).failure = f /\ Failed(f).data = None
  BY NoneAssumption DEF Failures, Outages, Failed
<1>5. CASE \E q \in Failing : r = [q EXCEPT !.fallback = @ \/ q.failure = "FORMAT_ERROR"]
  <2>1. PICK f \in Outages \cup {"FORMAT_ERROR", "NO_RECORD"} :
          \E b : r = [Failed(f) EXCEPT !.fallback = b]
    BY <1>5 DEF Failing
  <2>2. r.failure = f /\ r.data = None
    BY <2>1 DEF Failed
  <2>. QED BY <1>4, <2>2
<1>. QED BY <1>1, <1>2, <1>5 DEF BankAnalyze

(* The register's word, when it gives one, is never that a business        *)
(* complies which does not.                                                *)
LEMMA GstResults ==
  ASSUME NEW true \in BOOLEAN, NEW r \in GstVerify(true)
  PROVE  /\ r.failure \in Failures \cup {None} /\ r.data \in BOOLEAN \cup {None}
         /\ ~true => r.data \in {FALSE, None}
         /\ r.data = None => Lost(r) \/ r.failure = None
<1>1. CASE r = Ok(true) \/ r = Ok(None)
  <2>1. r.failure = None /\ (r.data = true \/ r.data = None)
    BY <1>1 DEF Ok
  <2>2. ~true => true = FALSE
    OBVIOUS
  <2>. QED BY <2>1, <2>2
<1>2. CASE r = [failure |-> "PAN_MISMATCH", fallback |-> TRUE, data |-> FALSE]
  BY <1>2, NoneAssumption DEF Failures, Lost, Outages
<1>3. "NO_RECORD" # None /\ "NO_RECORD" \in Failures
  BY NoneAssumption DEF Failures
<1>4. \A f \in Outages \cup {"FORMAT_ERROR", "NO_RECORD"} :
        f \in Failures /\ f # None /\ Failed(f).failure = f /\ Failed(f).data = None
  BY NoneAssumption DEF Failures, Outages, Failed
<1>5. CASE \E q \in Failing :
             r = IF q.failure = "NO_RECORD" THEN [q EXCEPT !.data = FALSE, !.fallback = TRUE] ELSE q
  <2>1. PICK f \in Outages \cup {"FORMAT_ERROR", "NO_RECORD"} :
          r = IF f = "NO_RECORD" THEN [Failed(f) EXCEPT !.data = FALSE, !.fallback = TRUE] ELSE Failed(f)
    BY <1>4, <1>5, ZenonT(60) DEF Failing
  <2>2. r.failure = f
    BY <2>1 DEF Failed
  <2>3. f = "NO_RECORD" => r.data = FALSE /\ r.data # None
    BY <2>1, NoneAssumption DEF Failed
  <2>4. f # "NO_RECORD" => r.data = None /\ Lost(r)
    BY <2>1, <2>2 DEF Failed, Lost
  <2>. QED BY <1>4, <2>2, <2>3, <2>4
<1>. QED BY <1>1, <1>2, <1>5 DEF GstVerify

-----------------------------------------------------------------------------
(* The invariant: a decision is one computed from what the services said   *)

(* The results of the services are answers about this applicant.           *)
Returned ==
  results.credit \in CreditFetch(applicant.credit)
  /\ results.bank \in BankAnalyze(applicant.stability)
  /\ results.gst \in GstVerify(applicant.gst)
  /\ results = [credit |-> results.credit, bank |-> results.bank, gst |-> results.gst]

(* A scoring outcome on the results and, with it, a stored decision.       *)
Scored(ml) ==
  ml = None \/ \E mode \in MLModes : ml = MLScore(mode, results, applicant.dti)

Computed ==
  \E arm \in {None, "ml", "heuristic"} : \E ml :
    Scored(ml) /\ output = ComputeDecision(results, applicant.dti, ml, arm)

(* Inductive: what was returned is kept, and what was decided was decided  *)
(* on it.                                                                  *)
EngineInd ==
  /\ applicant \in Applicants /\ bucket \in Buckets
  /\ env \in [mlEnabled : BOOLEAN, ratio : Routings]
  /\ results # None => Returned
  /\ output # None => results # None /\ Computed
  /\ explanation # None => output # None

(* Nothing is answered or decided at first, and no step changes what was   *)
(* decided on.                                                             *)
LEMMA EngineInvariant == Spec => []EngineInd
<1>1. Init => EngineInd
  BY DEF Init, EngineInd
<1>2. ASSUME EngineInd, [Next]_vars PROVE EngineInd'
  <2>1. CASE Fetch
    <3>1. PICK c \in CreditFetch(applicant.credit), b \in BankAnalyze(applicant.stability),
               g \in GstVerify(applicant.gst) : results' = [credit |-> c, bank |-> b, gst |-> g]
      BY <2>1 DEF Fetch
    <3>2. results'.credit = c /\ results'.bank = b /\ results'.gst = g
      BY <3>1
    <3>3. /\ applicant' = applicant /\ output' = output /\ explanation' = explanation
          /\ bucket' = bucket /\ env' = env /\ output = None
      BY <1>2, <2>1 DEF Fetch, EngineInd
    <3>4. Returned'
      BY <3>1, <3>2, <3>3 DEF Returned
    <3>. QED BY <1>2, <3>3, <3>4 DEF EngineInd
  <2>2. CASE Decide
    <3>1. /\ applicant' = applicant /\ results' = results /\ explanation' = explanation
          /\ bucket' = bucket /\ env' = env /\ results # None /\ output = None
      BY <2>2 DEF Decide
    <3>. DEFINE arm == AssignArm(bucket, env.ratio)
    <3>2. arm \in {None, "ml", "heuristic"}
      BY DEF AssignArm
    <3>3. PICK ml \in (IF MLRequested(env, arm)
                         THEN {MLScore(mode, results, applicant.dti) : mode \in MLModes}
                         ELSE {None}) :
            output' = ComputeDecision(results, applicant.dti, ml, arm)
      BY <2>2 DEF Decide
    <3>4. Scored(ml)
      BY <3>3 DEF Scored
    <3>5. Scored(ml)' /\ Returned'
      BY <1>2, <3>1, <3>4 DEF Scored, Returned, EngineInd
    <3>6. Computed'
      BY <3>1, <3>2, <3>3, <3>5 DEF Computed
    <3>. QED BY <1>2, <3>1, <3>5, <3>6 DEF EngineInd
  <2>3. CASE UNCHANGED <<applicant, bucket, env, results, output>>
             /\ (explanation' = explanation \/ output # None)
    BY <1>2, <2>3 DEF EngineInd, Returned, Computed, Scored
  <2>. QED BY <1>2, <2>1, <2>2, <2>3 DEF Next, GetExplanation, vars
<1>. QED BY <1>1, <1>2, PTL DEF Spec

-----------------------------------------------------------------------------
(* Decisions                                                               *)

(* The parts of compute_decision, each by itself.                          *)
Used(ml) == ml # None /\ ml.used
ScoreOf(res, dti, ml) ==
  IF Used(ml) THEN ml.score
  ELSE RiskScore(CreditScore(res), res.bank.data, dti, GstCompliant(res), FailureTypes(res), RuleSetV1)
RuleOf(res, dti, score) == Evaluate(score, dti, FailureTypes(res), GstCompliant(res), RuleSetV1)
ReliabilityOf(res) == DataReliability(FailureTypes(res), UsedFallbackCredit(res))
ConfidenceOf(res, score, rule) == RoundedProduct(ReliabilityOf(res), BoundaryFactor(score, rule))

(* Both scorecards have the same thresholds.                               *)
LEMMA SameRules ==
  \A score, dti, failures, gst :
    Evaluate(score, dti, failures, gst, RuleSetV2) = Evaluate(score, dti, failures, gst, RuleSetV1)
BY DEF Evaluate, EffectiveScore, RuleSetV1, RuleSetV2, Scorecard

EffectiveOf(res, score) == EffectiveScore(score, GstCompliant(res), RuleSetV1)

(* The first rule that matches, with the thresholds of the scorecard.      *)
LEMMA Rules ==
  ASSUME NEW res, NEW dti, NEW score
  PROVE  RuleOf(res, dti, score) =
           IF EffectiveOf(res, score) >= 7000 /\ FailureTypes(res) = <<>> THEN "APPROVE"
           ELSE IF EffectiveOf(res, score) >= 5500 /\ dti < 50 THEN "APPROVE"
           ELSE IF EffectiveOf(res, score) < 3500 \/ dti > 60 THEN "DECLINE"
           ELSE "NEEDS_REVIEW"
BY DEF RuleOf, Evaluate, EffectiveOf, RuleSetV1, Scorecard

(* Known not to comply.                                                    *)
Barred(res) == GstCompliant(res) = FALSE

(* Known non-compliance caps the score below approval.                     *)
LEMMA Capped ==
  ASSUME NEW res, NEW score \in Nat, Barred(res)
  PROVE  EffectiveOf(res, score) = IF score < 5400 THEN score ELSE 5400
<1>1. EffectiveOf(res, score) = Lower(score, RuleSetV1.approveModerate - 100)
  BY DEF EffectiveOf, EffectiveScore, Barred
<1>2. RuleSetV1.approveModerate = 5500
  BY DEF RuleSetV1, Scorecard
<1>. QED BY <1>1, <1>2 DEF Lower

(* Nothing else does.                                                      *)
LEMMA Uncapped ==
  ASSUME NEW res, NEW score, ~Barred(res)
  PROVE  EffectiveOf(res, score) = score
BY DEF EffectiveOf, EffectiveScore, Barred

(* The parts of a decision: each from the ones before it.                  *)
LEMMA DecisionParts ==
  ASSUME NEW res, NEW dti, NEW ml, NEW arm
  PROVE  LET d == ComputeDecision(res, dti, ml, arm)
         IN  /\ d.score = ScoreOf(res, dti, ml)
             /\ d.rule = RuleOf(res, dti, d.score)
             /\ d.reliability = ReliabilityOf(res)
             /\ d.confidence = Clamp(ConfidenceOf(res, d.score, d.rule), 0, 100)
             /\ d.decision = IF d.confidence < ConfidenceThreshold THEN "NEEDS_REVIEW" ELSE d.rule
             /\ d.strategy = (IF Used(ml) THEN "ml" ELSE "heuristic")
             /\ d.arm = arm /\ d.ml = ml
BY SameRules DEF ComputeDecision, ScoreOf, RuleOf, ReliabilityOf, ConfidenceOf, DecisionConfidence, Used

(* The results of one application are of these types.                      *)
Typed(res) ==
  /\ res.credit.failure \in Failures \cup {None} /\ res.credit.data \in Int \cup {None}
  /\ res.bank.failure \in Failures \cup {None} /\ res.bank.data \in Int \cup {None}
  /\ res.gst.failure \in Failures \cup {None} /\ res.gst.data \in BOOLEAN \cup {None}

(* What the services return is of these types.                             *)
LEMMA ReturnedTyped ==
  ASSUME applicant \in Applicants, Returned
  PROVE  /\ Typed(results)
         /\ applicant.credit \in Int /\ applicant.stability \in Int
         /\ applicant.gst \in BOOLEAN /\ applicant.dti \in Int
<1>1. /\ applicant.credit \in Int /\ applicant.stability \in Int
      /\ applicant.gst \in BOOLEAN /\ applicant.dti \in Int
  BY EngineAssumption
<1>. QED BY <1>1, CreditResults, BankResults, GstResults DEF Returned, Typed

(* The rounded score of a sum, in ninths of a hundredth.                   *)
Rounded(sum) == (2 * Clamp(sum, 0, 90000) + 9) \div 18
Sum(c, s, dti, gst, n) ==
  Clamp(c, 0, 900) * 40
    + 9 * (Clamp(s, 0, 100) * 20 + Higher(0, 100 - dti) * 25 + (IF gst = TRUE THEN 1500 ELSE 0) - 500 * n)

(* A clamp keeps within its bounds, and keeps two numbers as close.        *)
LEMMA Clamped ==
  /\ \A x \in Int : Clamp(x, 0, 90000) \in Nat /\ Clamp(x, 0, 90000) <= 90000
  /\ \A x, y \in Int : \A e \in Nat : y >= x - e => Clamp(y, 0, 90000) >= Clamp(x, 0, 90000) - e
BY SMT DEF Clamp, Higher, Lower

(* Rounding half up is a division with remainder.                          *)
LEMMA Eighteenths ==
  \A t \in Nat : /\ t \div 18 \in Nat
                 /\ 18 * (t \div 18) <= t /\ t < 18 * (t \div 18) + 18
BY SMT

(* A rounded score is a score: the quotient of the clamped sum.            *)
LEMMA RoundedIs ==
  \A x \in Int : /\ Rounded(x) \in Nat /\ Rounded(x) <= 10000
                 /\ 18 * Rounded(x) <= 2 * Clamp(x, 0, 90000) + 9
                 /\ 2 * Clamp(x, 0, 90000) + 9 < 18 * Rounded(x) + 18
<1>1. ASSUME NEW x \in Int
      PROVE  /\ Rounded(x) \in Nat /\ Rounded(x) <= 10000
             /\ 18 * Rounded(x) <= 2 * Clamp(x, 0, 90000) + 9
             /\ 2 * Clamp(x, 0, 90000) + 9 < 18 * Rounded(x) + 18
  <2>1. PICK X \in Nat : X = Clamp(x, 0, 90000) /\ X <= 90000
    BY Clamped, SMT
  <2>2. PICK p \in Nat : p = (2 * X + 9) \div 18 /\ 18 * p <= 2 * X + 9 /\ 2 * X + 9 < 18 * p + 18
    BY Eighteenths, SMT
  <2>3. p = Rounded(x)
    BY <2>1, <2>2, SMT DEF Rounded
  <2>4. p <= 10000
    BY <2>1, <2>2, SMT
  <2>. QED BY <2>1, <2>2, <2>3, <2>4, SMT
<1>. QED BY <1>1, SMT

(* It falls by no more than the sum does.                                  *)
LEMMA RoundingShift ==
  ASSUME NEW x \in Int, NEW y \in Int, NEW d \in Nat, y >= x - 9 * d
  PROVE  Rounded(y) >= Rounded(x) - d
<1>1. PICK e \in Nat : e = 9 * d
  BY SMT
<1>2. y >= x - e
  BY <1>1, SMT
<1>3. PICK X \in Nat : X = Clamp(x, 0, 90000)
  BY Clamped, SMT
<1>4. PICK Y \in Nat : Y = Clamp(y, 0, 90000)
  BY Clamped, SMT
<1>5. Y >= X - e
  BY <1>2, <1>3, <1>4, Clamped, SMT
<1>6. PICK p \in Nat : p = Rounded(x) /\ 18 * p <= 2 * X + 9
  BY <1>3, RoundedIs, SMT
<1>7. PICK q \in Nat : q = Rounded(y) /\ 2 * Y + 9 < 18 * q + 18
  BY <1>4, RoundedIs, SMT
<1>8. q >= p - d
  BY <1>1, <1>5, <1>6, <1>7, SMT
<1>. QED BY <1>6, <1>7, <1>8, SMT

(* What is scored when there is no figure.                                 *)
CreditUsed(res) == IF CreditScore(res) = None THEN 600 ELSE CreditScore(res)
StabilityUsed(res) == IF res.bank.data = None THEN 50 ELSE res.bank.data
SumOf(res, dti) ==
  Sum(CreditUsed(res), StabilityUsed(res), dti, GstCompliant(res), Len(FailureTypes(res)))

(* The heuristic score of typed results.                                   *)
LEMMA HeuristicScore ==
  ASSUME NEW res, Typed(res), NEW dti \in Int, NEW ml, ~Used(ml)
  PROVE  /\ CreditUsed(res) \in Int /\ StabilityUsed(res) \in Int
         /\ SumOf(res, dti) \in Int
         /\ ScoreOf(res, dti, ml) = Rounded(SumOf(res, dti))
         /\ ScoreOf(res, dti, ml) \in Nat /\ ScoreOf(res, dti, ml) <= 10000
<1>1. CreditUsed(res) \in Int /\ StabilityUsed(res) \in Int
  BY DEF Typed, CreditScore, CreditUsed, StabilityUsed
<1>2. PICK n \in 0..3 : n = Len(FailureTypes(res))
  BY ThreeFailures DEF Typed
<1>3. PICK c \in Int : c = CreditUsed(res)
  BY <1>1
<1>4. PICK s \in Int : s = StabilityUsed(res)
  BY <1>1
<1>5. PICK g : g = GstCompliant(res)
  OBVIOUS
<1>6. SumOf(res, dti) = Sum(c, s, dti, g, n)
  BY <1>2, <1>3, <1>4, <1>5 DEF SumOf
<1>7. Sum(c, s, dti, g, n) \in Int
  BY DEF Sum, Clamp, Higher, Lower
<1>8. ScoreOf(res, dti, ml) = RiskScore(CreditScore(res), res.bank.data, dti, g, FailureTypes(res), RuleSetV1)
  BY <1>5 DEF ScoreOf
<1>9. RiskScore(CreditScore(res), res.bank.data, dti, g, FailureTypes(res), RuleSetV1) = Rounded(Sum(c, s, dti, g, n))
  <2>1. PICK a \in Int : a = Clamp(c, 0, 900)
    BY DEF Clamp, Higher, Lower
  <2>2. PICK b \in Int : b = Clamp(s, 0, 100)
    BY DEF Clamp, Higher, Lower
  <2>3. PICK h \in Int : h = Higher(0, 100 - dti)
    BY DEF Higher
  <2>4. PICK k \in Int : k = IF g = TRUE THEN 1500 ELSE 0
    OBVIOUS
  <2>5. Lower(n * 5, 15) = 5 * n
    BY DEF Lower
  <2>6. RiskScore(CreditScore(res), res.bank.data, dti, g, FailureTypes(res), RuleSetV1)
          = (2 * Clamp(Clamp(c, 0, 900) * 40
                         + 9 * (Clamp(s, 0, 100) * 20 + Higher(0, 100 - dti) * 25
                                  + (IF g = TRUE THEN 100 * 15 ELSE 0) - 100 * Lower(n * 5, 15)),
                       0, 90000) + 9) \div 18
    BY <1>2, <1>3, <1>4, SMT
       DEF RiskScore, RuleSetV1, Scorecard, DefaultCreditScore, DefaultIncomeStability,
           CreditUsed, StabilityUsed
  <2>7. (IF g = TRUE THEN 100 * 15 ELSE 0) = k
    BY <2>4
  <2>8. RiskScore(CreditScore(res), res.bank.data, dti, g, FailureTypes(res), RuleSetV1)
          = (2 * Clamp(a * 40 + 9 * (b * 20 + h * 25 + k - 100 * (5 * n)), 0, 90000) + 9) \div 18
    BY <2>1, <2>2, <2>3, <2>5, <2>6, <2>7, SMT
  <2>9. 100 * (5 * n) = 500 * n
    OBVIOUS
  <2>10. Rounded(Sum(c, s, dti, g, n))
           = (2 * Clamp(a * 40 + 9 * (b * 20 + h * 25 + k - 500 * n), 0, 90000) + 9) \div 18
    BY <2>1, <2>2, <2>3, <2>4, SMT DEF Rounded, Sum
  <2>. QED BY <2>8, <2>9, <2>10, SMT
<1>10. PICK x \in Int : x = Sum(c, s, dti, g, n)
  BY <1>7
<1>11. SumOf(res, dti) = x
  BY <1>6, <1>10
<1>12. PICK v \in Nat : v = Rounded(x) /\ v <= 10000
  BY RoundedIs, SMT
<1>13. ScoreOf(res, dti, ml) = v
  BY <1>8, <1>9, <1>10, <1>12, SMT
<1>. QED BY <1>1, <1>11, <1>12, <1>13, SMT

(* Reliability is a whole share, and so is confidence.                     *)
LEMMA Shares ==
  ASSUME NEW res, Typed(res), NEW score, NEW rule \in Decisions
  PROVE  /\ ReliabilityOf(res) \in 0..100
         /\ BoundaryFactor(score, rule) \in {50, 60, 70, 75, 85, 90, 100}
         /\ ConfidenceOf(res, score, rule) \in 0..ReliabilityOf(res)
         /\ Clamp(ConfidenceOf(res, score, rule), 0, 100) = ConfidenceOf(res, score, rule)
<1>1. Cost(res.credit.failure) \in Int /\ Cost(res.bank.failure) \in Int /\ Cost(res.gst.failure) \in Int
  BY Costs DEF Typed
<1>2. Base(UsedFallbackCredit(res)) \in Int
  BY DEF Base, FallbackCreditPenalty
<1>3. ReliabilityOf(res) \in 0..100
  BY <1>1, <1>2, Reliability, SMTT(60) DEF Typed, ReliabilityOf, Clamp, Higher, Lower
<1>4. BoundaryFactor(score, rule) \in {50, 60, 70, 75, 85, 90, 100}
  BY Factors DEF Decisions
<1>5. PICK r \in 0..100 : r = ReliabilityOf(res)
  BY <1>3
<1>6. PICK b \in {50, 60, 70, 75, 85, 90, 100} : b = BoundaryFactor(score, rule)
  BY <1>4
<1>7. RoundedProduct(r, b) \in 0..r
  BY ProductBound, ZenonT(60)
<1>8. ConfidenceOf(res, score, rule) \in 0..r
  BY <1>5, <1>6, <1>7 DEF ConfidenceOf
<1>. QED BY <1>3, <1>4, <1>5, <1>8 DEF Clamp, Higher, Lower

(* What compute_decision makes of the results res: score, rule, reliability *)
(* and confidence fit together.                                            *)
IsDecision(d, res, dti) ==
  /\ d.score \in Nat /\ d.score <= 10000
  /\ d.rule \in Decisions /\ d.rule = RuleOf(res, dti, d.score)
  /\ d.reliability \in Nat /\ d.reliability <= 100 /\ d.reliability = ReliabilityOf(res)
  /\ d.confidence \in Nat /\ d.confidence <= d.reliability
  /\ d.confidence = RoundedProduct(d.reliability, BoundaryFactor(d.score, d.rule))
  /\ d.decision = IF d.confidence < ConfidenceThreshold THEN "NEEDS_REVIEW" ELSE d.rule

(* A rule's conclusion is a decision.                                      *)
LEMMA RuleIsDecision ==
  ASSUME NEW res, NEW dti, NEW score
  PROVE  RuleOf(res, dti, score) \in Decisions
BY Zenon DEF RuleOf, Evaluate, Decisions

(* compute_decision makes a decision of typed results.                     *)
LEMMA Deciding ==
  ASSUME NEW res, Typed(res), NEW dti \in Int, NEW ml, NEW arm,
         ScoreOf(res, dti, ml) \in Nat, ScoreOf(res, dti, ml) <= 10000
  PROVE  IsDecision(ComputeDecision(res, dti, ml, arm), res, dti)
<1>1. PICK d : d = ComputeDecision(res, dti, ml, arm)
  OBVIOUS
<1>2. /\ d.score = ScoreOf(res, dti, ml)
      /\ d.rule = RuleOf(res, dti, d.score)
      /\ d.reliability = ReliabilityOf(res)
      /\ d.confidence = Clamp(ConfidenceOf(res, d.score, d.rule), 0, 100)
      /\ d.decision = IF d.confidence < ConfidenceThreshold THEN "NEEDS_REVIEW" ELSE d.rule
  BY <1>1, DecisionParts, SMT
<1>3. d.rule \in Decisions
  BY <1>2, RuleIsDecision, SMT
<1>4. PICK r \in 0..100 : r = ReliabilityOf(res)
  BY <1>3, Shares
<1>5. PICK c \in 0..r : c = ConfidenceOf(res, d.score, d.rule)
  BY <1>3, <1>4, Shares
<1>6. Clamp(ConfidenceOf(res, d.score, d.rule), 0, 100) = c
  BY <1>3, <1>5, Shares
<1>7. d.confidence = c /\ d.reliability = r
  BY <1>2, <1>4, <1>6, SMT
<1>8. c = RoundedProduct(r, BoundaryFactor(d.score, d.rule))
  BY <1>4, <1>5, SMT DEF ConfidenceOf
<1>9. c \in Nat /\ c <= r /\ r \in Nat /\ r <= 100
  BY SMT
<1>. QED BY <1>1, <1>2, <1>3, <1>4, <1>7, <1>8, <1>9 DEF IsDecision

(* A model's probability is a score between 0 and 100 points.              *)
LEMMA ModelScores ==
  ASSUME NEW mode \in MLModes, NEW p \in 0..100, NEW drift, Used(MLOutcome(mode, p, drift))
  PROVE  MLOutcome(mode, p, drift).score \in Nat /\ MLOutcome(mode, p, drift).score <= 10000
<1>1. ASSUME NEW reason, NEW error, NEW q PROVE Fallback(reason, error, q).used = FALSE
  BY DEF Fallback
<1>2. ASSUME mode \in {"MODEL_UNAVAILABLE", "TIMEOUT"} PROVE FALSE
  <2>1. MLOutcome(mode, p, drift) = Fallback(mode, mode, None)
    BY <1>2, Zenon DEF MLOutcome
  <2>. QED BY <1>1, <2>1, Zenon DEF Used
<1>3. ASSUME mode = "FORCE_LOW_CONFIDENCE" PROVE FALSE
  <2>1. MLOutcome(mode, p, drift) = Fallback(mode, None, 40)
    BY <1>3 DEF MLOutcome
  <2>. QED BY <1>1, <2>1, Zenon DEF Used
<1>4. CASE mode \in {"SCORED", "SCORED_WITHOUT_SNAPSHOT"}
  <2>. DEFINE low == Higher(p, 100 - p) < ConfidenceThreshold
              scored == [used |-> TRUE, fallback |-> FALSE, reason |-> None, error |-> None,
                         p |-> p, score |-> (100 - p) * 100, drift |-> {}]
  <2>1. PICK e : MLOutcome(mode, p, drift)
                   = [(IF low THEN Fallback("LOW_CONFIDENCE", None, p) ELSE scored) EXCEPT !.drift = e]
    BY <1>4 DEF MLOutcome
  <2>2. CASE low
    <3>1. MLOutcome(mode, p, drift).used = Fallback("LOW_CONFIDENCE", None, p).used
      BY <2>1, <2>2 DEF Fallback
    <3>2. MLOutcome(mode, p, drift).used = FALSE
      BY <1>1, <3>1
    <3>3. MLOutcome(mode, p, drift).used
      BY Zenon DEF Used
    <3>4. FALSE
      BY <3>2, <3>3
    <3>. QED BY <3>4
  <2>3. CASE ~low
    <3>1. MLOutcome(mode, p, drift) = [scored EXCEPT !.drift = e]
      BY <2>1, <2>3, Zenon
    <3>2. MLOutcome(mode, p, drift).score = (100 - p) * 100
      BY <3>1
    <3>. QED BY <3>2, SMT
  <2>. QED BY <2>2, <2>3
<1>. QED BY <1>2, <1>3, <1>4 DEF MLModes

(* The invariant makes what is stored a decision on what was returned.     *)
LEMMA Stored ==
  ASSUME EngineInd, output # None
  PROVE  /\ Typed(results) /\ Returned
         /\ applicant.credit \in Int /\ applicant.stability \in Int
         /\ applicant.gst \in BOOLEAN /\ applicant.dti \in Int
         /\ IsDecision(output, results, applicant.dti)
         /\ output.arm \in {None, "ml", "heuristic"}
         /\ output.strategy = "heuristic" => output.score = ScoreOf(results, applicant.dti, None)
         /\ output.score = ScoreOf(results, applicant.dti, output.ml)
<1>1. applicant \in Applicants /\ Returned /\ Computed
  BY DEF EngineInd
<1>2. /\ Typed(results)
      /\ applicant.credit \in Int /\ applicant.stability \in Int
      /\ applicant.gst \in BOOLEAN /\ applicant.dti \in Int
  BY <1>1, ReturnedTyped
<1>3. PICK arm \in {None, "ml", "heuristic"} : \E ml :
        Scored(ml) /\ output = ComputeDecision(results, applicant.dti, ml, arm)
  BY <1>1 DEF Computed
<1>4. PICK ml : Scored(ml) /\ output = ComputeDecision(results, applicant.dti, ml, arm)
  BY <1>3
<1>5. ASSUME Used(ml)
      PROVE  ScoreOf(results, applicant.dti, ml) \in Nat /\ ScoreOf(results, applicant.dti, ml) <= 10000
  <2>1. PICK mode \in MLModes : ml = MLScore(mode, results, applicant.dti)
    BY <1>4, <1>5 DEF Scored, Used
  <2>2. PICK p : p = DefaultProbability(FeatureRow(results, applicant.dti))
    OBVIOUS
  <2>3. p \in 0..100
    <3>1. DefaultProbability(FeatureRow([credit |-> results.credit, bank |-> results.bank,
                                         gst |-> results.gst], applicant.dti)) \in 0..100
      BY <1>1, ModelAssumption, Zenon DEF Returned
    <3>2. results = [credit |-> results.credit, bank |-> results.bank, gst |-> results.gst]
      BY <1>1, Zenon DEF Returned
    <3>. QED BY <2>2, <3>1, <3>2, Zenon
  <2>4. PICK drift : ml = MLOutcome(mode, p, drift)
    BY <2>1, <2>2, Zenon DEF MLScore
  <2>5. ml.score \in Nat /\ ml.score <= 10000
    BY <1>5, <2>3, <2>4, ModelScores
  <2>. QED BY <1>5, <2>5 DEF ScoreOf
<1>6. ASSUME ~Used(ml)
      PROVE  ScoreOf(results, applicant.dti, ml) \in Nat /\ ScoreOf(results, applicant.dti, ml) <= 10000
  BY <1>2, <1>6, HeuristicScore
<1>7. IsDecision(output, results, applicant.dti)
  BY <1>2, <1>4, <1>5, <1>6, Deciding
<1>8. /\ output.score = ScoreOf(results, applicant.dti, ml)
      /\ output.arm = arm /\ output.ml = ml
      /\ output.strategy = IF Used(ml) THEN "ml" ELSE "heuristic"
  BY <1>4, DecisionParts, SMT
<1>9. ~Used(ml) => ScoreOf(results, applicant.dti, ml) = ScoreOf(results, applicant.dti, None)
  BY Zenon DEF ScoreOf, Used
<1>. QED BY <1>1, <1>2, <1>3, <1>7, <1>8, <1>9

(* What the failures of the three services leave of 100.                   *)
LEMMA ReliabilityLeft ==
  ASSUME NEW res, Typed(res)
  PROVE  \E b, x, y, z \in Nat :
           /\ b = (IF UsedFallbackCredit(res) THEN 10 ELSE 0)
           /\ b # 0 => UsedFallbackCredit(res)
           /\ x = Cost(res.credit.failure) /\ y = Cost(res.bank.failure) /\ z = Cost(res.gst.failure)
           /\ x \in {0, 10, 20, 30} /\ y \in {0, 10, 20, 30} /\ z \in {0, 10, 20, 30}
           /\ ReliabilityOf(res) = IF b + x + y + z > 100 THEN 0 ELSE 100 - (b + x + y + z)
<1>1. PICK b \in Nat : b = IF UsedFallbackCredit(res) THEN 10 ELSE 0
  OBVIOUS
<1>2. PICK x \in {0, 10, 20, 30} : x = Cost(res.credit.failure)
  BY Costs DEF Typed
<1>3. PICK y \in {0, 10, 20, 30} : y = Cost(res.bank.failure)
  BY Costs DEF Typed
<1>4. PICK z \in {0, 10, 20, 30} : z = Cost(res.gst.failure)
  BY Costs DEF Typed
<1>5. ReliabilityOf(res) = Clamp(100 - (b + x + y + z), 0, 100)
  <2>1. ReliabilityOf(res)
          = Clamp(100 - (Base(UsedFallbackCredit(res)) + Cost(res.credit.failure)
                           + Cost(res.bank.failure) + Cost(res.gst.failure)), 0, 100)
    BY Reliability DEF ReliabilityOf, Typed
  <2>2. Base(UsedFallbackCredit(res)) = b
    BY <1>1 DEF Base, FallbackCreditPenalty
  <2>. QED BY <1>2, <1>3, <1>4, <2>1, <2>2
<1>6. Clamp(100 - (b + x + y + z), 0, 100) = IF b + x + y + z > 100 THEN 0 ELSE 100 - (b + x + y + z)
  BY SMT DEF Clamp, Higher, Lower
<1>. WITNESS b \in Nat, x \in Nat, y \in Nat, z \in Nat
<1>. QED BY <1>1, <1>2, <1>3, <1>4, <1>5, <1>6

-----------------------------------------------------------------------------
(* The theorems                                                            *)

(* Decisions, confidence, reliability and scores are what the API says     *)
(* they are: ComputeDecision, of whatever the services and the model said. *)
THEOREM TypeOKHolds == Spec => []TypeOK
<1>1. ASSUME EngineInd PROVE TypeOK
  <2>1. ASSUME output # None
        PROVE  /\ results # None
               /\ output.decision \in Decisions /\ output.rule \in Decisions
               /\ output.confidence \in 0..100 /\ output.reliability \in 0..100
               /\ output.score \in 0..10000
               /\ output.arm \in {None, "ml", "heuristic"}
    <3>1. IsDecision(output, results, applicant.dti) /\ output.arm \in {None, "ml", "heuristic"}
      BY <1>1, <2>1, Stored
    <3>2. output.rule \in Decisions /\ output.decision \in Decisions
      BY <3>1 DEF IsDecision, Decisions
    <3>3. output.score \in Nat /\ output.score <= 10000
      BY <3>1 DEF IsDecision
    <3>4. /\ output.reliability \in Nat /\ output.reliability <= 100
          /\ output.confidence \in Nat /\ output.confidence <= output.reliability
      BY <3>1, SMTT(60) DEF IsDecision
    <3>5. output.score \in 0..10000
      <4> DEFINE top == 10000
      <4>1. top \in Nat /\ output.score <= top
        BY <3>3, SMT
      <4> HIDE DEF top
      <4>2. output.score \in 0..top
        BY <3>3, <4>1, SMT
      <4>. QED BY <4>2, PTL DEF top
    <3>6. output.confidence \in 0..100 /\ output.reliability \in 0..100
      BY <3>4, SMTT(60)
    <3>7. results # None
      BY <1>1, <2>1 DEF EngineInd
    <3>. QED BY <3>1, <3>2, <3>5, <3>6, <3>7, PTL
  <2>2. /\ applicant \in Applicants /\ bucket \in Buckets
        /\ env \in [mlEnabled : BOOLEAN, ratio : Routings]
        /\ explanation # None => output # None
    BY <1>1, Zenon DEF EngineInd
  <2>. QED BY <2>1, <2>2, PTL DEF TypeOK
<1>. QED BY <1>1, EngineInvariant, PTL

(* With two of three providers out of reach or unreadable nothing is       *)
(* decided automatically, at any threshold above 40: two losses leave a    *)
(* reliability of 40, and confidence is never more than that.              *)
THEOREM OutagesAreReviewedHolds ==
  ASSUME ConfidenceThreshold > 40
  PROVE  Spec => []OutagesAreReviewed
<1>1. ASSUME EngineInd PROVE OutagesAreReviewed
  <2>1. SUFFICES ASSUME output # None, NEW s \in DOMAIN results, NEW t \in DOMAIN results,
                        s # t, Lost(results[s]), Lost(results[t])
                 PROVE  output.decision = "NEEDS_REVIEW"
    BY DEF OutagesAreReviewed, Answered
  <2>2. Typed(results) /\ Returned /\ IsDecision(output, results, applicant.dti)
    BY <1>1, <2>1, Stored
  <2>3. DOMAIN results = {"credit", "bank", "gst"}
    BY <2>2 DEF Returned
  <2>4. \/ Lost(results.credit) /\ Lost(results.bank)
        \/ Lost(results.credit) /\ Lost(results.gst)
        \/ Lost(results.bank) /\ Lost(results.gst)
    BY <2>1, <2>3
  <2>5. PICK b, x, y, z \in Nat :
          /\ x = Cost(results.credit.failure) /\ y = Cost(results.bank.failure)
          /\ z = Cost(results.gst.failure)
          /\ ReliabilityOf(results) = IF b + x + y + z > 100 THEN 0 ELSE 100 - (b + x + y + z)
    BY <2>2, ReliabilityLeft
  <2>6. (x = 30 /\ y = 30) \/ (x = 30 /\ z = 30) \/ (y = 30 /\ z = 30)
    BY <2>4, <2>5, Costs DEF Lost
  <2>7. PICK r \in Nat : r = output.reliability /\ r = ReliabilityOf(results)
    BY <2>2 DEF IsDecision
  <2>8. r <= 40
    BY <2>5, <2>6, <2>7
  <2>9. PICK c \in Nat : c = output.confidence /\ c <= r
    BY <2>2, <2>7 DEF IsDecision
  <2>10. c < ConfidenceThreshold
    BY <2>8, <2>9, RulesAssumption
  <2>. QED BY <2>2, <2>9, <2>10 DEF IsDecision
<1>. QED BY <1>1, EngineInvariant, PTL

(* What an automatic decision without the bureau needs: the far end of the *)
(* score, and no other failure.                                            *)
LEMMA WithoutBureau ==
  ASSUME ConfidenceThreshold > 54, NEW res, Typed(res), NEW dti, NEW d, IsDecision(d, res, dti),
         UsedFallbackCredit(res), d.decision # "NEEDS_REVIEW"
  PROVE  /\ d.rule = d.decision
         /\ d.decision = "APPROVE" => d.score >= 8000
         /\ d.decision = "DECLINE" => d.score <= 2000
         /\ res.bank.failure = None /\ res.gst.failure = None
         /\ ConfidenceThreshold <= 60
<1>1. PICK b, x, y, z \in Nat :
        /\ b = 10
        /\ x = Cost(res.credit.failure) /\ y = Cost(res.bank.failure) /\ z = Cost(res.gst.failure)
        /\ y \in {0, 10, 20, 30} /\ z \in {0, 10, 20, 30}
        /\ ReliabilityOf(res) = IF b + x + y + z > 100 THEN 0 ELSE 100 - (b + x + y + z)
  BY ReliabilityLeft
<1>2. x = 30
  BY <1>1, Costs DEF UsedFallbackCredit
<1>3. PICK r \in 0..100 : r = d.reliability /\ r = ReliabilityOf(res)
  BY DEF IsDecision
<1>4. r <= 60
  BY <1>1, <1>2, <1>3
<1>5. PICK c \in Nat : c = d.confidence /\ c <= r
  BY <1>3 DEF IsDecision
<1>6. c >= ConfidenceThreshold /\ d.rule = d.decision /\ d.rule \in Decisions
  <2>1. ~(d.confidence < ConfidenceThreshold) /\ d.rule = d.decision
    BY DEF IsDecision
  <2>. QED BY <1>5, <2>1, RulesAssumption DEF IsDecision
<1>7. PICK f \in {50, 60, 70, 75, 85, 90, 100} : f = BoundaryFactor(d.score, d.rule)
  BY <1>6, Shares
<1>8. c = RoundedProduct(r, f)
  BY <1>3, <1>5, <1>7 DEF IsDecision
<1>9. f = 100
  <2>1. \A g \in {50, 60, 70, 75, 85, 90} : RoundedProduct(r, g) <= 54
    BY <1>4, Products, ZenonT(60)
  <2>2. f # 100 => f \in {50, 60, 70, 75, 85, 90}
    OBVIOUS
  <2>3. f # 100 => c <= 54
    BY <1>8, <2>1, <2>2
  <2>. QED BY <1>6, <2>3, RulesAssumption, SMTT(60)
<1>10. PICK s \in Nat : s = d.score
  BY DEF IsDecision
<1>11. d.rule = "APPROVE" => s >= 8000
  <2>1. BoundaryFactor(s, "APPROVE") = 100 => s >= 8000
    BY Factors
  <2>2. ASSUME d.rule = "APPROVE" PROVE s >= 8000
    <3>1. BoundaryFactor(d.score, d.rule) = BoundaryFactor(s, "APPROVE")
      BY <1>10, <2>2
    <3>2. BoundaryFactor(s, "APPROVE") = 100
      BY <1>7, <1>9, <3>1
    <3>. QED BY <2>1, <3>2
  <2>. QED BY <2>2
<1>12. d.rule = "DECLINE" => s <= 2000
  <2>1. BoundaryFactor(s, "DECLINE") = 100 => s <= 2000
    BY Factors
  <2>2. ASSUME d.rule = "DECLINE" PROVE s <= 2000
    <3>1. BoundaryFactor(d.score, d.rule) = BoundaryFactor(s, "DECLINE")
      BY <1>10, <2>2
    <3>2. BoundaryFactor(s, "DECLINE") = 100
      BY <1>7, <1>9, <3>1
    <3>. QED BY <2>1, <3>2
  <2>. QED BY <2>2
<1>13. y = 0 /\ z = 0
  BY <1>1, <1>2, <1>3, <1>5, <1>6, RulesAssumption
<1>14. res.bank.failure = None /\ res.gst.failure = None
  BY <1>1, <1>13, Costs, ZenonT(60) DEF Typed
<1>15. ConfidenceThreshold <= 60
  BY <1>4, <1>5, <1>6, RulesAssumption
<1>. QED BY <1>6, <1>10, <1>11, <1>12, <1>14, <1>15

(* Without the credit bureau an application is decided automatically only  *)
(* at the far ends of the score, at any threshold above 54: reliability is *)
(* 60 at most then, and every factor but the full one takes it below.      *)
THEOREM FallbackOnlyAtTheExtremesHolds ==
  ASSUME ConfidenceThreshold > 54
  PROVE  Spec => []FallbackOnlyAtTheExtremes
<1>1. ASSUME EngineInd PROVE FallbackOnlyAtTheExtremes
  <2>1. SUFFICES ASSUME output # None, output.decision # "NEEDS_REVIEW", UsedFallbackCredit(results)
                 PROVE  \/ output.decision = "APPROVE" /\ output.score >= 8000
                        \/ output.decision = "DECLINE" /\ output.score <= 2000
    BY DEF FallbackOnlyAtTheExtremes, Automatic, Answered
  <2>2. Typed(results) /\ IsDecision(output, results, applicant.dti)
    BY <1>1, <2>1, Stored
  <2>3. output.decision \in Decisions
    BY <2>2 DEF IsDecision, Decisions
  <2>. QED BY <2>1, <2>2, <2>3, WithoutBureau DEF Decisions
<1>. QED BY <1>1, EngineInvariant, PTL

(* What approval takes.                                                    *)
LEMMA ApprovalTakes ==
  ASSUME NEW res, NEW dti \in Int, NEW score \in Nat, RuleOf(res, dti, score) = "APPROVE"
  PROVE  /\ ~Barred(res) /\ score >= 5500
         /\ dti < 50 \/ (score >= 7000 /\ FailureTypes(res) = <<>>)
<1>1. PICK e : e = EffectiveOf(res, score)
  OBVIOUS
<1>2. \/ e >= 7000 /\ FailureTypes(res) = <<>>
      \/ e >= 5500 /\ dti < 50
  BY <1>1, Rules
<1>3. ~Barred(res)
  <2>1. SUFFICES ASSUME Barred(res) PROVE FALSE
    OBVIOUS
  <2>2. e \in Int /\ e <= 5400
    BY <1>1, <2>1, Capped
  <2>. QED BY <1>2, <2>2
<1>4. e = score
  BY <1>1, <1>3, Uncapped
<1>. QED BY <1>2, <1>3, <1>4

(* And what suffices for it.                                               *)
LEMMA ApprovalGiven ==
  ASSUME NEW res, NEW dti \in Int, NEW score \in Nat,
         ~Barred(res), score >= 5500, dti < 50
  PROVE  RuleOf(res, dti, score) = "APPROVE"
<1>1. EffectiveOf(res, score) = score
  BY Uncapped
<1>. QED BY <1>1, Rules

-----------------------------------------------------------------------------
(* Comparing two decisions                                                 *)

(* The effective score rises with the score.                               *)
LEMMA EffectiveRises ==
  ASSUME NEW res1, NEW res2, Barred(res1) <=> Barred(res2),
         NEW s1 \in Nat, NEW s2 \in Nat, s1 <= s2
  PROVE  /\ EffectiveOf(res1, s1) \in Int /\ EffectiveOf(res2, s2) \in Int
         /\ EffectiveOf(res1, s1) <= EffectiveOf(res2, s2)
<1>1. CASE Barred(res1)
  <2>1. EffectiveOf(res1, s1) = IF s1 < 5400 THEN s1 ELSE 5400
    BY <1>1, Capped
  <2>2. EffectiveOf(res2, s2) = IF s2 < 5400 THEN s2 ELSE 5400
    BY <1>1, Capped
  <2>. QED BY <2>1, <2>2
<1>2. CASE ~Barred(res1)
  <2>1. EffectiveOf(res1, s1) = s1 /\ EffectiveOf(res2, s2) = s2
    BY <1>2, Uncapped
  <2>. QED BY <2>1
<1>. QED BY <1>1, <1>2

(* On the same failures, a higher score never makes the decision worse.    *)
LEMMA BetterScore ==
  ASSUME NEW res1, Typed(res1), NEW res2, Typed(res2), NEW dti \in Int,
         Barred(res1) <=> Barred(res2), FailureTypes(res1) = FailureTypes(res2),
         ReliabilityOf(res1) = ReliabilityOf(res2),
         NEW d1, IsDecision(d1, res1, dti), NEW d2, IsDecision(d2, res2, dti),
         d1.score <= d2.score
  PROVE  /\ d1.decision = "APPROVE" => d2.decision = "APPROVE"
         /\ d1.decision = "NEEDS_REVIEW" => d2.decision # "DECLINE"
<1>1. PICK s1 \in Nat : s1 = d1.score
  BY DEF IsDecision
<1>2. PICK s2 \in Nat : s2 = d2.score /\ s1 <= s2
  BY <1>1 DEF IsDecision
<1>3. PICK r \in 0..100 : r = ReliabilityOf(res1) /\ r = ReliabilityOf(res2)
  BY Shares DEF Decisions
<1>4. PICK c1 \in Nat : c1 = d1.confidence /\ c1 = RoundedProduct(r, BoundaryFactor(s1, d1.rule))
  BY <1>1, <1>3 DEF IsDecision
<1>5. PICK c2 \in Nat : c2 = d2.confidence /\ c2 = RoundedProduct(r, BoundaryFactor(s2, d2.rule))
  BY <1>2, <1>3 DEF IsDecision
<1>6. /\ d1.decision = IF c1 < ConfidenceThreshold THEN "NEEDS_REVIEW" ELSE d1.rule
      /\ d2.decision = IF c2 < ConfidenceThreshold THEN "NEEDS_REVIEW" ELSE d2.rule
      /\ d1.rule \in Decisions /\ d2.rule \in Decisions
      /\ d1.rule = RuleOf(res1, dti, s1) /\ d2.rule = RuleOf(res2, dti, s2)
  BY <1>1, <1>2, <1>4, <1>5 DEF IsDecision
<1>7. /\ EffectiveOf(res1, s1) \in Int /\ EffectiveOf(res2, s2) \in Int
      /\ EffectiveOf(res1, s1) <= EffectiveOf(res2, s2)
  BY <1>2, EffectiveRises
<1>8. PICK e1 \in Int : e1 = EffectiveOf(res1, s1)
  BY <1>7
<1>9. PICK e2 \in Int : e2 = EffectiveOf(res2, s2) /\ e1 <= e2
  BY <1>7, <1>8
<1>10. PICK none \in BOOLEAN : /\ none <=> FailureTypes(res1) = <<>>
                               /\ none <=> FailureTypes(res2) = <<>>
  OBVIOUS
<1>11. d1.rule = IF e1 >= 7000 /\ none THEN "APPROVE" ELSE IF e1 >= 5500 /\ dti < 50 THEN "APPROVE"
                 ELSE IF e1 < 3500 \/ dti > 60 THEN "DECLINE" ELSE "NEEDS_REVIEW"
  BY <1>6, <1>8, <1>10, Rules
<1>12. d2.rule = IF e2 >= 7000 /\ none THEN "APPROVE" ELSE IF e2 >= 5500 /\ dti < 50 THEN "APPROVE"
                 ELSE IF e2 < 3500 \/ dti > 60 THEN "DECLINE" ELSE "NEEDS_REVIEW"
  BY <1>6, <1>9, <1>10, Rules
<1>13. ASSUME d1.rule = "APPROVE" PROVE d2.rule = "APPROVE" /\ c1 <= c2
  <2>1. d2.rule = "APPROVE"
    BY <1>9, <1>11, <1>12, <1>13
  <2>2. c1 = RoundedProduct(r, BoundaryFactor(s1, "APPROVE"))
        /\ c2 = RoundedProduct(r, BoundaryFactor(s2, "APPROVE"))
    BY <1>4, <1>5, <1>13, <2>1
  <2>3. PICK f1 \in {60, 70, 90, 100} :
          /\ f1 = BoundaryFactor(s1, "APPROVE")
          /\ f1 = IF s1 >= 8000 THEN 100 ELSE IF s1 >= 7000 THEN 90 ELSE IF s1 >= 5500 THEN 70 ELSE 60
    BY Factors
  <2>4. PICK f2 \in {60, 70, 90, 100} :
          /\ f2 = BoundaryFactor(s2, "APPROVE")
          /\ f2 = IF s2 >= 8000 THEN 100 ELSE IF s2 >= 7000 THEN 90 ELSE IF s2 >= 5500 THEN 70 ELSE 60
    BY Factors
  <2>5. f1 <= f2
    BY <1>2, <2>3, <2>4
  <2>6. RoundedProduct(r, f1) <= RoundedProduct(r, f2)
    BY <2>5, ApprovingProducts
  <2>. QED BY <2>1, <2>2, <2>3, <2>4, <2>6
<1>14. ASSUME d2.rule = "DECLINE" PROVE d1.rule = "DECLINE" /\ c2 <= c1
  <2>1. d1.rule = "DECLINE"
    BY <1>9, <1>11, <1>12, <1>14
  <2>2. c1 = RoundedProduct(r, BoundaryFactor(s1, "DECLINE"))
        /\ c2 = RoundedProduct(r, BoundaryFactor(s2, "DECLINE"))
    BY <1>4, <1>5, <1>14, <2>1
  <2>3. PICK f1 \in {75, 85, 100} :
          /\ f1 = BoundaryFactor(s1, "DECLINE")
          /\ f1 = IF s1 <= 2000 THEN 100 ELSE IF s1 <= 3400 THEN 85 ELSE 75
    BY Factors
  <2>4. PICK f2 \in {75, 85, 100} :
          /\ f2 = BoundaryFactor(s2, "DECLINE")
          /\ f2 = IF s2 <= 2000 THEN 100 ELSE IF s2 <= 3400 THEN 85 ELSE 75
    BY Factors
  <2>5. f2 <= f1
    BY <1>2, <2>3, <2>4
  <2>6. RoundedProduct(r, f2) <= RoundedProduct(r, f1)
    BY <2>5, DecliningProducts
  <2>. QED BY <2>1, <2>2, <2>3, <2>4, <2>6
<1>15. ASSUME d1.decision = "APPROVE" PROVE d2.decision = "APPROVE"
  <2>1. d1.rule = "APPROVE" /\ ~(c1 < ConfidenceThreshold)
    BY <1>6, <1>15
  <2>2. d2.rule = "APPROVE" /\ c1 <= c2
    BY <1>13, <2>1
  <2>3. ~(c2 < ConfidenceThreshold)
    BY <2>1, <2>2, RulesAssumption
  <2>. QED BY <1>6, <2>2, <2>3
<1>16. ASSUME d1.decision = "NEEDS_REVIEW", d2.decision = "DECLINE" PROVE FALSE
  <2>1. d2.rule = "DECLINE" /\ ~(c2 < ConfidenceThreshold)
    BY <1>6, <1>16
  <2>2. d1.rule = "DECLINE" /\ c2 <= c1
    BY <1>14, <2>1
  <2>3. ~(c1 < ConfidenceThreshold)
    BY <2>1, <2>2, RulesAssumption
  <2>. QED BY <1>6, <1>16, <2>2, <2>3
<1>. QED BY <1>15, <1>16

(* What of the sum an outage changes, in ninths of a hundredth.            *)
Points(res) ==
  40 * Clamp(CreditUsed(res), 0, 900) + 180 * Clamp(StabilityUsed(res), 0, 100)
    - 4500 * Len(FailureTypes(res))

(* The heuristic's score moves with what is scored.                        *)
LEMMA ScoreMoves ==
  ASSUME NEW res1, Typed(res1), NEW res2, Typed(res2), NEW dti \in Int, NEW d \in Nat,
         GstCompliant(res1) = GstCompliant(res2),
         Points(res2) >= Points(res1) - 9 * d
  PROVE  ScoreOf(res2, dti, None) >= ScoreOf(res1, dti, None) - d
<1>1. ~Used(None)
  BY DEF Used
<1>2. PICK x \in Int : x = SumOf(res1, dti) /\ ScoreOf(res1, dti, None) = Rounded(x)
  BY <1>1, HeuristicScore
<1>3. PICK y \in Int : y = SumOf(res2, dti) /\ ScoreOf(res2, dti, None) = Rounded(y)
  BY <1>1, HeuristicScore
<1>4. PICK g : g = GstCompliant(res1) /\ g = GstCompliant(res2)
  OBVIOUS
<1>5. /\ CreditUsed(res1) \in Int /\ StabilityUsed(res1) \in Int
      /\ CreditUsed(res2) \in Int /\ StabilityUsed(res2) \in Int
  BY <1>1, HeuristicScore
<1>6. \A m \in Int : Clamp(m, 0, 900) \in Int /\ Clamp(m, 0, 100) \in Int
  BY SMT DEF Clamp, Higher, Lower
<1>7. PICK a1 \in Int : a1 = Clamp(CreditUsed(res1), 0, 900)
  BY <1>5, <1>6
<1>8. PICK b1 \in Int : b1 = Clamp(StabilityUsed(res1), 0, 100)
  BY <1>5, <1>6
<1>9. PICK a2 \in Int : a2 = Clamp(CreditUsed(res2), 0, 900)
  BY <1>5, <1>6
<1>10. PICK b2 \in Int : b2 = Clamp(StabilityUsed(res2), 0, 100)
  BY <1>5, <1>6
<1>11. PICK n1 \in 0..3 : n1 = Len(FailureTypes(res1))
  BY ThreeFailures DEF Typed
<1>12. PICK n2 \in 0..3 : n2 = Len(FailureTypes(res2))
  BY ThreeFailures DEF Typed
<1>13. PICK h \in Int : h = Higher(0, 100 - dti)
  BY DEF Higher
<1>14. PICK k \in Int : k = IF g = TRUE THEN 1500 ELSE 0
  OBVIOUS
<1>15. x = a1 * 40 + 9 * (b1 * 20 + h * 25 + k - 500 * n1)
  BY <1>2, <1>4, <1>7, <1>8, <1>11, <1>13, <1>14 DEF SumOf, Sum
<1>16. y = a2 * 40 + 9 * (b2 * 20 + h * 25 + k - 500 * n2)
  BY <1>3, <1>4, <1>9, <1>10, <1>12, <1>13, <1>14 DEF SumOf, Sum
<1>17. 40 * a2 + 180 * b2 - 4500 * n2 >= 40 * a1 + 180 * b1 - 4500 * n1 - 9 * d
  <2>1. Points(res1) = 40 * a1 + 180 * b1 - 4500 * n1
    BY <1>7, <1>8, <1>11 DEF Points
  <2>2. Points(res2) = 40 * a2 + 180 * b2 - 4500 * n2
    BY <1>9, <1>10, <1>12 DEF Points
  <2>. QED BY <2>1, <2>2
<1>18. y >= x - 9 * d
  BY <1>15, <1>16, <1>17, SMT
<1>. QED BY <1>2, <1>3, <1>18, RoundingShift

(* The same failures cost the same.                                        *)
LEMMA SameLosses ==
  ASSUME NEW res1, Typed(res1), NEW res2, Typed(res2),
         UsedFallbackCredit(res1) <=> UsedFallbackCredit(res2),
         res1.credit.failure = res2.credit.failure, res1.bank.failure = res2.bank.failure,
         res1.gst.failure = res2.gst.failure
  PROVE  ReliabilityOf(res1) = ReliabilityOf(res2)
<1>1. PICK b \in Nat : b = IF UsedFallbackCredit(res1) THEN 10 ELSE 0
  OBVIOUS
<1>2. b = IF UsedFallbackCredit(res2) THEN 10 ELSE 0
  BY <1>1
<1>3. PICK x, y, z : /\ x = Cost(res1.credit.failure) /\ x = Cost(res2.credit.failure)
                     /\ y = Cost(res1.bank.failure) /\ y = Cost(res2.bank.failure)
                     /\ z = Cost(res1.gst.failure) /\ z = Cost(res2.gst.failure)
  OBVIOUS
<1>4. ReliabilityOf(res1) = IF b + x + y + z > 100 THEN 0 ELSE 100 - (b + x + y + z)
  BY <1>1, <1>3, ReliabilityLeft
<1>5. ReliabilityOf(res2) = IF b + x + y + z > 100 THEN 0 ELSE 100 - (b + x + y + z)
  BY <1>2, <1>3, ReliabilityLeft
<1>. QED BY <1>4, <1>5

(* How many providers failed.                                              *)
Count(f) == IF f = None THEN 0 ELSE 1

(* A failure for each provider that failed.                                *)
LEMMA FailureCount ==
  ASSUME NEW res, Typed(res)
  PROVE  /\ Len(FailureTypes(res)) =
              Count(res.credit.failure) + Count(res.bank.failure) + Count(res.gst.failure)
         /\ Len(FailureTypes(res)) # 0 => FailureTypes(res) # <<>>
<1>1. Len(FailureTypes(res)) =
        Count(res.credit.failure) + Count(res.bank.failure) + Count(res.gst.failure)
  BY ThreeFailures DEF Typed, Count
<1>2. Len(FailureTypes(res)) # 0 => FailureTypes(res) # <<>>
  BY ThreeFailures DEF Typed
<1>. QED BY <1>1, <1>2

(* One provider failed, and it was the bureau.                             *)
LEMMA BureauFailed ==
  ASSUME NEW res, Typed(res), res.credit.failure # None,
         res.bank.failure = None, res.gst.failure = None
  PROVE  Len(FailureTypes(res)) = 1 /\ FailureTypes(res) # <<>>
<1>1. Count(res.credit.failure) = 1 /\ Count(res.bank.failure) = 0 /\ Count(res.gst.failure) = 0
  BY DEF Count
<1>2. /\ Len(FailureTypes(res)) =
           Count(res.credit.failure) + Count(res.bank.failure) + Count(res.gst.failure)
      /\ Len(FailureTypes(res)) # 0 => FailureTypes(res) # <<>>
  BY FailureCount
<1>3. PICK n : n = Len(FailureTypes(res))
  OBVIOUS
<1>4. n = 1 + 0 + 0
  BY <1>1, <1>2, <1>3
<1>5. n = 1 /\ n # 0
  BY <1>4
<1>. QED BY <1>2, <1>3, <1>5

(* Results that agree on the register comply alike.                        *)
LEMMA SameRegister ==
  ASSUME NEW res1, NEW res2, res1.gst = res2.gst
  PROVE  GstCompliant(res1) = GstCompliant(res2) /\ (Barred(res1) <=> Barred(res2))
<1>1. GstCompliant(res1) = GstCompliant(res2)
  BY Zenon DEF GstCompliant
<1>. QED BY <1>1, Zenon DEF Barred

(* Without a model the decision is the heuristic's.                        *)
LEMMA Alone ==
  ASSUME NEW res, Typed(res), NEW dti \in Int
  PROVE  IsDecision(ComputeDecision(res, dti, None, None), res, dti)
         /\ ComputeDecision(res, dti, None, None).score = ScoreOf(res, dti, None)
<1>1. ~Used(None)
  BY DEF Used
<1>2. ScoreOf(res, dti, None) \in Nat /\ ScoreOf(res, dti, None) <= 10000
  BY <1>1, HeuristicScore
<1>3. IsDecision(ComputeDecision(res, dti, None, None), res, dti)
  BY <1>2, Deciding
<1>4. ComputeDecision(res, dti, None, None).score = ScoreOf(res, dti, None)
  BY DecisionParts, SMT
<1>. QED BY <1>3, <1>4

(* A better bureau score never makes the heuristic's decision worse, at    *)
(* any threshold: a refusal is less sure the higher the score, so that it  *)
(* turns into a review and not the other way round.                        *)
THEOREM BetterCreditNeverHurtsHolds == Spec => []BetterCreditNeverHurts
<1>1. ASSUME EngineInd PROVE BetterCreditNeverHurts
  <2>1. ASSUME output # None, output.strategy = "heuristic",
               results.credit = Ok(applicant.credit), NEW c \in Int, c >= applicant.credit,
               NEW better, better = [results EXCEPT !.credit = Ok(c)],
               NEW d, d = ComputeDecision(better, applicant.dti, None, None)
        PROVE  /\ output.decision \in Decisions /\ d.decision \in Decisions
               /\ output.decision = "APPROVE" => d.decision = "APPROVE"
               /\ output.decision = "NEEDS_REVIEW" => d.decision # "DECLINE"
    <3>1. /\ Typed(results) /\ Returned /\ IsDecision(output, results, applicant.dti)
          /\ applicant.credit \in Int /\ applicant.dti \in Int
          /\ output.score = ScoreOf(results, applicant.dti, None)
      BY <1>1, <2>1, Stored
    <3>2. results = [credit |-> results.credit, bank |-> results.bank, gst |-> results.gst]
      BY <3>1 DEF Returned
    <3>3. better.credit = Ok(c) /\ better.bank = results.bank /\ better.gst = results.gst
      BY <2>1, <3>2
    <3>5. Ok(c).failure = None /\ Ok(c).data = c
          /\ Ok(applicant.credit).failure = None /\ Ok(applicant.credit).data = applicant.credit
      BY DEF Ok
    <3>6. Typed(better)
      BY <3>1, <3>3, <3>5 DEF Typed
    <3>7. FailureTypes(better) = FailureTypes(results)
      BY <2>1, <3>3, <3>5, Zenon DEF FailureTypes
    <3>8. ~UsedFallbackCredit(better) /\ ~UsedFallbackCredit(results)
      <4>1. None \notin Outages
        BY NoneAssumption DEF Failures
      <4>. QED BY <2>1, <3>3, <3>5, <4>1, Zenon DEF UsedFallbackCredit
    <3>9. /\ better.credit.failure = results.credit.failure
          /\ better.bank.failure = results.bank.failure
          /\ better.gst.failure = results.gst.failure
      BY <2>1, <3>3, <3>5
    <3>10. ReliabilityOf(better) = ReliabilityOf(results)
      BY <3>1, <3>6, <3>8, <3>9, SameLosses
    <3>11. CreditScore(better) = c /\ CreditScore(results) = applicant.credit
      BY <2>1, <3>3, <3>5, <3>8 DEF CreditScore
    <3>12. CreditUsed(better) = c /\ CreditUsed(results) = applicant.credit
      BY <2>1, <3>1, <3>11, NoneAssumption DEF CreditUsed
    <3>13. PICK a \in Int : a = applicant.credit
      BY <3>1
    <3>14. Points(better) >= Points(results) - 9 * 0
      <4>1. StabilityUsed(better) = StabilityUsed(results)
        BY <3>3, Zenon DEF StabilityUsed
      <4>2. PICK n \in 0..3 : n = Len(FailureTypes(results)) /\ n = Len(FailureTypes(better))
        BY <3>1, <3>7, ThreeFailures DEF Typed
      <4>3. StabilityUsed(results) \in Int
        BY <3>1 DEF StabilityUsed, Typed
      <4>4. PICK b \in Int : b = Clamp(StabilityUsed(results), 0, 100)
        BY <4>3 DEF Clamp, Higher, Lower
      <4>5. Points(better) = 40 * Clamp(c, 0, 900) + 180 * b - 4500 * n
        BY <3>12, <4>1, <4>2, <4>4 DEF Points
      <4>6. Points(results) = 40 * Clamp(a, 0, 900) + 180 * b - 4500 * n
        BY <3>12, <3>13, <4>2, <4>4 DEF Points
      <4>7. a <= c
        BY <2>1, <3>13
      <4>8. Clamp(a, 0, 900) <= Clamp(c, 0, 900) /\ Clamp(a, 0, 900) \in Int /\ Clamp(c, 0, 900) \in Int
        BY <4>7, SMT DEF Clamp, Higher, Lower
      <4>. QED BY <4>5, <4>6, <4>8
    <3>15. GstCompliant(results) = GstCompliant(better) /\ (Barred(results) <=> Barred(better))
      BY <3>3, SameRegister
    <3>16. ScoreOf(better, applicant.dti, None) >= ScoreOf(results, applicant.dti, None) - 0
      BY <3>1, <3>6, <3>14, <3>15, ScoreMoves
    <3>17. IsDecision(d, better, applicant.dti) /\ d.score = ScoreOf(better, applicant.dti, None)
      BY <2>1, <3>1, <3>6, Alone
    <3>18. output.score <= d.score
      BY <3>1, <3>16, <3>17 DEF IsDecision
    <3>19. /\ output.decision = "APPROVE" => d.decision = "APPROVE"
           /\ output.decision = "NEEDS_REVIEW" => d.decision # "DECLINE"
      BY <3>1, <3>6, <3>7, <3>10, <3>15, <3>17, <3>18, BetterScore
    <3>20. output.decision \in Decisions /\ d.decision \in Decisions
      BY <3>1, <3>17 DEF IsDecision, Decisions
    <3>. QED BY <3>19, <3>20
  <2>2. \A a \in Applicants : a.credit \in Int
    BY EngineAssumption
  <2>. QED BY <2>1, <2>2 DEF BetterCreditNeverHurts, Answered, Decisions
<1>. QED BY <1>1, EngineInvariant, PTL

-----------------------------------------------------------------------------
(* The GST gate                                                            *)

(* The more reliable the data, the surer an approval.                      *)
LEMMA RisingReliability ==
  ASSUME NEW r \in 0..100, NEW q \in 0..100, r <= q, NEW f \in {60, 70, 90, 100}
  PROVE  RoundedProduct(r, f) <= RoundedProduct(q, f)
BY SMT DEF RoundedProduct, HalvesBelow

(* The register answered that the business complies.                       *)
OnRecord(res) == res.gst = Ok(TRUE)

(* Compliance on record is read as such.                                   *)
LEMMA RecordIsRead ==
  ASSUME NEW res, OnRecord(res)
  PROVE  res.gst.failure = None /\ GstCompliant(res) = TRUE
<1>1. res.gst.failure = None /\ res.gst.data = TRUE
  BY DEF Ok, OnRecord
<1>2. TRUE # None
  BY NoneAssumption
<1>3. res.gst.data # None
  BY <1>1, <1>2, Zenon
<1>4. GstCompliant(res) = res.gst.data
  BY <1>3, Zenon DEF GstCompliant
<1>. QED BY <1>1, <1>4, Zenon

(* The same results with another word of the register.                     *)
SameButRegister(res1, res2) == res2.credit = res1.credit /\ res2.bank = res1.bank

(* A register that did not fail costs nothing: reliability is no lower,    *)
(* and there is no failure that was not there.                             *)
LEMMA AnsweringRegister ==
  ASSUME NEW res1, Typed(res1), NEW res2, Typed(res2), SameButRegister(res1, res2),
         res2.gst.failure = None
  PROVE  /\ ReliabilityOf(res1) <= ReliabilityOf(res2)
         /\ Len(FailureTypes(res2)) <= Len(FailureTypes(res1))
         /\ FailureTypes(res1) = <<>> => FailureTypes(res2) = <<>>
<1>1. UsedFallbackCredit(res2) = UsedFallbackCredit(res1)
  BY Zenon DEF UsedFallbackCredit, SameButRegister
<1>2. PICK b \in Nat : b = IF UsedFallbackCredit(res1) THEN 10 ELSE 0
  OBVIOUS
<1>3. b = IF UsedFallbackCredit(res2) THEN 10 ELSE 0
  BY <1>1, <1>2
<1>4. PICK x, y, z : /\ x = Cost(res1.credit.failure) /\ x = Cost(res2.credit.failure)
                     /\ y = Cost(res1.bank.failure) /\ y = Cost(res2.bank.failure)
                     /\ z = Cost(res1.gst.failure)
  BY DEF SameButRegister
<1>5. x \in {0, 10, 20, 30} /\ y \in {0, 10, 20, 30} /\ z \in {0, 10, 20, 30}
  BY <1>4, Costs DEF Typed
<1>5a. ReliabilityOf(res1) = IF b + x + y + z > 100 THEN 0 ELSE 100 - (b + x + y + z)
  <2>1. PICK b1, x1, y1, z1 \in Nat :
          /\ b1 = (IF UsedFallbackCredit(res1) THEN 10 ELSE 0)
          /\ x1 = Cost(res1.credit.failure) /\ y1 = Cost(res1.bank.failure)
          /\ z1 = Cost(res1.gst.failure)
          /\ ReliabilityOf(res1) = IF b1 + x1 + y1 + z1 > 100 THEN 0 ELSE 100 - (b1 + x1 + y1 + z1)
    BY ReliabilityLeft
  <2>2. b1 = b /\ x1 = x /\ y1 = y /\ z1 = z
    BY <1>2, <1>4, <2>1
  <2>. QED BY <2>1, <2>2
<1>6. Cost(res2.gst.failure) = 0
  BY DEF Cost
<1>7. ReliabilityOf(res2) = IF b + x + y + 0 > 100 THEN 0 ELSE 100 - (b + x + y + 0)
  BY <1>3, <1>4, <1>6, ReliabilityLeft
<1>8. ReliabilityOf(res1) <= ReliabilityOf(res2)
  BY <1>2, <1>5, <1>5a, <1>7
<1>9. PICK u \in {0, 1} : u = Count(res1.credit.failure) /\ u = Count(res2.credit.failure)
  BY DEF Count, SameButRegister
<1>10. PICK v \in {0, 1} : v = Count(res1.bank.failure) /\ v = Count(res2.bank.failure)
  BY DEF Count, SameButRegister
<1>11. PICK w \in {0, 1} : w = Count(res1.gst.failure)
  BY DEF Count
<1>12. Count(res2.gst.failure) = 0
  BY DEF Count
<1>13. PICK n \in 0..3 : n = Len(FailureTypes(res1)) /\ n = u + v + w
                         /\ (FailureTypes(res1) = <<>> <=> n = 0)
  BY <1>9, <1>10, <1>11, FailureCount, ThreeFailures DEF Typed
<1>14. PICK m \in 0..3 : m = Len(FailureTypes(res2)) /\ m = u + v + 0
                         /\ (FailureTypes(res2) = <<>> <=> m = 0)
  BY <1>9, <1>10, <1>12, FailureCount, ThreeFailures DEF Typed
<1>15. m <= n
  BY <1>9, <1>10, <1>11, <1>13, <1>14
<1>16. FailureTypes(res1) = <<>> => FailureTypes(res2) = <<>>
  BY <1>13, <1>14, <1>15
<1>. QED BY <1>8, <1>13, <1>14, <1>15, <1>16

(* Compliance on record scores no lower than silence: it counts in the     *)
(* heuristic's sum, and is all the same to a model that has scored.        *)
LEMMA CompliantScore ==
  ASSUME NEW res1, Typed(res1), NEW res2, Typed(res2), SameButRegister(res1, res2),
         OnRecord(res2), NEW dti \in Int, NEW ml
  PROVE  /\ Used(ml) => ScoreOf(res2, dti, ml) = ScoreOf(res1, dti, ml)
         /\ ~Used(ml) => ScoreOf(res2, dti, ml) >= ScoreOf(res1, dti, ml)
<1>1. Used(ml) => ScoreOf(res2, dti, ml) = ScoreOf(res1, dti, ml)
  BY Zenon DEF ScoreOf
<1>2. ASSUME ~Used(ml) PROVE ScoreOf(res2, dti, ml) >= ScoreOf(res1, dti, ml)
  <2>12. GstCompliant(res2) = TRUE
    BY RecordIsRead, Zenon
  <2>1. PICK x \in Int : x = SumOf(res1, dti) /\ ScoreOf(res1, dti, ml) = Rounded(x)
    BY <1>2, HeuristicScore
  <2>2. PICK y \in Int : y = SumOf(res2, dti) /\ ScoreOf(res2, dti, ml) = Rounded(y)
    BY <1>2, HeuristicScore
  <2>3. CreditUsed(res2) = CreditUsed(res1) /\ StabilityUsed(res2) = StabilityUsed(res1)
    <3>1. CreditScore(res2) = CreditScore(res1)
      BY Zenon DEF CreditScore, UsedFallbackCredit, SameButRegister
    <3>. QED BY <3>1, Zenon DEF CreditUsed, StabilityUsed, SameButRegister
  <2>4. CreditUsed(res1) \in Int /\ StabilityUsed(res1) \in Int
    BY <1>2, HeuristicScore
  <2>5. PICK a \in Int : a = Clamp(CreditUsed(res1), 0, 900)
    BY <2>4 DEF Clamp, Higher, Lower
  <2>6. PICK b \in Int : b = Clamp(StabilityUsed(res1), 0, 100)
    BY <2>4 DEF Clamp, Higher, Lower
  <2>7. PICK h \in Int : h = Higher(0, 100 - dti)
    BY DEF Higher
  <2>8. PICK n \in 0..3 : n = Len(FailureTypes(res1))
    BY ThreeFailures DEF Typed
  <2>9. res2.gst.failure = None
    BY RecordIsRead
  <2>10. PICK m \in 0..3 : m = Len(FailureTypes(res2)) /\ m <= n
    BY <2>8, <2>9, AnsweringRegister, ThreeFailures DEF Typed
  <2>11. PICK k \in {0, 1500} : k = IF GstCompliant(res1) = TRUE THEN 1500 ELSE 0
    OBVIOUS
  <2>13. x = a * 40 + 9 * (b * 20 + h * 25 + k - 500 * n)
    BY <2>1, <2>5, <2>6, <2>7, <2>8, <2>11 DEF SumOf, Sum
  <2>14. y = a * 40 + 9 * (b * 20 + h * 25 + 1500 - 500 * m)
    BY <2>2, <2>3, <2>5, <2>6, <2>7, <2>10, <2>12 DEF SumOf, Sum
  <2>15. y >= x - 9 * 0
    BY <2>10, <2>11, <2>13, <2>14, SMT
  <2>16. Rounded(y) >= Rounded(x) - 0
    BY <2>15, RoundingShift
  <2>17. PICK p \in Nat : p = Rounded(x)
    BY RoundedIs, SMT
  <2>18. PICK q \in Nat : q = Rounded(y) /\ q >= p - 0
    BY <2>16, <2>17, RoundedIs, SMT
  <2>. QED BY <2>1, <2>2, <2>17, <2>18
<1>. QED BY <1>1, <1>2

(* So what was approved in silence is approved with compliance on record.  *)
LEMMA ComplianceApproves ==
  ASSUME NEW res1, Typed(res1), NEW res2, Typed(res2), SameButRegister(res1, res2),
         OnRecord(res2), NEW dti \in Int,
         NEW d1, IsDecision(d1, res1, dti), NEW d2, IsDecision(d2, res2, dti),
         d1.score <= d2.score, d1.decision = "APPROVE"
  PROVE  d2.decision = "APPROVE"
<1>1. res2.gst.failure = None
  BY RecordIsRead
<1>2. PICK s1 \in Nat : s1 = d1.score
  BY DEF IsDecision
<1>3. PICK s2 \in Nat : s2 = d2.score /\ s1 <= s2
  BY <1>2 DEF IsDecision
<1>4. PICK r1 \in 0..100 : r1 = ReliabilityOf(res1)
  BY Shares DEF Decisions
<1>5. PICK r2 \in 0..100 : r2 = ReliabilityOf(res2) /\ r1 <= r2
  BY <1>1, <1>4, AnsweringRegister, Shares DEF Decisions
<1>6. PICK c1 \in Nat : c1 = d1.confidence /\ c1 = RoundedProduct(r1, BoundaryFactor(s1, d1.rule))
  BY <1>2, <1>4 DEF IsDecision
<1>7. PICK c2 \in Nat : c2 = d2.confidence /\ c2 = RoundedProduct(r2, BoundaryFactor(s2, d2.rule))
  BY <1>3, <1>5 DEF IsDecision
<1>8. d1.rule = "APPROVE" /\ ~(c1 < ConfidenceThreshold) /\ d1.rule = RuleOf(res1, dti, s1)
  BY <1>2, <1>6 DEF IsDecision
<1>9. /\ s1 >= 5500
      /\ dti < 50 \/ (s1 >= 7000 /\ FailureTypes(res1) = <<>>)
  BY <1>8, ApprovalTakes
<1>10. ~Barred(res2)
  <2>1. GstCompliant(res2) = TRUE
    BY RecordIsRead, Zenon
  <2>. QED BY <2>1 DEF Barred
<1>11. EffectiveOf(res2, s2) = s2
  BY <1>10, Uncapped
<1>12. FailureTypes(res1) = <<>> => FailureTypes(res2) = <<>>
  BY <1>1, AnsweringRegister
<1>13. RuleOf(res2, dti, s2) = "APPROVE"
  BY <1>3, <1>9, <1>11, <1>12, Rules
<1>14. d2.rule = "APPROVE"
  BY <1>3, <1>13 DEF IsDecision
<1>15. PICK f1 \in {60, 70, 90, 100} :
         /\ f1 = BoundaryFactor(s1, "APPROVE")
         /\ f1 = IF s1 >= 8000 THEN 100 ELSE IF s1 >= 7000 THEN 90 ELSE IF s1 >= 5500 THEN 70 ELSE 60
  BY Factors
<1>16. PICK f2 \in {60, 70, 90, 100} :
         /\ f2 = BoundaryFactor(s2, "APPROVE")
         /\ f2 = IF s2 >= 8000 THEN 100 ELSE IF s2 >= 7000 THEN 90 ELSE IF s2 >= 5500 THEN 70 ELSE 60
  BY Factors
<1>17. f1 <= f2
  BY <1>3, <1>15, <1>16
<1>18. RoundedProduct(r1, f1) <= RoundedProduct(r2, f1)
  BY <1>5, RisingReliability
<1>19. RoundedProduct(r2, f1) <= RoundedProduct(r2, f2)
  BY <1>17, ApprovingProducts
<1>20. PICK u \in 0..r2 : u = RoundedProduct(r2, f1)
  BY ProductBound
<1>21. c1 = RoundedProduct(r1, f1) /\ c2 = RoundedProduct(r2, f2)
  BY <1>6, <1>7, <1>8, <1>14, <1>15, <1>16
<1>22. c1 <= u /\ u <= c2
  BY <1>18, <1>19, <1>20, <1>21
<1>23. ~(c2 < ConfidenceThreshold)
  BY <1>8, <1>22, RulesAssumption
<1>. QED BY <1>7, <1>14, <1>23 DEF IsDecision

(* The GST gate, whoever scored and at every threshold: a register that    *)
(* gave its word caps the score of a business that does not comply, and    *)
(* one that was silent, failed or not, counts for no more than compliance. *)
THEOREM ApprovalNeedsComplianceHolds == Spec => []ApprovalNeedsCompliance
<1>1. ASSUME EngineInd PROVE ApprovalNeedsCompliance
  <2>. DEFINE complying == [results EXCEPT !.gst = Ok(TRUE)]
              d == ComputeDecision(complying, applicant.dti, output.ml, output.arm)
  <2>1. SUFFICES ASSUME output # None, output.decision = "APPROVE", ~applicant.gst
                 PROVE  results.gst.data = None /\ d.decision = "APPROVE"
    BY DEF ApprovalNeedsCompliance, Answered
  <2>2. /\ Typed(results) /\ Returned /\ IsDecision(output, results, applicant.dti)
        /\ applicant.gst \in BOOLEAN /\ applicant.dti \in Int
        /\ output.score = ScoreOf(results, applicant.dti, output.ml)
    BY <1>1, <2>1, Stored
  <2>3. results.gst.data = None
    <3>1. SUFFICES ASSUME results.gst.data # None PROVE FALSE
      OBVIOUS
    <3>2. results.gst.data = FALSE
      BY <2>1, <2>2, <3>1, GstResults DEF Returned
    <3>3. Barred(results)
      BY <3>2, NoneAssumption DEF GstCompliant, Barred
    <3>4. output.rule = "APPROVE"
      BY <2>1, <2>2 DEF IsDecision
    <3>5. output.score \in Nat /\ output.rule = RuleOf(results, applicant.dti, output.score)
      BY <2>2 DEF IsDecision
    <3>6. RuleOf(results, applicant.dti, output.score) = "APPROVE"
      BY <3>4, <3>5
    <3>7. ~Barred(results)
      BY <2>2, <3>5, <3>6, ApprovalTakes
    <3>. QED BY <3>3, <3>7
  <2>4. /\ complying.credit = results.credit /\ complying.bank = results.bank
        /\ complying.gst = Ok(TRUE)
    <3>1. results = [credit |-> results.credit, bank |-> results.bank, gst |-> results.gst]
      BY <2>2, Zenon DEF Returned
    <3>. QED BY <3>1
  <2>. HIDE DEF complying
  <2>5. SameButRegister(results, complying) /\ OnRecord(complying)
    BY <2>4 DEF SameButRegister, OnRecord
  <2>6. Typed(complying)
    BY <2>2, <2>4 DEF Typed, Ok
  <2>7. PICK s \in Nat : s = output.score /\ s <= 10000
    BY <2>2 DEF IsDecision
  <2>8. PICK t \in Nat : t = ScoreOf(complying, applicant.dti, output.ml) /\ t <= 10000 /\ s <= t
    <3>1. CASE Used(output.ml)
      <4>1. ScoreOf(complying, applicant.dti, output.ml) = ScoreOf(results, applicant.dti, output.ml)
        BY <3>1, Zenon DEF ScoreOf
      <4>. QED BY <2>2, <2>7, <4>1
    <3>2. CASE ~Used(output.ml)
      <4>1. PICK t \in Nat : t = ScoreOf(complying, applicant.dti, output.ml) /\ t <= 10000
        BY <2>2, <2>6, <3>2, HeuristicScore
      <4>2. ScoreOf(complying, applicant.dti, output.ml) >= ScoreOf(results, applicant.dti, output.ml)
        BY <2>2, <2>5, <2>6, <3>2, CompliantScore, Zenon
      <4>3. t >= s
        BY <2>2, <2>7, <4>1, <4>2
      <4>. QED BY <4>1, <4>3
    <3>. QED BY <3>1, <3>2
  <2>9. IsDecision(d, complying, applicant.dti)
    BY <2>2, <2>6, <2>8, Deciding
  <2>10. d.score = t
    BY <2>8, DecisionParts, SMT
  <2>11. output.score <= d.score
    BY <2>7, <2>8, <2>10
  <2>. HIDE DEF d
  <2>12. d.decision = "APPROVE"
    <3>1. Typed(results) /\ applicant.dti \in Int /\ IsDecision(output, results, applicant.dti)
      BY <2>2
    <3>2. PICK e : e = d
      OBVIOUS
    <3>3. IsDecision(e, complying, applicant.dti) /\ output.score <= e.score
      BY <2>9, <2>11, <3>2
    <3>4. e.decision = "APPROVE"
      BY <2>1, <2>5, <2>6, <3>1, <3>3, ComplianceApproves
    <3>. QED BY <3>2, <3>4
  <2>. QED BY <2>3, <2>12
<1>. QED BY <1>1, EngineInvariant, PTL

-----------------------------------------------------------------------------
(* Losing the bureau or the statement                                      *)

(* An approval without the bureau stands with its report: the score was    *)
(* 8000 at least, and falls by 2167 at most.                               *)
LEMMA ReportIsNoLoss ==
  ASSUME ConfidenceThreshold > 54, NEW dti \in Int,
         NEW res, Typed(res), UsedFallbackCredit(res),
         NEW sound, Typed(sound), sound.credit.failure = None,
         sound.bank = res.bank, sound.gst = res.gst,
         NEW d1, IsDecision(d1, res, dti), d1.score = ScoreOf(res, dti, None),
         d1.decision = "APPROVE",
         NEW d2, IsDecision(d2, sound, dti), d2.score = ScoreOf(sound, dti, None)
  PROVE  d2.decision = "APPROVE"
<1>1. /\ d1.rule = "APPROVE" /\ d1.score >= 8000
      /\ res.bank.failure = None /\ res.gst.failure = None
      /\ ConfidenceThreshold <= 60
  BY WithoutBureau
<1>2. Len(FailureTypes(sound)) = 0
  <2>1. Count(sound.credit.failure) = 0 /\ Count(sound.bank.failure) = 0 /\ Count(sound.gst.failure) = 0
    BY <1>1 DEF Count
  <2>. QED BY <2>1, FailureCount
<1>3. Len(FailureTypes(res)) = 1 /\ FailureTypes(res) # <<>>
  <2>1. res.credit.failure # None
    BY NoneAssumption DEF UsedFallbackCredit, Failures
  <2>. QED BY <1>1, <2>1, BureauFailed
<1>4. CreditUsed(res) = 600
  BY DEF CreditUsed, CreditScore
<1>5. StabilityUsed(sound) = StabilityUsed(res) /\ StabilityUsed(res) \in Int
  BY DEF StabilityUsed, Typed
<1>6. CreditUsed(sound) \in Int
  BY DEF CreditUsed, CreditScore, Typed
<1>7. Points(sound) >= Points(res) - 9 * 2167
  <2>1. PICK b \in Int : b = Clamp(StabilityUsed(res), 0, 100)
    BY <1>5 DEF Clamp, Higher, Lower
  <2>2. PICK a \in Int : a = Clamp(CreditUsed(sound), 0, 900) /\ a >= 0
    BY <1>6 DEF Clamp, Higher, Lower
  <2>3. Clamp(600, 0, 900) = 600
    BY SMT DEF Clamp, Higher, Lower
  <2>4. Points(sound) = 40 * a + 180 * b - 4500 * 0
    BY <1>2, <1>5, <2>1, <2>2 DEF Points
  <2>5. Points(res) = 40 * 600 + 180 * b - 4500 * 1
    BY <1>3, <1>4, <2>1, <2>3 DEF Points
  <2>. QED BY <2>2, <2>4, <2>5
<1>8. GstCompliant(res) = GstCompliant(sound) /\ (Barred(res) <=> Barred(sound))
  BY SameRegister
<1>9. ScoreOf(sound, dti, None) >= ScoreOf(res, dti, None) - 2167
  BY <1>7, <1>8, ScoreMoves
<1>10. PICK s1 \in Nat : s1 = d1.score /\ s1 >= 8000
  BY <1>1 DEF IsDecision
<1>11. PICK s2 \in Nat : s2 = d2.score
  BY DEF IsDecision
<1>12. s2 >= 5833
  BY <1>9, <1>10, <1>11
<1>13. ~Barred(res) /\ dti < 50
  <2>1. RuleOf(res, dti, s1) = "APPROVE"
    BY <1>1, <1>10 DEF IsDecision
  <2>. QED BY <1>3, <2>1, ApprovalTakes
<1>14. d2.rule = "APPROVE"
  <2>1. RuleOf(sound, dti, s2) = "APPROVE"
    BY <1>8, <1>12, <1>13, ApprovalGiven
  <2>. QED BY <1>11, <2>1 DEF IsDecision
<1>15. ReliabilityOf(sound) = 100
  <2>1. ~UsedFallbackCredit(sound)
    BY NoneAssumption DEF UsedFallbackCredit, Failures
  <2>2. Cost(sound.credit.failure) = 0 /\ Cost(sound.bank.failure) = 0 /\ Cost(sound.gst.failure) = 0
    BY <1>1 DEF Cost
  <2>. QED BY <2>1, <2>2, ReliabilityLeft
<1>16. d2.confidence = RoundedProduct(100, BoundaryFactor(s2, "APPROVE"))
  BY <1>11, <1>14, <1>15 DEF IsDecision
<1>17. PICK f \in {70, 90, 100} : f = BoundaryFactor(s2, "APPROVE")
  BY <1>12, Factors
<1>18. RoundedProduct(100, f) >= 70
  BY SMT DEF RoundedProduct, HalvesBelow
<1>19. ~(d2.confidence < ConfidenceThreshold)
  BY <1>1, <1>16, <1>17, <1>18, RulesAssumption DEF IsDecision
<1>. QED BY <1>14, <1>19 DEF IsDecision

(* One failure fewer, when a statement is found again.                     *)
LEMMA StatementFound ==
  ASSUME NEW res, Typed(res), NEW sound, Typed(sound), sound.credit = res.credit,
         sound.gst = res.gst, sound.bank.failure = None, Lost(res.bank)
  PROVE  /\ FailureTypes(res) # <<>>
         /\ \E n \in 0..2 : Len(FailureTypes(sound)) = n /\ Len(FailureTypes(res)) = n + 1
<1>1. res.bank.failure # None
  BY NoneAssumption DEF Lost, Failures, Outages
<1>2. Count(sound.bank.failure) = 0 /\ Count(res.bank.failure) = 1
  BY <1>1 DEF Count
<1>3. PICK x \in {0, 1} : x = Count(res.credit.failure) /\ x = Count(sound.credit.failure)
  BY DEF Count
<1>4. PICK z \in {0, 1} : z = Count(res.gst.failure) /\ z = Count(sound.gst.failure)
  BY DEF Count
<1>5. /\ Len(FailureTypes(res)) =
           Count(res.credit.failure) + Count(res.bank.failure) + Count(res.gst.failure)
      /\ Len(FailureTypes(res)) # 0 => FailureTypes(res) # <<>>
  BY FailureCount
<1>6. Len(FailureTypes(sound)) =
        Count(sound.credit.failure) + Count(sound.bank.failure) + Count(sound.gst.failure)
  BY FailureCount
<1>7. PICK n \in 0..2 : n = x + z
  OBVIOUS
<1>8. Len(FailureTypes(res)) = n + 1
  BY <1>2, <1>3, <1>4, <1>5, <1>7
<1>9. Len(FailureTypes(sound)) = n
  BY <1>2, <1>3, <1>4, <1>6, <1>7
<1>10. FailureTypes(res) # <<>>
  BY <1>5, <1>8
<1>. QED BY <1>8, <1>9, <1>10

(* Finding the statement again is worth 30 points of reliability.          *)
LEMMA StatementCounts ==
  ASSUME NEW res, Typed(res), ~UsedFallbackCredit(res), Lost(res.bank),
         NEW sound, Typed(sound), sound.credit = res.credit, sound.gst = res.gst,
         sound.bank.failure = None
  PROVE  \/ ReliabilityOf(res) = 70 /\ ReliabilityOf(sound) = 100
         \/ ReliabilityOf(res) <= 60 /\ ReliabilityOf(sound) >= ReliabilityOf(res) + 10
              /\ (ReliabilityOf(res) > 54 => ReliabilityOf(res) = 60 /\ ReliabilityOf(sound) = 90)
<1>1. UsedFallbackCredit(sound) <=> UsedFallbackCredit(res)
  BY Zenon DEF UsedFallbackCredit
<1>2. Cost(res.bank.failure) = 30
  BY Costs DEF Lost
<1>3. Cost(sound.bank.failure) = 0
  BY DEF Cost
<1>4. PICK x \in {0, 10, 20, 30} : x = Cost(res.credit.failure) /\ x = Cost(sound.credit.failure)
  BY Costs DEF Typed
<1>5. PICK z \in {0, 10, 20, 30} : z = Cost(res.gst.failure) /\ z = Cost(sound.gst.failure)
  BY Costs DEF Typed
<1>6. ReliabilityOf(res) = IF 0 + x + 30 + z > 100 THEN 0 ELSE 100 - (0 + x + 30 + z)
  BY <1>2, <1>4, <1>5, ReliabilityLeft
<1>7. ReliabilityOf(sound) = IF 0 + x + 0 + z > 100 THEN 0 ELSE 100 - (0 + x + 0 + z)
  BY <1>1, <1>3, <1>4, <1>5, ReliabilityLeft
<1>. QED BY <1>6, <1>7

(* An approval without the statement stands with it: the score falls by    *)
(* 500 at most, which the reliability gained outweighs.                    *)
LEMMA StatementIsNoLoss ==
  ASSUME ConfidenceThreshold > 54, NEW dti \in Int,
         NEW res, Typed(res), ~UsedFallbackCredit(res), Lost(res.bank), res.bank.data = None,
         NEW sound, Typed(sound), sound.credit = res.credit, sound.gst = res.gst,
         sound.bank.failure = None,
         NEW d1, IsDecision(d1, res, dti), d1.score = ScoreOf(res, dti, None),
         d1.decision = "APPROVE",
         NEW d2, IsDecision(d2, sound, dti), d2.score = ScoreOf(sound, dti, None)
  PROVE  d2.decision = "APPROVE"
<1>1. PICK s1 \in Nat : s1 = d1.score
  BY DEF IsDecision
<1>2. PICK s2 \in Nat : s2 = d2.score
  BY DEF IsDecision
<1>3. PICK c1 \in Nat : c1 = d1.confidence /\ ~(c1 < ConfidenceThreshold)
  BY DEF IsDecision
<1>4. d1.rule = "APPROVE"
  BY <1>3 DEF IsDecision
<1>5. c1 = RoundedProduct(ReliabilityOf(res), BoundaryFactor(s1, "APPROVE"))
  BY <1>1, <1>3, <1>4 DEF IsDecision
<1>6. PICK r1 \in 0..100 : r1 = ReliabilityOf(res)
  BY Shares DEF Decisions
<1>7. PICK r2 \in 0..100 : r2 = ReliabilityOf(sound)
  BY Shares DEF Decisions
<1>8. \/ r1 = 70 /\ r2 = 100
      \/ r1 <= 60 /\ (r1 > 54 => r1 = 60 /\ r2 = 90)
  BY <1>6, <1>7, StatementCounts
<1>9. PICK f1 \in {60, 70, 90, 100} :
        /\ f1 = BoundaryFactor(s1, "APPROVE")
        /\ f1 = IF s1 >= 8000 THEN 100 ELSE IF s1 >= 7000 THEN 90 ELSE IF s1 >= 5500 THEN 70 ELSE 60
  BY Factors
<1>10. c1 = RoundedProduct(r1, f1) /\ c1 >= 55
  BY <1>3, <1>5, <1>6, <1>9, RulesAssumption
(* Which leaves two cases.                                                 *)
<1>11. \/ s1 >= 7000 /\ r2 = 100 /\ c1 <= 70
       \/ s1 >= 8000 /\ r2 = 90 /\ c1 <= 60
  <2>1. \A f \in {60, 70, 90, 100} : RoundedProduct(70, f) <= 70 /\ (RoundedProduct(70, f) >= 55 => f >= 90)
    BY SMT DEF RoundedProduct, HalvesBelow
  <2>2. \A f \in {60, 70, 90, 100} : RoundedProduct(60, f) <= 60 /\ (RoundedProduct(60, f) >= 55 => f = 100)
    BY SMT DEF RoundedProduct, HalvesBelow
  <2>3. CASE r1 = 70 /\ r2 = 100
    <3>1. c1 <= 70 /\ f1 >= 90
      BY <1>10, <2>1, <2>3
    <3>2. s1 >= 7000
      BY <1>9, <3>1
    <3>. QED BY <2>3, <3>1, <3>2
  <2>4. CASE r1 <= 60 /\ (r1 > 54 => r1 = 60 /\ r2 = 90)
    <3>1. c1 <= r1
      <4>1. \A b \in {50, 60, 70, 75, 85, 90, 100} : RoundedProduct(r1, b) \in 0..r1
        BY Products
      <4>2. RoundedProduct(r1, f1) \in 0..r1
        BY <4>1
      <4>. QED BY <1>10, <4>2, SMTT(60)
    <3>2. r1 = 60 /\ r2 = 90
      BY <1>10, <2>4, <3>1
    <3>3. c1 <= 60 /\ f1 = 100
      BY <1>10, <2>2, <3>2
    <3>4. s1 >= 8000
      BY <1>9, <3>3
    <3>. QED BY <3>2, <3>3, <3>4
  <2>. QED BY <1>8, <2>3, <2>4
<1>12. PICK n \in 0..2 : Len(FailureTypes(sound)) = n /\ Len(FailureTypes(res)) = n + 1
  BY StatementFound
<1>13. FailureTypes(res) # <<>>
  BY StatementFound
<1>14. CreditUsed(sound) = CreditUsed(res) /\ CreditUsed(res) \in Int
  <2>1. CreditScore(sound) = CreditScore(res)
    BY Zenon DEF CreditScore, UsedFallbackCredit
  <2>. QED BY <2>1 DEF CreditUsed, CreditScore, Typed
<1>15. StabilityUsed(res) = 50 /\ StabilityUsed(sound) \in Int
  BY DEF StabilityUsed, Typed
<1>16. Points(sound) >= Points(res) - 9 * 500
  <2>1. PICK a \in Int : a = Clamp(CreditUsed(res), 0, 900)
    BY <1>14 DEF Clamp, Higher, Lower
  <2>2. PICK b \in Int : b = Clamp(StabilityUsed(sound), 0, 100) /\ b >= 0
    BY <1>15 DEF Clamp, Higher, Lower
  <2>3. Clamp(50, 0, 100) = 50
    BY SMT DEF Clamp, Higher, Lower
  <2>4. Points(sound) = 40 * a + 180 * b - 4500 * n
    BY <1>12, <1>14, <2>1, <2>2 DEF Points
  <2>5. Points(res) = 40 * a + 180 * 50 - 4500 * (n + 1)
    BY <1>12, <1>15, <2>1, <2>3 DEF Points
  <2>. QED BY <2>2, <2>4, <2>5
<1>17. GstCompliant(res) = GstCompliant(sound) /\ (Barred(res) <=> Barred(sound))
  BY SameRegister
<1>18. ScoreOf(sound, dti, None) >= ScoreOf(res, dti, None) - 500
  BY <1>16, <1>17, ScoreMoves
<1>19. s2 >= s1 - 500
  BY <1>1, <1>2, <1>18
<1>20. ~Barred(res) /\ dti < 50
  <2>1. RuleOf(res, dti, s1) = "APPROVE"
    BY <1>1, <1>4 DEF IsDecision
  <2>. QED BY <1>13, <2>1, ApprovalTakes
<1>21. s2 >= 5500
  BY <1>11, <1>19
<1>22. d2.rule = "APPROVE"
  <2>1. RuleOf(sound, dti, s2) = "APPROVE"
    BY <1>17, <1>20, <1>21, ApprovalGiven
  <2>. QED BY <1>2, <2>1 DEF IsDecision
<1>23. d2.confidence = RoundedProduct(r2, BoundaryFactor(s2, "APPROVE"))
  BY <1>2, <1>7, <1>22 DEF IsDecision
<1>24. PICK f2 \in {70, 90, 100} :
         /\ f2 = BoundaryFactor(s2, "APPROVE")
         /\ s2 >= 7000 => f2 >= 90
  BY <1>21, Factors
<1>25. RoundedProduct(r2, f2) >= c1
  <2>1. \A f \in {70, 90, 100} : /\ RoundedProduct(100, f) >= 70
                                 /\ f >= 90 => RoundedProduct(90, f) >= 60
    BY SMT DEF RoundedProduct, HalvesBelow
  <2>2. CASE s1 >= 7000 /\ r2 = 100 /\ c1 <= 70
    <3>1. RoundedProduct(100, f2) >= 70 /\ RoundedProduct(100, f2) \in Int
      BY <2>1, SMT DEF RoundedProduct, HalvesBelow
    <3>. QED BY <2>2, <3>1
  <2>3. CASE s1 >= 8000 /\ r2 = 90 /\ c1 <= 60
    <3>1. f2 >= 90
      BY <1>19, <1>24, <2>3
    <3>2. RoundedProduct(90, f2) >= 60 /\ RoundedProduct(90, f2) \in Int
      BY <2>1, <3>1, SMT DEF RoundedProduct, HalvesBelow
    <3>. QED BY <2>3, <3>2
  <2>. QED BY <1>11, <2>2, <2>3
<1>26. ~(d2.confidence < ConfidenceThreshold)
  <2>1. PICK c2 \in Nat : c2 = d2.confidence
    BY DEF IsDecision
  <2>2. c2 >= c1
    BY <1>23, <1>24, <1>25, <2>1
  <2>. QED BY <1>3, <2>1, <2>2, RulesAssumption
<1>. QED BY <1>22, <1>26 DEF IsDecision

(* Losing the bureau or the bank statement is no way to a loan, at any     *)
(* threshold above 54, although the 600 points and the stability of 50     *)
(* that stand in may be better than the true figures.                      *)
THEOREM OutageNeverHelpsHolds ==
  ASSUME ConfidenceThreshold > 54
  PROVE  Spec => []OutageNeverHelps
<1>1. ASSUME EngineInd PROVE OutageNeverHelps
  <2>1. ASSUME output # None, output.strategy = "heuristic", output.decision = "APPROVE",
               NEW sound,
               sound = [results EXCEPT
                 !.credit = IF results.credit.failure \in Outages THEN Ok(applicant.credit) ELSE @,
                 !.bank   = IF Lost(results.bank) THEN Ok(applicant.stability) ELSE @]
        PROVE  ComputeDecision(sound, applicant.dti, None, None).decision = "APPROVE"
    <3>1. /\ Typed(results) /\ Returned /\ IsDecision(output, results, applicant.dti)
          /\ applicant.credit \in Int /\ applicant.stability \in Int /\ applicant.dti \in Int
          /\ output.score = ScoreOf(results, applicant.dti, None)
      BY <1>1, <2>1, Stored
    <3>2. results = [credit |-> results.credit, bank |-> results.bank, gst |-> results.gst]
      BY <3>1 DEF Returned
    <3>3. /\ results.credit.failure \in Outages => sound.credit = Ok(applicant.credit)
          /\ results.credit.failure \notin Outages => sound.credit = results.credit
          /\ Lost(results.bank) => sound.bank = Ok(applicant.stability)
          /\ ~Lost(results.bank) => sound.bank = results.bank
          /\ sound.gst = results.gst
      BY <2>1, <3>2
    <3>4. /\ Ok(applicant.credit).failure = None /\ Ok(applicant.credit).data = applicant.credit
          /\ Ok(applicant.stability).failure = None /\ Ok(applicant.stability).data = applicant.stability
      BY DEF Ok
    <3>5. Typed(sound)
      BY <3>1, <3>3, <3>4 DEF Typed
    <3>6. PICK d : d = ComputeDecision(sound, applicant.dti, None, None)
      OBVIOUS
    <3>7. IsDecision(d, sound, applicant.dti) /\ d.score = ScoreOf(sound, applicant.dti, None)
      BY <3>1, <3>5, <3>6, Alone
    <3>8. UsedFallbackCredit(results) <=> results.credit.failure \in Outages
      BY <3>1, CreditResults DEF Returned, UsedFallbackCredit
    <3>9. CASE results.credit.failure \in Outages
      <4>1. UsedFallbackCredit(results)
        BY <3>8, <3>9
      <4>2. results.bank.failure = None
        BY <2>1, <3>1, <4>1, WithoutBureau
      <4>3. ~Lost(results.bank)
        BY <4>2, NoneAssumption DEF Lost, Failures, Outages
      <4>4. sound.credit.failure = None /\ sound.bank = results.bank /\ sound.gst = results.gst
        BY <3>3, <3>4, <3>9, <4>3
      <4>5. PICK d1 : d1 = output
        OBVIOUS
      <4>6. PICK dti \in Int : dti = applicant.dti
        BY <3>1
      <4>7. /\ IsDecision(d1, results, dti) /\ d1.score = ScoreOf(results, dti, None)
            /\ IsDecision(d, sound, dti) /\ d.score = ScoreOf(sound, dti, None)
        BY <3>1, <3>7, <4>5, <4>6
      <4>8. d1.decision = "APPROVE" /\ Typed(results)
        BY <2>1, <3>1, <4>5
      <4>9. d.decision = "APPROVE"
        BY <3>5, <4>1, <4>4, <4>7, <4>8, ReportIsNoLoss
      <4>. QED BY <3>6, <4>9
    <3>10. CASE results.credit.failure \notin Outages /\ Lost(results.bank)
      <4>1. ~UsedFallbackCredit(results)
        BY <3>8, <3>10
      <4>2. results.bank.data = None
        BY <3>1, <3>10, BankResults DEF Returned
      <4>3. sound.credit = results.credit /\ sound.bank.failure = None /\ sound.gst = results.gst
        BY <3>3, <3>4, <3>10
      <4>4. d.decision = "APPROVE"
        BY <2>1, <3>1, <3>5, <3>7, <3>10, <4>1, <4>2, <4>3, StatementIsNoLoss
      <4>. QED BY <3>6, <4>4
    <3>11. CASE results.credit.failure \notin Outages /\ ~Lost(results.bank)
      <4>1. sound = results
        BY <2>1, <3>2, <3>11
      <4>2. d.score = output.score /\ d.score <= d.score
        BY <3>1, <3>7, <4>1 DEF IsDecision
      <4>3. d.rule = output.rule /\ d.confidence = output.confidence
        BY <3>1, <3>7, <4>1, <4>2 DEF IsDecision
      <4>4. d.decision = output.decision
        BY <3>1, <3>7, <4>3 DEF IsDecision
      <4>. QED BY <2>1, <3>6, <4>4
    <3>. QED BY <3>9, <3>10, <3>11
  <2>. QED BY <2>1 DEF OutageNeverHelps, Answered
<1>. QED BY <1>1, EngineInvariant, PTL

-----------------------------------------------------------------------------
(* What is told of a decision                                              *)

(* The rows of a trail, as a set.                                          *)
Rows(s) == {s[i] : i \in DOMAIN s}

LEMMA JoinedRows ==
  ASSUME NEW S, NEW s \in Seq(S), NEW t \in Seq(S)
  PROVE  s \o t \in Seq(S) /\ Rows(s \o t) = Rows(s) \cup Rows(t)
<1>1. /\ s \o t \in Seq(S) /\ Len(s \o t) = Len(s) + Len(t)
      /\ Len(s) \in Nat /\ Len(t) \in Nat
      /\ DOMAIN (s \o t) = 1..(Len(s) + Len(t)) /\ DOMAIN s = 1..Len(s) /\ DOMAIN t = 1..Len(t)
  OBVIOUS
<1>2. ASSUME NEW i \in DOMAIN (s \o t) PROVE (s \o t)[i] \in Rows(s) \cup Rows(t)
  <2>1. CASE i <= Len(s)
    BY <1>1, <2>1 DEF Rows
  <2>2. CASE i > Len(s)
    <3>1. i - Len(s) \in DOMAIN t /\ (s \o t)[i] = t[i - Len(s)]
      BY <1>1, <2>2
    <3>. QED BY <3>1 DEF Rows
  <2>. QED BY <1>1, <2>1, <2>2
<1>3. ASSUME NEW i \in DOMAIN s PROVE s[i] \in Rows(s \o t)
  <2>1. i \in DOMAIN (s \o t) /\ (s \o t)[i] = s[i]
    BY <1>1
  <2>. QED BY <2>1 DEF Rows
<1>4. ASSUME NEW i \in DOMAIN t PROVE t[i] \in Rows(s \o t)
  <2>1. i + Len(s) \in DOMAIN (s \o t) /\ (s \o t)[i + Len(s)] = t[i]
    BY <1>1
  <2>. QED BY <2>1 DEF Rows
<1>. QED BY <1>1, <1>2, <1>3, <1>4 DEF Rows

LEMMA FewRows ==
  /\ Rows(<<>>) = {}
  /\ \A a : Rows(<<a>>) = {a}
  /\ \A a, b, c : Rows(<<a, b, c>>) = {a, b, c}
<1>1. Rows(<<>>) = {}
  <2>1. DOMAIN <<>> = {}
    OBVIOUS
  <2>. QED BY <2>1 DEF Rows
<1>2. ASSUME NEW a PROVE Rows(<<a>>) = {a}
  <2>1. DOMAIN <<a>> = {1} /\ <<a>>[1] = a
    OBVIOUS
  <2>. QED BY <2>1, Zenon DEF Rows
<1>3. ASSUME NEW a, NEW b, NEW c PROVE Rows(<<a, b, c>>) = {a, b, c}
  <2>. DEFINE s == <<a, b, c>>
  <2>1. DOMAIN s = {1, 2, 3} /\ s[1] = a /\ s[2] = b /\ s[3] = c
    OBVIOUS
  <2>. HIDE DEF s
  <2>2. Rows(s) = {a, b, c}
    BY <2>1 DEF Rows
  <2>. QED BY <2>2 DEF s
<1>. QED BY <1>1, <1>2, <1>3

(* The rows the providers' answers left, and the one of a scoring attempt. *)
Fetched(res) ==
  <<FetchRow("CREDIT_BUREAU_FETCH", res.credit), FetchRow("BANK_ANALYZER_FETCH", res.bank),
    FetchRow("GST_VERIFIER_FETCH", res.gst)>>
MLRow(ml) == [step |-> "ML_SCORING", error |-> ml.error, fallback |-> ml.fallback]

(* Rows of later steps that are never degraded, or no cause of a provider. *)
LaterSteps == {"DRIFT_DETECTED", "DECISION_CALCULATION", "MANUAL_REVIEW_OVERRIDE",
               "MANUAL_REVIEW_ROUTING"}

(* Every row of a decided application is a provider's, the model's, or one *)
(* of the later steps; the first are always there, the second when a score *)
(* was requested, and a drift warning only with drift.                     *)
LEMMA RowsOfDecision ==
  ASSUME NEW res, NEW out
  PROVE  LET all == Rows(Fetched(res) \o DecisionRows(out))
         IN  /\ Rows(Fetched(res)) \subseteq all
             /\ out.ml # None => MLRow(out.ml) \in all
             /\ \A r \in all :
                  \/ r \in Rows(Fetched(res))
                  \/ out.ml # None /\ r = MLRow(out.ml)
                  \/ /\ r.step \in LaterSteps
                     /\ r.step = "DRIFT_DETECTED" => out.ml # None
<1>. DEFINE F == Fetched(res)
            A == IF out.ml = None THEN <<>> ELSE <<MLRow(out.ml)>>
            drifted == [step |-> "DRIFT_DETECTED", error |-> None, fallback |-> FALSE]
            B == IF out.ml # None /\ out.ml.drift # {} THEN <<drifted>> ELSE <<>>
            calculated == [step |-> "DECISION_CALCULATION", error |-> None, fallback |-> FALSE]
            C == <<calculated>>
            reviewed == [step |-> IF out.requiresManualReview THEN "MANUAL_REVIEW_OVERRIDE"
                                  ELSE "MANUAL_REVIEW_ROUTING",
                         error |-> None, fallback |-> out.requiresManualReview]
            D == IF out.decision # "NEEDS_REVIEW" THEN <<>> ELSE <<reviewed>>
            S == Rows(F) \cup {MLRow(out.ml), drifted, calculated, reviewed}
<1>1. DecisionRows(out) = A \o B \o C \o D
  BY DEF DecisionRows, MLRow
<1>2. F \in Seq(S) /\ A \in Seq(S) /\ B \in Seq(S) /\ C \in Seq(S) /\ D \in Seq(S)
  <2>. DEFINE a == FetchRow("CREDIT_BUREAU_FETCH", res.credit)
              b == FetchRow("BANK_ANALYZER_FETCH", res.bank)
              c == FetchRow("GST_VERIFIER_FETCH", res.gst)
              m == MLRow(out.ml)
  <2>1. F = <<a, b, c>> /\ Rows(F) = {a, b, c}
    BY FewRows DEF Fetched
  <2>2. a \in S /\ b \in S /\ c \in S /\ m \in S /\ drifted \in S /\ calculated \in S /\ reviewed \in S
    BY <2>1
  <2>. HIDE DEF S, F, a, b, c, m, drifted, calculated, reviewed
  <2>3. F \in Seq(S)
    BY <2>1, <2>2
  <2>4. A \in Seq(S)
    BY <2>2 DEF m
  <2>5. B \in Seq(S) /\ C \in Seq(S) /\ D \in Seq(S)
    BY <2>2
  <2>. QED BY <2>3, <2>4, <2>5
<1>3. /\ Rows(A) = (IF out.ml = None THEN {} ELSE {MLRow(out.ml)})
      /\ Rows(B) = (IF out.ml # None /\ out.ml.drift # {} THEN {drifted} ELSE {})
      /\ Rows(C) = {calculated}
      /\ Rows(D) = (IF out.decision # "NEEDS_REVIEW" THEN {} ELSE {reviewed})
  <2>. HIDE DEF drifted, calculated, reviewed
  <2>. QED BY FewRows
<1>4. /\ drifted.step = "DRIFT_DETECTED" /\ calculated.step = "DECISION_CALCULATION"
      /\ reviewed.step \in {"MANUAL_REVIEW_OVERRIDE", "MANUAL_REVIEW_ROUTING"}
  OBVIOUS
<1>. HIDE DEF A, B, C, D, F, S, drifted, calculated, reviewed
<1>. DEFINE AB == A \o B
            ABC == AB \o C
            ABCD == ABC \o D
<1>5. DecisionRows(out) = ABCD
  BY <1>1
<1>6. AB \in Seq(S) /\ Rows(AB) = Rows(A) \cup Rows(B)
  BY <1>2, JoinedRows
<1>. HIDE DEF AB
<1>7. ABC \in Seq(S) /\ Rows(ABC) = Rows(AB) \cup Rows(C)
  BY <1>2, <1>6, JoinedRows
<1>. HIDE DEF ABC
<1>8. ABCD \in Seq(S) /\ Rows(ABCD) = Rows(ABC) \cup Rows(D)
  BY <1>2, <1>7, JoinedRows
<1>. HIDE DEF ABCD
<1>9. Rows(F \o DecisionRows(out)) = Rows(F) \cup Rows(A) \cup Rows(B) \cup Rows(C) \cup Rows(D)
  BY <1>2, <1>5, <1>6, <1>7, <1>8, JoinedRows
<1>. QED BY <1>3, <1>4, <1>9 DEF F, LaterSteps

(* A result that fell back has a failure.                                  *)
LEMMA FallbackIsFailure ==
  ASSUME EngineInd, results # None
  PROVE  /\ results.credit.fallback => results.credit.failure # None
         /\ results.bank.fallback => results.bank.failure # None
         /\ results.gst.fallback => results.gst.failure # None
<1>0. /\ applicant.credit \in Int /\ applicant.stability \in Int /\ applicant.gst \in BOOLEAN
      /\ Returned
  BY EngineAssumption DEF EngineInd
<1>1. \A f \in Outages \cup {"FORMAT_ERROR", "NO_RECORD"} : f # None /\ Failed(f).failure = f
  BY NoneAssumption DEF Failures, Outages, Failed
<1>2. "PARTIAL_DATA" # None /\ "PAN_MISMATCH" # None
  BY NoneAssumption DEF Failures
<1>3. results.credit.fallback => results.credit.failure # None
  BY <1>0, <1>1, CreditResults DEF Returned
<1>4. ASSUME NEW r \in BankAnalyze(applicant.stability), r.fallback PROVE r.failure # None
  <2>1. CASE r = Ok(applicant.stability) \/ r = Ok(None)
    BY <1>4, <2>1 DEF Ok
  <2>2. CASE r = [failure |-> "PARTIAL_DATA", fallback |-> FALSE, data |-> None]
    BY <1>2, <2>2
  <2>3. CASE \E q \in Failing : r = [q EXCEPT !.fallback = @ \/ q.failure = "FORMAT_ERROR"]
    <3>1. PICK f \in Outages \cup {"FORMAT_ERROR", "NO_RECORD"} :
            \E b : r = [Failed(f) EXCEPT !.fallback = b]
      BY <2>3 DEF Failing
    <3>. QED BY <1>1, <3>1 DEF Failed
  <2>. QED BY <1>4, <2>1, <2>2, <2>3 DEF BankAnalyze
<1>5. ASSUME NEW r \in GstVerify(applicant.gst), r.fallback PROVE r.failure # None
  <2>1. CASE r = Ok(applicant.gst) \/ r = Ok(None)
    BY <1>5, <2>1 DEF Ok
  <2>2. CASE r = [failure |-> "PAN_MISMATCH", fallback |-> TRUE, data |-> FALSE]
    BY <1>2, <2>2
  <2>3. CASE \E q \in Failing :
               r = IF q.failure = "NO_RECORD" THEN [q EXCEPT !.data = FALSE, !.fallback = TRUE] ELSE q
    <3>1. PICK f \in Outages \cup {"FORMAT_ERROR", "NO_RECORD"} :
            \/ r = Failed(f)
            \/ r = [Failed(f) EXCEPT !.data = FALSE, !.fallback = TRUE]
      BY <2>3, ZenonT(60) DEF Failing
    <3>. QED BY <1>1, <3>1 DEF Failed
  <2>. QED BY <1>5, <2>1, <2>2, <2>3 DEF GstVerify
<1>. QED BY <1>0, <1>3, <1>4, <1>5 DEF Returned

(* A scoring attempt that went wrong fell back.                            *)
LEMMA ErrorIsFallback ==
  ASSUME NEW mode \in MLModes, NEW p, NEW drift, MLOutcome(mode, p, drift).error # None
  PROVE  MLOutcome(mode, p, drift).fallback = TRUE
<1>1. ASSUME NEW reason, NEW error, NEW q
      PROVE  Fallback(reason, error, q).fallback = TRUE
  BY DEF Fallback
<1>2. CASE mode \in {"MODEL_UNAVAILABLE", "TIMEOUT"}
  <2>1. MLOutcome(mode, p, drift) = Fallback(mode, mode, None)
    BY <1>2, Zenon DEF MLOutcome
  <2>. QED BY <1>1, <2>1, Zenon
<1>3. CASE mode = "FORCE_LOW_CONFIDENCE"
  <2>1. MLOutcome(mode, p, drift) = Fallback(mode, None, 40)
    BY <1>3 DEF MLOutcome
  <2>. QED BY <1>1, <2>1, Zenon
<1>4. CASE mode \in {"SCORED", "SCORED_WITHOUT_SNAPSHOT"}
  <2>. DEFINE low == Higher(p, 100 - p) < ConfidenceThreshold
              scored == [used |-> TRUE, fallback |-> FALSE, reason |-> None, error |-> None,
                         p |-> p, score |-> (100 - p) * 100, drift |-> {}]
  <2>1. PICK e : MLOutcome(mode, p, drift)
                   = [(IF low THEN Fallback("LOW_CONFIDENCE", None, p) ELSE scored) EXCEPT !.drift = e]
    BY <1>4 DEF MLOutcome
  <2>2. CASE low
    BY <2>1, <2>2 DEF Fallback
  <2>3. CASE ~low
    <3>1. MLOutcome(mode, p, drift) = [scored EXCEPT !.drift = e]
      BY <2>1, <2>3, Zenon
    <3>2. MLOutcome(mode, p, drift).error = None
      BY <3>1
    <3>. QED BY <3>2
  <2>. QED BY <2>2, <2>3
<1>. QED BY <1>2, <1>3, <1>4 DEF MLModes

(* What drifts is what the detector says drifts, if anything.              *)
LEMMA DriftIsDetected ==
  ASSUME NEW mode \in MLModes, NEW p, NEW drift
  PROVE  MLOutcome(mode, p, drift).drift \subseteq drift
<1>1. ASSUME NEW reason, NEW error, NEW q PROVE Fallback(reason, error, q).drift = {}
  BY DEF Fallback
<1>2. CASE mode \in {"MODEL_UNAVAILABLE", "TIMEOUT"}
  <2>1. MLOutcome(mode, p, drift) = Fallback(mode, mode, None)
    BY <1>2, Zenon DEF MLOutcome
  <2>. QED BY <1>1, <2>1
<1>3. CASE mode = "FORCE_LOW_CONFIDENCE"
  <2>1. MLOutcome(mode, p, drift) = Fallback(mode, None, 40)
    BY <1>3 DEF MLOutcome
  <2>. QED BY <1>1, <2>1
<1>4. CASE mode \in {"SCORED", "SCORED_WITHOUT_SNAPSHOT"}
  <2>. DEFINE low == Higher(p, 100 - p) < ConfidenceThreshold
              scored == [used |-> TRUE, fallback |-> FALSE, reason |-> None, error |-> None,
                         p |-> p, score |-> (100 - p) * 100, drift |-> {}]
              e == IF mode = "SCORED" THEN drift ELSE {}
  <2>1. MLOutcome(mode, p, drift)
          = [(IF low THEN Fallback("LOW_CONFIDENCE", None, p) ELSE scored) EXCEPT !.drift = e]
    BY <1>4, Zenon DEF MLOutcome
  <2>2. MLOutcome(mode, p, drift).drift = e
    <3>1. CASE low
      BY <2>1, <3>1 DEF Fallback
    <3>2. CASE ~low
      <4>1. MLOutcome(mode, p, drift) = [scored EXCEPT !.drift = e]
        BY <2>1, <3>2, Zenon
      <4>. QED BY <4>1
    <3>. QED BY <3>1, <3>2
  <2>. QED BY <2>2
<1>. QED BY <1>2, <1>3, <1>4 DEF MLModes

(* With few reference values what drifts lies beyond all of them.          *)
LEMMA DriftIsBeyond ==
  ASSUME FewReferences(Snapshot), NEW row, NEW f \in DetectDrift(row, Snapshot)
  PROVE  \/ \A i \in DOMAIN Snapshot[f] : row[f] < Snapshot[f][i]
         \/ \A i \in DOMAIN Snapshot[f] : row[f] > Snapshot[f][i]
<1>. DEFINE ref == Snapshot[f]
            n == Len(ref)
            below == {i \in DOMAIN ref : ref[i] < row[f]}
            above == {i \in DOMAIN ref : ref[i] > row[f]}
            k == KSDistance(ref, row[f])
<1>1. Significant(k, n) /\ f \in DOMAIN Snapshot
  BY DEF DetectDrift
<1>2. /\ DOMAIN ref = 1..n /\ n \in Nat
      /\ \A j \in 0..(n - 1) : ~Significant(j, n)
  BY <1>1 DEF FewReferences
<1>3. k = Cardinality(below) \/ k = Cardinality(above)
  BY DEF KSDistance
<1>4. IsFiniteSet(1..n) /\ Cardinality(1..n) = n
  <2>1. 1 \in Int /\ n \in Int /\ n - 1 + 1 = (IF 1 > n THEN 0 ELSE n)
    BY <1>2
  <2>. QED BY <1>2, <2>1, FS_Interval
<1>5. below \subseteq 1..n /\ above \subseteq 1..n
  BY <1>2
<1>. HIDE DEF below, above, n, k
<1>6. \A T \in SUBSET (1..n) : /\ Cardinality(T) \in Nat /\ Cardinality(T) <= n
                               /\ Cardinality(T) = n => T = 1..n
  BY <1>4, FS_Subset, FS_CardinalityType
<1>7. k \in Nat /\ k <= n
  BY <1>3, <1>5, <1>6
<1>8. k = n
  BY <1>1, <1>2, <1>7
<1>9. below = 1..n \/ above = 1..n
  BY <1>3, <1>5, <1>6, <1>8
<1>10. \A i \in DOMAIN ref : i \in 1..n
  BY <1>2
<1>11. CASE below = 1..n
  BY <1>10, <1>11 DEF below
<1>12. CASE above = 1..n
  BY <1>10, <1>12 DEF above
<1>. QED BY <1>9, <1>11, <1>12

(* Inductive with EngineInd: the trail is what the fetches and the stored  *)
(* decision left, and the explanation was built from it.                   *)
TrailInd ==
  /\ results # None =>
       trail = (IF output = None THEN Fetched(results)
                ELSE Fetched(results) \o DecisionRows(output))
  /\ explanation # None => explanation = BuildExplanation(trail, output)

(* Every step but its own leaves what was explained as it was.             *)
LEMMA TrailInvariant == Spec => [](EngineInd /\ TrailInd)
<1>1. Init => TrailInd
  BY DEF Init, TrailInd
<1>2. ASSUME EngineInd, TrailInd, [Next]_vars PROVE TrailInd'
  <2>1. CASE Fetch
    <3>1. /\ results = None /\ output = None /\ explanation = None
          /\ output' = None /\ explanation' = None
      BY <1>2, <2>1 DEF Fetch, EngineInd
    <3>2. trail' = Fetched(results')
      BY <2>1 DEF Fetch, Fetched
    <3>. QED BY <3>1, <3>2 DEF TrailInd
  <2>2. CASE Decide
    <3>1. /\ output = None /\ explanation = None /\ explanation' = None
          /\ results # None /\ results' = results /\ trail' = trail \o DecisionRows(output')
      BY <1>2, <2>2 DEF Decide, EngineInd
    <3>2. output' # None
      <4>. DEFINE arm == AssignArm(bucket, env.ratio)
      <4>1. PICK ml \in (IF MLRequested(env, arm)
                           THEN {MLScore(mode, results, applicant.dti) : mode \in MLModes}
                           ELSE {None}) :
              output' = ComputeDecision(results, applicant.dti, ml, arm)
        BY <2>2 DEF Decide
      <4>2. arm \in {None, "ml", "heuristic"}
        BY DEF AssignArm
      <4>3. ml \in {None} \cup {MLScore(mode, results, applicant.dti) : mode \in MLModes}
        BY <4>1
      <4>4. applicant \in Applicants /\ Returned
        BY <1>2, <3>1 DEF EngineInd
      <4>. HIDE DEF arm
      <4>5. ComputeDecision(results, applicant.dti, ml, arm) # None
        BY <4>2, <4>3, <4>4, OutputAssumption, Zenon DEF Returned
      <4>. QED BY <4>1, <4>5
    <3>3. trail = Fetched(results)
      BY <1>2, <3>1 DEF TrailInd
    <3>4. Fetched(results)' = Fetched(results)
      BY <3>1 DEF Fetched
    <3>. QED BY <3>1, <3>2, <3>3, <3>4 DEF TrailInd
  <2>3. CASE GetExplanation
    <3>1. /\ results' = results /\ output' = output /\ trail' = trail
          /\ explanation' = BuildExplanation(trail, output)
      BY <2>3 DEF GetExplanation
    <3>2. Fetched(results)' = Fetched(results) /\ DecisionRows(output)' = DecisionRows(output)
      BY <3>1 DEF Fetched, DecisionRows
    <3>3. BuildExplanation(trail, output)' = BuildExplanation(trail, output)
      BY <3>1, Zenon DEF BuildExplanation, DegradedSteps
    <3>. QED BY <1>2, <3>1, <3>2, <3>3, Zenon DEF TrailInd
  <2>4. CASE UNCHANGED vars
    <3>1. results' = results /\ output' = output /\ trail' = trail /\ explanation' = explanation
      BY <2>4 DEF vars
    <3>. QED BY <1>2, <3>1 DEF TrailInd, Fetched
  <2>. QED BY <1>2, <2>1, <2>2, <2>3, <2>4 DEF Next
<1>3. EngineInd /\ TrailInd /\ [Next]_vars => TrailInd'
  BY <1>2
<1>. QED BY <1>1, <1>3, EngineInvariant, PTL DEF Spec

(* The client is told what happened, whatever the applicant, the model and *)
(* the routing: exactly the providers that failed, a fallback of the model *)
(* if there was one, the decision and rules that were stored, a reliability*)
(* below 100 only with a provider named, and features as drifted only where*)
(* they lie beyond a reference of so few values.                           *)
THEOREM ExplanationNamesFailuresHolds ==
  ASSUME FewReferences(Snapshot)
  PROVE  Spec => []ExplanationNamesFailures
<1>1. ASSUME EngineInd, TrailInd, explanation # None PROVE ExplanationNamesFailures
  <2>. DEFINE Degraded(r) == r.error # None \/ r.fallback
              Told(step) == \E i \in DOMAIN explanation.causes : explanation.causes[i].step = step
              Named(step) == \E r \in Rows(trail) : Degraded(r) /\ r.step = step
  <2>1. output # None /\ results # None
    BY <1>1 DEF EngineInd
  <2>2. trail = Fetched(results) \o DecisionRows(output) /\ explanation = BuildExplanation(trail, output)
    BY <1>1, <2>1 DEF TrailInd
  <2>3. /\ explanation.causes = [i \in DegradedSteps(trail) |->
               [step   |-> trail[i].step,
                status |-> IF trail[i].error = None THEN "fallback" ELSE trail[i].error]]
        /\ explanation.decision = output.decision
        /\ explanation.ruleVersion = output.ruleVersion
        /\ DegradedSteps(trail) # {} => explanation.template # "VERIFIED_DATA_SOURCES"
        /\ explanation.drift = IF \E i \in DOMAIN trail : trail[i].step = "DRIFT_DETECTED"
                                 THEN FirstThree(output.ml.drift) ELSE {}
    BY <2>2 DEF BuildExplanation
  <2>4. \A step : Told(step) <=> Named(step)
    <3>1. \A i \in DegradedSteps(trail) : explanation.causes[i].step = trail[i].step
      BY <2>3
    <3>2. DOMAIN explanation.causes = DegradedSteps(trail)
      BY <2>3
    <3>. QED BY <3>1, <3>2 DEF Rows, DegradedSteps
  <2>5. /\ Rows(Fetched(results)) \subseteq Rows(trail)
        /\ output.ml # None => MLRow(output.ml) \in Rows(trail)
        /\ \A r \in Rows(trail) :
             \/ r \in Rows(Fetched(results))
             \/ output.ml # None /\ r = MLRow(output.ml)
             \/ r.step \in LaterSteps /\ (r.step = "DRIFT_DETECTED" => output.ml # None)
    BY <2>2, RowsOfDecision
  <2>6. Rows(Fetched(results)) = {FetchRow("CREDIT_BUREAU_FETCH", results.credit),
                                  FetchRow("BANK_ANALYZER_FETCH", results.bank),
                                  FetchRow("GST_VERIFIER_FETCH", results.gst)}
    BY FewRows DEF Fetched
  <2>7. \A step, x : /\ FetchRow(step, x).step = step
                     /\ FetchRow(step, x).error = x.failure
                     /\ FetchRow(step, x).fallback = x.fallback
    BY DEF FetchRow
  <2>8. \A x : MLRow(x).step = "ML_SCORING" /\ MLRow(x).error = x.error /\ MLRow(x).fallback = x.fallback
    BY DEF MLRow
  <2>. HIDE DEF Told
  <2>9. /\ results.credit.failure # None <=> Told("CREDIT_BUREAU_FETCH")
        /\ results.bank.failure # None <=> Told("BANK_ANALYZER_FETCH")
        /\ results.gst.failure # None <=> Told("GST_VERIFIER_FETCH")
    <3>1. /\ results.credit.fallback => results.credit.failure # None
          /\ results.bank.fallback => results.bank.failure # None
          /\ results.gst.fallback => results.gst.failure # None
      BY <1>1, <2>1, FallbackIsFailure
    <3>. DEFINE c == FetchRow("CREDIT_BUREAU_FETCH", results.credit)
                b == FetchRow("BANK_ANALYZER_FETCH", results.bank)
                g == FetchRow("GST_VERIFIER_FETCH", results.gst)
    <3>10. ASSUME NEW step, NEW x, x.fallback => x.failure # None
           PROVE  Degraded(FetchRow(step, x)) <=> x.failure # None
      <4>1. FetchRow(step, x).error = x.failure /\ FetchRow(step, x).fallback = x.fallback
        BY <2>7
      <4>. QED BY <3>10, <4>1, Zenon
    <3>2. /\ c.step = "CREDIT_BUREAU_FETCH" /\ b.step = "BANK_ANALYZER_FETCH" /\ g.step = "GST_VERIFIER_FETCH"
          /\ Degraded(c) <=> results.credit.failure # None
          /\ Degraded(b) <=> results.bank.failure # None
          /\ Degraded(g) <=> results.gst.failure # None
      BY <2>7, <3>1, <3>10, Zenon
    <3>3. Rows(Fetched(results)) = {c, b, g}
      BY <2>6
    <3>4. \A r \in Rows(trail) :
            \/ r \in {c, b, g}
            \/ r.step \in {"ML_SCORING", "DRIFT_DETECTED", "DECISION_CALCULATION",
                           "MANUAL_REVIEW_OVERRIDE", "MANUAL_REVIEW_ROUTING"}
      BY <2>5, <2>8, <3>3 DEF LaterSteps
    <3>5. c \in Rows(trail) /\ b \in Rows(trail) /\ g \in Rows(trail)
      BY <2>5, <3>3
    <3>. HIDE DEF c, b, g, Degraded
    <3>6. /\ Named("CREDIT_BUREAU_FETCH") <=> Degraded(c)
          /\ Named("BANK_ANALYZER_FETCH") <=> Degraded(b)
          /\ Named("GST_VERIFIER_FETCH") <=> Degraded(g)
      BY <3>2, <3>4, <3>5
    <3>. HIDE DEF Named
    <3>. QED BY <2>4, <3>2, <3>6
  <2>10. output.ml # None /\ output.ml.fallback <=> Told("ML_SCORING")
    <3>1. ASSUME output.ml # None, output.ml.error # None PROVE output.ml.fallback = TRUE
      <4>1. PICK ml, arm : Scored(ml) /\ output = ComputeDecision(results, applicant.dti, ml, arm)
        BY <1>1, <2>1 DEF EngineInd, Computed
      <4>2. output.ml = ml
        BY <4>1 DEF ComputeDecision
      <4>3. PICK mode \in MLModes : ml = MLScore(mode, results, applicant.dti)
        BY <3>1, <4>1, <4>2 DEF Scored
      <4>4. PICK p, drift : ml = MLOutcome(mode, p, drift)
        BY <4>3, Zenon DEF MLScore
      <4>. QED BY <3>1, <4>2, <4>4, ErrorIsFallback
    <3>2. \A r \in Rows(trail) : r.step = "ML_SCORING" => output.ml # None /\ r = MLRow(output.ml)
      <4>1. \A r \in Rows(Fetched(results)) : r.step # "ML_SCORING"
        BY <2>6, <2>7
      <4>. QED BY <2>5, <4>1 DEF LaterSteps
    <3>3. Named("ML_SCORING") => output.ml # None /\ output.ml.fallback
      BY <2>8, <3>1, <3>2
    <3>4. output.ml # None /\ output.ml.fallback => Named("ML_SCORING")
      BY <2>5, <2>8
    <3>. HIDE DEF Named
    <3>. QED BY <2>4, <3>3, <3>4
  <2>11. DOMAIN explanation.causes # {} => explanation.template # "VERIFIED_DATA_SOURCES"
    BY <2>3
  <2>12. GetDecision.decision = output.decision /\ GetDecision.ruleVersion = output.ruleVersion
         /\ GetDecision.dataReliability = output.reliability
    BY <2>1 DEF GetDecision
  <2>13. output.reliability < 100 <=>
           \E step \in {"CREDIT_BUREAU_FETCH", "BANK_ANALYZER_FETCH", "GST_VERIFIER_FETCH"} : Told(step)
    <3>1. Typed(results) /\ IsDecision(output, results, applicant.dti)
      BY <1>1, <2>1, Stored
    <3>2. PICK b, x, y, z \in Nat :
            /\ b # 0 => UsedFallbackCredit(results)
            /\ x = Cost(results.credit.failure) /\ y = Cost(results.bank.failure) /\ z = Cost(results.gst.failure)
            /\ x \in {0, 10, 20, 30} /\ y \in {0, 10, 20, 30} /\ z \in {0, 10, 20, 30}
            /\ ReliabilityOf(results) = IF b + x + y + z > 100 THEN 0 ELSE 100 - (b + x + y + z)
      BY <3>1, ReliabilityLeft
    <3>3. output.reliability = ReliabilityOf(results)
      BY <3>1 DEF IsDecision
    <3>4. /\ x = 0 <=> results.credit.failure = None
          /\ y = 0 <=> results.bank.failure = None
          /\ z = 0 <=> results.gst.failure = None
      BY <3>1, <3>2, Costs DEF Typed
    <3>5. b # 0 => results.credit.failure # None
      BY <3>2, NoneAssumption DEF UsedFallbackCredit, Outages, Failures
    <3>6. output.reliability < 100 <=> x # 0 \/ y # 0 \/ z # 0
      <4>1. b # 0 => x # 0
        BY <3>4, <3>5
      <4>2. PICK r : r = output.reliability /\ r = IF b + x + y + z > 100 THEN 0 ELSE 100 - (b + x + y + z)
        BY <3>2, <3>3
      <4>3. r < 100 <=> b + x + y + z > 0
        BY <4>2, SMT
      <4>4. b + x + y + z > 0 <=> x # 0 \/ y # 0 \/ z # 0
        BY <4>1, SMT
      <4>. QED BY <4>2, <4>3, <4>4
    <3>. QED BY <2>9, <3>4, <3>6
  <2>14. ASSUME NEW f \in explanation.drift
         PROVE  LET figure == FeatureRow(results, applicant.dti)[f]
                IN  \/ \A i \in DOMAIN Snapshot[f] : figure < Snapshot[f][i]
                    \/ \A i \in DOMAIN Snapshot[f] : figure > Snapshot[f][i]
    <3>1. PICK i \in DOMAIN trail : trail[i].step = "DRIFT_DETECTED"
      BY <2>3, <2>14
    <3>2. f \in output.ml.drift
      BY <2>3, <2>14 DEF FirstThree
    <3>3. output.ml # None
      <4>1. trail[i] \in Rows(trail)
        BY <3>1 DEF Rows
      <4>2. \A r \in Rows(Fetched(results)) : r.step # "DRIFT_DETECTED"
        BY <2>6, <2>7
      <4>. QED BY <2>5, <3>1, <4>1, <4>2
    <3>4. PICK ml, arm : Scored(ml) /\ output = ComputeDecision(results, applicant.dti, ml, arm)
      BY <1>1, <2>1 DEF EngineInd, Computed
    <3>5. output.ml = ml
      BY <3>4 DEF ComputeDecision
    <3>6. PICK mode \in MLModes : ml = MLScore(mode, results, applicant.dti)
      BY <3>3, <3>4, <3>5 DEF Scored
    <3>7. ml.drift \subseteq DetectDrift(FeatureRow(results, applicant.dti), Snapshot)
      <4>1. ml = MLOutcome(mode, DefaultProbability(FeatureRow(results, applicant.dti)),
                           DetectDrift(FeatureRow(results, applicant.dti), Snapshot))
        BY <3>6, Zenon DEF MLScore
      <4>. QED BY <4>1, DriftIsDetected
    <3>8. f \in DetectDrift(FeatureRow(results, applicant.dti), Snapshot)
      BY <3>2, <3>5, <3>7
    <3>. QED BY <3>8, DriftIsBeyond
  <2>. HIDE DEF Named
  <2>. QED BY <2>3, <2>9, <2>10, <2>11, <2>12, <2>13, <2>14 DEF ExplanationNamesFailures, Told
<1>2. EngineInd /\ TrailInd => ExplanationNamesFailures
  BY <1>1 DEF ExplanationNamesFailures
<1>. QED BY <1>2, TrailInvariant, PTL
=============================================================================
