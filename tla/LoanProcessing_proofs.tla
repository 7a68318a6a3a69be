------------------------ MODULE LoanProcessing_proofs ------------------------
(***************************************************************************)
(* Theorems about LoanProcessing, for any applications, workers, sources,  *)
(* outcomes, verdict, fault repertoire and fault bound.                    *)
(***************************************************************************)
EXTENDS LoanProcessing, SequenceTheorems, TLAPS

(* What a worker's local state promises about the database.                *)
WorkerOK(w) ==
  /\ pc[w] # "idle" => task[w] \in Apps
  /\ pc[w] = "idle" => \A s \in Sources : fetch[w][s].at = "none"
  /\ pc[w] = "storing" => Gathered(w)
  /\ pc[w] \in {"fetching", "storing"} => status[task[w]] # "PENDING"
  /\ \A s \in Sources :
       /\ fetch[w][s].at \in {"inserting", "done"} => fetch[w][s].outcome \in Outcomes
       /\ fetch[w][s].at = "done" => external[task[w]][s] = fetch[w][s].outcome

WorkerInv == \A w \in Workers : WorkerOK(w)

(* A calculation is recorded at most once, on complete evidence, and only  *)
(* of an application that has left PROCESSING for good.                    *)
DecisionInv ==
  \A a \in Apps : \A i \in DecisionRows(a) :
    /\ status[a] \in Terminal
    /\ external[a] \in Evidence
    /\ audit[a][i].decision = Verdict[external[a]]
    /\ \A j \in DecisionRows(a) : i = j

Ind == TypeOK /\ WorkerInv /\ DecisionInv
-----------------------------------------------------------------------------
(* The rows a stored decision adds keep the trail well-formed: the new     *)
(* entries follow the old ones, the first is the calculation, and no other *)
(* new entry is one.                                                       *)
LEMMA AppendDecisionFacts ==
  ASSUME NEW rows \in Seq(AuditEntry), NEW d \in Decisions
  PROVE  LET out == AppendDecision(rows, d)
         IN  /\ out \in Seq(AuditEntry)
             /\ Len(out) \in {Len(rows) + 1, Len(rows) + 2}
             /\ \A i \in 1..Len(rows) : out[i] = rows[i]
             /\ out[Len(rows) + 1] = [step |-> "DECISION_CALCULATION", decision |-> d]
             /\ Len(out) = Len(rows) + 2 =>
                  out[Len(rows) + 2] = [step |-> "MANUAL_REVIEW", decision |-> d]
<1> DEFINE calc == [step |-> "DECISION_CALCULATION", decision |-> d]
           review == [step |-> "MANUAL_REVIEW", decision |-> d]
           one == Append(rows, calc)
           two == Append(one, review)
<1>1. calc \in AuditEntry /\ review \in AuditEntry
  BY DEF AuditEntry, AuditSteps
<1>2. /\ one \in Seq(AuditEntry) /\ Len(one) = Len(rows) + 1
      /\ \A i \in 1..Len(rows) : one[i] = rows[i]
      /\ one[Len(rows) + 1] = calc
  BY <1>1, AppendProperties
<1>3. /\ two \in Seq(AuditEntry) /\ Len(two) = Len(one) + 1
      /\ \A i \in 1..Len(one) : two[i] = one[i]
      /\ two[Len(one) + 1] = review
  BY <1>1, <1>2, AppendProperties
<1>4. AppendDecision(rows, d) = IF d = "NEEDS_REVIEW" THEN two ELSE one
  BY DEF AppendDecision
<1>5. Len(rows) \in Nat
  BY LenProperties
<1> HIDE DEF one, two
<1>6. CASE d = "NEEDS_REVIEW"
  BY <1>2, <1>3, <1>4, <1>5, <1>6
<1>7. CASE d # "NEEDS_REVIEW"
  BY <1>2, <1>4, <1>5, <1>7
<1> QED BY <1>6, <1>7

(* The constants of the abstract lifecycle, spelt out.                     *)
LEMMA LifeDecisions ==
  /\ Decisions = {"APPROVE", "DECLINE", "NEEDS_REVIEW"}
  /\ Terminal = {"COMPLETED", "MANUAL_REVIEW"}
  /\ Life!Statuses = {"PENDING", "PROCESSING", "COMPLETED", "MANUAL_REVIEW"}
  /\ \A d : Life!StatusFor(d) = IF d = "NEEDS_REVIEW" THEN "MANUAL_REVIEW" ELSE "COMPLETED"
BY DEF Decisions, Terminal, Life!Decisions, Life!Terminal, Life!Statuses, Life!StatusFor

(* A worker that has gathered every source holds what the table holds.     *)
LEMMA GatheredEvidence ==
  ASSUME TypeOK, WorkerInv, NEW w \in Workers, pc[w] # "idle", Gathered(w)
  PROVE  /\ task[w] \in Apps
         /\ EvidenceOf(w) \in Evidence
         /\ external[task[w]] = EvidenceOf(w)
         /\ Verdict[EvidenceOf(w)] \in Decisions
<1>1. task[w] \in Apps
  BY DEF WorkerInv, WorkerOK
<1>2. \A s \in Sources : fetch[w][s].outcome \in Outcomes
                         /\ external[task[w]][s] = fetch[w][s].outcome
  BY DEF WorkerInv, WorkerOK, Gathered
<1>3. EvidenceOf(w) \in Evidence
  BY <1>2 DEF EvidenceOf, Evidence
<1>4. external[task[w]] \in [Sources -> Outcomes \cup {None}]
  BY <1>1 DEF TypeOK
<1>5. external[task[w]] = EvidenceOf(w)
  BY <1>2, <1>4 DEF EvidenceOf
<1> QED BY <1>1, <1>3, <1>5, ProcessingAssumption

-----------------------------------------------------------------------------
(* Type correctness                                                        *)

(* The initial states are of the types.                                    *)
LEMMA TypeInit == Init => TypeOK
BY LifeDecisions, ProcessingAssumption
   DEF Init, TypeOK, AuditEntry, FetchState, NoFetch

(* Finish and Dies touch only what they name, in a typed way.              *)
LEMMA FinishType ==
  ASSUME TypeOK, NEW w \in Workers, task[w] \in Apps,
         NEW answer \in TaskAnswer, Finish(w, answer)
  PROVE  /\ pc' \in [Workers -> {"idle", "fetching", "storing"} \cup Failing]
         /\ task' \in [Workers -> Apps \cup {None}]
         /\ fetch' \in [Workers -> [Sources -> FetchState]]
         /\ taskResult' \in [Apps -> TaskAnswer \cup {None}]
         /\ queue' \in [Apps -> Nat] /\ restoring' \in [Apps -> Nat]
BY DEF TypeOK, Finish, NoFetch, FetchState

(* A written decision is of the types of the row.                          *)
LEMMA WriteDecisionType ==
  ASSUME TypeOK, NEW a \in Apps, NEW d \in Decisions, WriteDecision(a, d)
  PROVE  /\ status' \in [Apps -> Life!Statuses]
         /\ decision' \in [Apps -> Decisions \cup {None}]
         /\ confidence' \in [Apps -> Decisions \cup {None}]
         /\ lockExpired' \in [Apps -> BOOLEAN]
         /\ external' \in [Apps -> [Sources -> Outcomes \cup {None}]]
         /\ audit' \in [Apps -> Seq(AuditEntry)]
<1>1. AppendDecision(audit[a], d) \in Seq(AuditEntry)
  BY AppendDecisionFacts DEF TypeOK
<1>2. Life!StatusFor(d) \in Life!Statuses
  BY LifeDecisions
<1> QED BY <1>1, <1>2 DEF TypeOK, WriteDecision

(* One more audit entry leaves a trail.                                    *)
LEMMA AppendType ==
  ASSUME TypeOK, NEW a \in Apps, NEW e \in AuditEntry
  PROVE  [audit EXCEPT ![a] = Append(@, e)] \in [Apps -> Seq(AuditEntry)]
<1>1. Append(audit[a], e) \in Seq(AuditEntry)
  BY AppendProperties DEF TypeOK
<1> QED BY <1>1 DEF TypeOK

(* A fetch moved on is a fetch.                                            *)
LEMMA SetFetchType ==
  ASSUME TypeOK, NEW w \in Workers, NEW s \in Sources,
         NEW at \in {"load", "calling", "inserting", "done", "raised"},
         NEW o \in Outcomes \cup {None}, NEW r \in BOOLEAN,
         SetFetch(w, s, at, o, r)
  PROVE  fetch' \in [Workers -> [Sources -> FetchState]]
<1>1. [at |-> at, outcome |-> o, redacted |-> r] \in FetchState
  BY DEF FetchState
<1> QED BY <1>1 DEF TypeOK, SetFetch

(* Faults stay within their bound.                                         *)
LEMMA FaultType ==
  ASSUME TypeOK, NEW k, Fault(k)
  PROVE  faults' \in 0..MaxFaults
BY ProcessingAssumption DEF TypeOK, Fault

(* Every step of a worker, the broker or a fault keeps the types.          *)
LEMMA TypeStep ==
  ASSUME TypeOK, WorkerInv, [Next]_vars
  PROVE  TypeOK'
<1> USE DEF database, broker, workers
<1>1. ASSUME NEW w \in Workers, NEW a \in Apps, ClaimApplication(w, a) PROVE TypeOK'
  <2>1. [step |-> "PROCESSING_STARTED", decision |-> None] \in AuditEntry
    BY DEF AuditEntry, AuditSteps
  <2>2. audit' \in [Apps -> Seq(AuditEntry)]
    BY <1>1, <2>1, AppendType DEF ClaimApplication
  <2>3. queue[a] - 1 \in Nat
    BY <1>1 DEF ClaimApplication, TypeOK
  <2> QED BY <1>1, <2>2, <2>3, LifeDecisions
        DEF TypeOK, ClaimApplication, ToLoad, FetchState
<1>2. ASSUME NEW w \in Workers, NEW a \in Apps, AnswerAtGate(w, a) PROVE TypeOK'
  <2>1. queue[a] - 1 \in Nat
    BY <1>2 DEF AnswerAtGate, TypeOK
  <2>2. [status |-> status[a],
         decision |-> IF status[a] \in Terminal THEN decision[a] ELSE None] \in TaskAnswer
    BY DEF TypeOK, TaskAnswer
  <2> QED BY <1>2, <2>1, <2>2 DEF TypeOK, AnswerAtGate
<1>3. ASSUME NEW w \in Workers, NEW a \in Apps, ClaimRaises(w, a) PROVE TypeOK'
  <2>1. queue[a] - 1 \in Nat
    BY <1>3 DEF ClaimRaises, TypeOK
  <2>2. faults' \in 0..MaxFaults
    BY <1>3, FaultType DEF ClaimRaises
  <2> QED BY <1>3, <2>1, <2>2 DEF TypeOK, ClaimRaises, Failing
<1>4. ASSUME NEW w \in Workers, NEW s \in Sources, LoadExternal(w, s) PROVE TypeOK'
  <2>1. task[w] \in Apps
    BY <1>4 DEF LoadExternal, WorkerInv, WorkerOK, ChildRuns
  <2>2. external[task[w]][s] \in Outcomes \cup {None}
    BY <2>1 DEF TypeOK
  <2>3. fetch' \in [Workers -> [Sources -> FetchState]]
    BY <1>4, <2>2, SetFetchType DEF LoadExternal
  <2> QED BY <1>4, <2>3 DEF TypeOK, LoadExternal
<1>5. ASSUME NEW w \in Workers, NEW s \in Sources, ProviderAnswers(w, s) PROVE TypeOK'
  <2>1. task[w] \in Apps
    BY <1>5 DEF ProviderAnswers, WorkerInv, WorkerOK, ChildRuns
  <2>2. external[task[w]][s] \in Outcomes \cup {None}
    BY <2>1 DEF TypeOK
  <2>3. fetch' \in [Workers -> [Sources -> FetchState]]
    BY <1>5, <2>2, SetFetchType DEF ProviderAnswers
  <2> QED BY <1>5, <2>3 DEF TypeOK, ProviderAnswers
<1>6. ASSUME NEW w \in Workers, NEW s \in Sources, StoreExternal(w, s) PROVE TypeOK'
  <2>1. fetch[w][s].outcome \in Outcomes
    BY <1>6 DEF StoreExternal, WorkerInv, WorkerOK
  <2>2. fetch' \in [Workers -> [Sources -> FetchState]]
    BY <1>6, <2>1, SetFetchType DEF StoreExternal
  <2> QED BY <1>6, <2>1, <2>2 DEF TypeOK, StoreExternal
<1>7. ASSUME NEW w \in Workers, NEW s \in Sources, StoreExternalConflicts(w, s) PROVE TypeOK'
  BY <1>7 DEF TypeOK, StoreExternalConflicts, SetFetch, FetchState, Failing
<1>8. ASSUME NEW w \in Workers, NEW s \in Sources, FetchRaises(w, s) PROVE TypeOK'
  <2>1. faults' \in 0..MaxFaults
    BY <1>8, FaultType DEF FetchRaises
  <2> QED BY <1>8, <2>1 DEF TypeOK, FetchRaises, SetFetch, FetchState, Failing
<1>9. ASSUME NEW w \in Workers, PipelineTimeout(w) PROVE TypeOK'
  <2>1. faults' \in 0..MaxFaults
    BY <1>9, FaultType DEF PipelineTimeout
  <2> QED BY <1>9, <2>1 DEF TypeOK, PipelineTimeout, Failing
<1>10. ASSUME NEW w \in Workers, ComputeDecision(w) PROVE TypeOK'
  BY <1>10 DEF TypeOK, ComputeDecision, Failing
<1>11. ASSUME NEW w \in Workers, StoreResults(w) PROVE TypeOK'
  <2> DEFINE d == Verdict[EvidenceOf(w)]
             answer == [status |-> Life!StatusFor(d), decision |-> d]
  <2>1. task[w] \in Apps /\ d \in Decisions
    BY <1>11, GatheredEvidence DEF StoreResults, WorkerInv, WorkerOK
  <2>2. answer \in TaskAnswer
    BY <2>1, LifeDecisions DEF TaskAnswer
  <2>3. Finish(w, answer) /\ UNCHANGED faults
        /\ (UNCHANGED database \/ WriteDecision(task[w], d))
    BY <1>11 DEF StoreResults
  <2> HIDE DEF d, answer
  <2> QED BY <2>1, <2>2, <2>3, FinishType, WriteDecisionType DEF TypeOK
<1>12. ASSUME NEW w \in Workers, StoreRaises(w) PROVE TypeOK'
  <2> DEFINE d == Verdict[EvidenceOf(w)]
  <2>1. task[w] \in Apps /\ d \in Decisions
    BY <1>12, GatheredEvidence DEF StoreRaises, WorkerInv, WorkerOK
  <2>2. /\ faults' \in 0..MaxFaults
        /\ UNCHANGED database \/ WriteDecision(task[w], d)
    BY <1>12, FaultType DEF StoreRaises
  <2>3. /\ pc' = [pc EXCEPT ![w] = "SYSTEM_ERROR"]
        /\ UNCHANGED <<broker, task, fetch>>
    BY <1>12 DEF StoreRaises
  <2> HIDE DEF d
  <2> QED BY <2>1, <2>2, <2>3, WriteDecisionType DEF TypeOK, Failing
<1>13. ASSUME NEW w \in Workers, MarkManualReview(w) PROVE TypeOK'
  <2>1. task[w] \in Apps
    BY <1>13 DEF MarkManualReview, WorkerInv, WorkerOK, Failing
  <2>2. [step |-> pc[w], decision |-> "NEEDS_REVIEW"] \in AuditEntry
    BY <1>13, LifeDecisions DEF AuditEntry, AuditSteps, MarkManualReview
  <2>3. audit' \in [Apps -> Seq(AuditEntry)]
    BY <1>13, <2>1, <2>2, AppendType DEF MarkManualReview
  <2>4. [status |-> "MANUAL_REVIEW", decision |-> "NEEDS_REVIEW"] \in TaskAnswer
    BY LifeDecisions DEF TaskAnswer
  <2>5. Finish(w, [status |-> "MANUAL_REVIEW", decision |-> "NEEDS_REVIEW"])
    BY <1>13 DEF MarkManualReview
  <2> QED BY <1>13, <2>1, <2>3, <2>4, <2>5, FinishType, LifeDecisions
        DEF TypeOK, MarkManualReview
<1>14. ASSUME NEW w \in Workers, MarkRaises(w) PROVE TypeOK'
  <2>1. task[w] \in Apps
    BY <1>14 DEF MarkRaises, WorkerInv, WorkerOK, Failing
  <2>2. [status |-> "FAILURE", decision |-> None] \in TaskAnswer
    BY DEF TaskAnswer
  <2>3. /\ Finish(w, [status |-> "FAILURE", decision |-> None])
        /\ faults' \in 0..MaxFaults
        /\ UNCHANGED database
    BY <1>14, FaultType DEF MarkRaises
  <2> QED BY <2>1, <2>2, <2>3, FinishType DEF TypeOK
<1>15. ASSUME NEW a \in Apps, DuplicateMessage(a) PROVE TypeOK'
  <2>1. faults' \in 0..MaxFaults
    BY <1>15, FaultType DEF DuplicateMessage
  <2> QED BY <1>15, <2>1 DEF TypeOK, DuplicateMessage
<1>16. ASSUME NEW w \in Workers, WorkerLost(w) PROVE TypeOK'
  <2>1. faults' \in 0..MaxFaults
    BY <1>16, FaultType DEF WorkerLost
  <2>2. task[w] \in Apps
    BY <1>16 DEF WorkerLost, Dies, WorkerInv, WorkerOK
  <2> QED BY <1>16, <2>1, <2>2 DEF TypeOK, WorkerLost, Dies, NoFetch, FetchState
<1>17. ASSUME NEW w \in Workers, ChildLost(w) PROVE TypeOK'
  <2>1. faults' \in 0..MaxFaults
    BY <1>17, FaultType DEF ChildLost
  <2>2. task[w] \in Apps
    BY <1>17 DEF ChildLost, Dies, WorkerInv, WorkerOK
  <2> QED BY <1>17, <2>1, <2>2 DEF TypeOK, ChildLost, Dies, NoFetch, FetchState, TaskAnswer
<1>18. ASSUME NEW a \in Apps, RestoreMessage(a) PROVE TypeOK'
  <2>1. faults' \in 0..MaxFaults
    BY <1>18, FaultType DEF RestoreMessage, TypeOK
  <2>2. restoring[a] - 1 \in Nat
    BY <1>18 DEF RestoreMessage, TypeOK
  <2> QED BY <1>18, <2>1, <2>2 DEF TypeOK, RestoreMessage
<1>19. ASSUME NEW a \in Apps, LockExpires(a) PROVE TypeOK'
  <2>1. faults' \in 0..MaxFaults
    BY <1>19, FaultType DEF LockExpires, TypeOK
  <2> QED BY <1>19, <2>1 DEF TypeOK, LockExpires
<1>20. CASE UNCHANGED vars
  BY <1>20 DEF TypeOK, vars
<1> QED BY <1>1, <1>2, <1>3, <1>4, <1>5, <1>6, <1>7, <1>8, <1>9, <1>10, <1>11,
           <1>12, <1>13, <1>14, <1>15, <1>16, <1>17, <1>18, <1>19, <1>20
        DEF Next, Take, Proceed, Disturbance

-----------------------------------------------------------------------------
(* Workers and the database                                                *)

(* At first no worker has anything under way.                              *)
LEMMA WorkerInit == Init => WorkerInv
BY DEF Init, WorkerInv, WorkerOK, Gathered, NoFetch

(* A step of one worker leaves the promises of the others alone as long as *)
(* no row of external_data is replaced and no application goes back to     *)
(* PENDING.                                                                *)
LEMMA OthersKeep ==
  ASSUME TypeOK, TypeOK', WorkerInv, NEW w \in Workers,
         \A v \in Workers \ {w} : /\ pc'[v] = pc[v] /\ task'[v] = task[v]
                                  /\ fetch'[v] = fetch[v],
         \A a \in Apps : status'[a] = "PENDING" => status[a] = "PENDING",
         \A a \in Apps : \A s \in Sources :
           external[a][s] # None => external'[a][s] = external[a][s],
         WorkerOK(w)'
  PROVE  WorkerInv'
<1>1. SUFFICES ASSUME NEW v \in Workers \ {w} PROVE WorkerOK(v)'
  BY DEF WorkerInv
<1>2. WorkerOK(v)
  BY DEF WorkerInv
<1>3. \A s \in Sources : fetch[v][s].at = "done" =>
        pc[v] # "idle" /\ external[task[v]][s] # None
  BY <1>2, ProcessingAssumption DEF WorkerOK
<1> QED BY <1>2, <1>3 DEF WorkerOK, Gathered

(* Every step keeps what a worker has gathered in line with where it is.   *)
LEMMA WorkerStep ==
  ASSUME TypeOK, TypeOK', WorkerInv, [Next]_vars
  PROVE  WorkerInv'
<1> USE DEF database, broker, workers
<1>1. ASSUME NEW w \in Workers, NEW a \in Apps, ClaimApplication(w, a) PROVE WorkerInv'
  <2>1. WorkerOK(w)'
    BY <1>1 DEF ClaimApplication, WorkerOK, Gathered, ToLoad, TypeOK
  <2> QED BY <1>1, <2>1, OthersKeep DEF ClaimApplication, TypeOK
<1>2. ASSUME NEW w \in Workers, NEW a \in Apps, AnswerAtGate(w, a) PROVE WorkerInv'
  BY <1>2 DEF AnswerAtGate, WorkerInv, WorkerOK, Gathered
<1>3. ASSUME NEW w \in Workers, NEW a \in Apps, ClaimRaises(w, a) PROVE WorkerInv'
  <2>1. WorkerOK(w)'
    BY <1>3 DEF ClaimRaises, WorkerInv, WorkerOK, TypeOK
  <2> QED BY <1>3, <2>1, OthersKeep DEF ClaimRaises, TypeOK
<1>4. ASSUME NEW w \in Workers, NEW s \in Sources, LoadExternal(w, s) PROVE WorkerInv'
  <2>1. WorkerOK(w) /\ pc[w] \in {"fetching", "SYSTEM_ERROR"} /\ fetch[w][s].at = "load"
    BY <1>4 DEF LoadExternal, ChildRuns, WorkerInv
  <2>2. task[w] \in Apps /\ external[task[w]][s] \in Outcomes \cup {None}
    BY <2>1 DEF TypeOK, WorkerOK
  <2>3. /\ pc' = pc /\ task' = task /\ status' = status /\ external' = external
        /\ \/ SetFetch(w, s, "done", external[task[w]][s], TRUE) /\ external[task[w]][s] # None
           \/ SetFetch(w, s, "calling", None, FALSE)
    BY <1>4 DEF LoadExternal
  <2>4. /\ fetch'[w][s].at \in {"inserting", "done"} => fetch'[w][s].outcome \in Outcomes
        /\ fetch'[w][s].at = "done" => external'[task'[w]][s] = fetch'[w][s].outcome
        /\ \A q \in Sources \ {s} : fetch'[w][q] = fetch[w][q]
    <3>1. CASE SetFetch(w, s, "done", external[task[w]][s], TRUE) /\ external[task[w]][s] # None
      <4>1. fetch'[w][s] = [at |-> "done", outcome |-> external[task[w]][s], redacted |-> TRUE]
        BY <3>1 DEF SetFetch, TypeOK
      <4>2. \A q \in Sources \ {s} : fetch'[w][q] = fetch[w][q]
        BY <3>1 DEF SetFetch, TypeOK
      <4> QED BY <2>2, <2>3, <3>1, <4>1, <4>2
    <3>2. CASE SetFetch(w, s, "calling", None, FALSE)
      <4>1. fetch'[w][s] = [at |-> "calling", outcome |-> None, redacted |-> FALSE]
        BY <3>2 DEF SetFetch, TypeOK
      <4>2. \A q \in Sources \ {s} : fetch'[w][q] = fetch[w][q]
        BY <3>2 DEF SetFetch, TypeOK
      <4> QED BY <4>1, <4>2
    <3> QED BY <2>3, <3>1, <3>2
  <2>5. \A r \in Sources :
          /\ fetch'[w][r].at \in {"inserting", "done"} => fetch'[w][r].outcome \in Outcomes
          /\ fetch'[w][r].at = "done" => external'[task'[w]][r] = fetch'[w][r].outcome
    <3>1. TAKE r \in Sources
    <3>2. CASE r = s
      BY <2>4, <3>2
    <3>3. CASE r # s
      BY <2>1, <2>3, <2>4, <3>3 DEF WorkerOK
    <3> QED BY <3>2, <3>3
  <2>6. WorkerOK(w)'
    BY <2>1, <2>3, <2>5 DEF WorkerOK
  <2> QED BY <1>4, <2>3, <2>6, OthersKeep DEF LoadExternal, SetFetch, TypeOK
<1>5. ASSUME NEW w \in Workers, NEW s \in Sources, ProviderAnswers(w, s) PROVE WorkerInv'
  <2>1. WorkerOK(w) /\ pc[w] \in {"fetching", "SYSTEM_ERROR"} /\ fetch[w][s].at = "calling"
    BY <1>5 DEF ProviderAnswers, ChildRuns, WorkerInv
  <2>2. task[w] \in Apps /\ external[task[w]][s] \in Outcomes \cup {None}
    BY <2>1 DEF TypeOK, WorkerOK
  <2>3. /\ pc' = pc /\ task' = task /\ status' = status /\ external' = external
        /\ \/ SetFetch(w, s, "done", external[task[w]][s], TRUE) /\ external[task[w]][s] # None
           \/ \E o \in Outcomes : SetFetch(w, s, "inserting", o, FALSE)
    BY <1>5 DEF ProviderAnswers
  <2>4. /\ fetch'[w][s].at \in {"inserting", "done"} => fetch'[w][s].outcome \in Outcomes
        /\ fetch'[w][s].at = "done" => external'[task'[w]][s] = fetch'[w][s].outcome
        /\ \A q \in Sources \ {s} : fetch'[w][q] = fetch[w][q]
    <3>1. CASE SetFetch(w, s, "done", external[task[w]][s], TRUE) /\ external[task[w]][s] # None
      <4>1. fetch'[w][s] = [at |-> "done", outcome |-> external[task[w]][s], redacted |-> TRUE]
        BY <3>1 DEF SetFetch, TypeOK
      <4>2. \A q \in Sources \ {s} : fetch'[w][q] = fetch[w][q]
        BY <3>1 DEF SetFetch, TypeOK
      <4> QED BY <2>2, <2>3, <3>1, <4>1, <4>2
    <3>2. ASSUME NEW o \in Outcomes, SetFetch(w, s, "inserting", o, FALSE)
          PROVE  /\ fetch'[w][s].at \in {"inserting", "done"} => fetch'[w][s].outcome \in Outcomes
                 /\ fetch'[w][s].at = "done" => external'[task'[w]][s] = fetch'[w][s].outcome
                 /\ \A q \in Sources \ {s} : fetch'[w][q] = fetch[w][q]
      <4>1. fetch'[w][s] = [at |-> "inserting", outcome |-> o, redacted |-> FALSE]
        BY <3>2 DEF SetFetch, TypeOK
      <4>2. \A q \in Sources \ {s} : fetch'[w][q] = fetch[w][q]
        BY <3>2 DEF SetFetch, TypeOK
      <4> QED BY <4>1, <4>2
    <3> QED BY <2>3, <3>1, <3>2
  <2>5. \A r \in Sources :
          /\ fetch'[w][r].at \in {"inserting", "done"} => fetch'[w][r].outcome \in Outcomes
          /\ fetch'[w][r].at = "done" => external'[task'[w]][r] = fetch'[w][r].outcome
    <3>1. TAKE r \in Sources
    <3>2. CASE r = s
      BY <2>4, <3>2
    <3>3. CASE r # s
      BY <2>1, <2>3, <2>4, <3>3 DEF WorkerOK
    <3> QED BY <3>2, <3>3
  <2>6. WorkerOK(w)'
    BY <2>1, <2>3, <2>5 DEF WorkerOK
  <2> QED BY <1>5, <2>3, <2>6, OthersKeep DEF ProviderAnswers, SetFetch, TypeOK
<1>6. ASSUME NEW w \in Workers, NEW s \in Sources, StoreExternal(w, s) PROVE WorkerInv'
  <2>1. WorkerOK(w) /\ fetch[w][s].at = "inserting"
    BY <1>6 DEF StoreExternal, WorkerInv
  <2>2. task[w] \in Apps /\ pc[w] # "storing" /\ fetch[w][s].outcome \in Outcomes
    BY <2>1 DEF WorkerOK, Gathered
  <2>3. \A a \in Apps : \A r \in Sources :
          external[a][r] # None => external'[a][r] = external[a][r]
    BY <1>6, <2>2 DEF StoreExternal, TypeOK
  <2>4. \A r \in Sources : fetch[w][r].at = "done" => external[task[w]][r] # None
    BY <2>1, ProcessingAssumption DEF WorkerOK
  <2>5. WorkerOK(w)'
    BY <1>6, <2>1, <2>2, <2>3, <2>4 DEF StoreExternal, SetFetch, WorkerOK, Gathered, TypeOK
  <2> QED BY <1>6, <2>3, <2>5, OthersKeep DEF StoreExternal, SetFetch, TypeOK
<1>7. ASSUME NEW w \in Workers, NEW s \in Sources, StoreExternalConflicts(w, s) PROVE WorkerInv'
  <2>1. WorkerOK(w)'
    BY <1>7 DEF StoreExternalConflicts, SetFetch, WorkerInv, WorkerOK, TypeOK
  <2> QED BY <1>7, <2>1, OthersKeep DEF StoreExternalConflicts, SetFetch, TypeOK
<1>8. ASSUME NEW w \in Workers, NEW s \in Sources, FetchRaises(w, s) PROVE WorkerInv'
  <2>1. WorkerOK(w)'
    BY <1>8 DEF FetchRaises, SetFetch, WorkerInv, WorkerOK, TypeOK
  <2> QED BY <1>8, <2>1, OthersKeep DEF FetchRaises, SetFetch, TypeOK
<1>9. ASSUME NEW w \in Workers, PipelineTimeout(w) PROVE WorkerInv'
  <2>1. WorkerOK(w)'
    BY <1>9 DEF PipelineTimeout, WorkerInv, WorkerOK, TypeOK
  <2> QED BY <1>9, <2>1, OthersKeep DEF PipelineTimeout, TypeOK
<1>10. ASSUME NEW w \in Workers, ComputeDecision(w) PROVE WorkerInv'
  <2>1. WorkerOK(w)'
    BY <1>10 DEF ComputeDecision, WorkerInv, WorkerOK, Gathered, TypeOK
  <2> QED BY <1>10, <2>1, OthersKeep DEF ComputeDecision, TypeOK
<1>11. ASSUME NEW w \in Workers, StoreResults(w) PROVE WorkerInv'
  <2> DEFINE d == Verdict[EvidenceOf(w)]
             answer == [status |-> Life!StatusFor(d), decision |-> d]
  <2>1. Finish(w, answer) /\ (UNCHANGED database \/ WriteDecision(task[w], d))
    BY <1>11 DEF StoreResults
  <2> HIDE DEF d, answer
  <2>2. WorkerOK(w)'
    BY <2>1 DEF Finish, NoFetch, WorkerOK, TypeOK
  <2> QED BY <2>1, <2>2, OthersKeep, LifeDecisions DEF Finish, WriteDecision, TypeOK
<1>12. ASSUME NEW w \in Workers, StoreRaises(w) PROVE WorkerInv'
  <2> DEFINE d == Verdict[EvidenceOf(w)]
  <2>1. /\ UNCHANGED database \/ WriteDecision(task[w], d)
        /\ pc[w] = "storing"
        /\ pc' = [pc EXCEPT ![w] = "SYSTEM_ERROR"]
        /\ UNCHANGED <<broker, task, fetch>>
    BY <1>12 DEF StoreRaises
  <2> HIDE DEF d
  <2>2. WorkerOK(w)'
    BY <2>1 DEF WorkerInv, WorkerOK, WriteDecision, TypeOK
  <2> QED BY <2>1, <2>2, OthersKeep, LifeDecisions DEF WriteDecision, TypeOK
<1>13. ASSUME NEW w \in Workers, MarkManualReview(w) PROVE WorkerInv'
  <2>1. Finish(w, [status |-> "MANUAL_REVIEW", decision |-> "NEEDS_REVIEW"])
    BY <1>13 DEF MarkManualReview
  <2>2. WorkerOK(w)'
    BY <2>1 DEF Finish, NoFetch, WorkerOK, TypeOK
  <2> QED BY <1>13, <2>1, <2>2, OthersKeep DEF MarkManualReview, Finish, TypeOK
<1>14. ASSUME NEW w \in Workers, MarkRaises(w) PROVE WorkerInv'
  <2>1. /\ Finish(w, [status |-> "FAILURE", decision |-> None])
        /\ UNCHANGED database
    BY <1>14 DEF MarkRaises
  <2>2. WorkerOK(w)'
    BY <2>1 DEF Finish, NoFetch, WorkerOK, TypeOK
  <2> QED BY <2>1, <2>2, OthersKeep DEF Finish, TypeOK
<1>15. ASSUME NEW a \in Apps, DuplicateMessage(a) PROVE WorkerInv'
  BY <1>15 DEF DuplicateMessage, WorkerInv, WorkerOK, Gathered
<1>16. ASSUME NEW w \in Workers, Dies(w) PROVE WorkerInv'
  <2>1. WorkerOK(w)'
    BY <1>16 DEF Dies, NoFetch, WorkerOK, TypeOK
  <2> QED BY <1>16, <2>1, OthersKeep DEF Dies, TypeOK
<1>17. ASSUME NEW a \in Apps, RestoreMessage(a) PROVE WorkerInv'
  BY <1>17 DEF RestoreMessage, WorkerInv, WorkerOK, Gathered
<1>18. ASSUME NEW a \in Apps, LockExpires(a) PROVE WorkerInv'
  BY <1>18 DEF LockExpires, WorkerInv, WorkerOK, Gathered
<1>19. CASE UNCHANGED vars
  BY <1>19 DEF WorkerInv, WorkerOK, Gathered, vars
<1> QED BY <1>1, <1>2, <1>3, <1>4, <1>5, <1>6, <1>7, <1>8, <1>9, <1>10, <1>11,
           <1>12, <1>13, <1>14, <1>15, <1>16, <1>17, <1>18, <1>19
        DEF Next, Take, Proceed, Disturbance, WorkerLost, ChildLost

-----------------------------------------------------------------------------
(* Decisions                                                               *)

(* The step adds no calculation to the trail of an application.            *)
NoNewCalculation(a) ==
  \A i \in DOMAIN audit'[a] :
    audit'[a][i].step = "DECISION_CALCULATION" =>
      i \in DOMAIN audit[a] /\ audit'[a][i] = audit[a][i]

(* Appending any other row is such a step.                                 *)
LEMMA AppendOther ==
  ASSUME TypeOK, NEW a \in Apps, NEW e \in AuditEntry,
         e.step # "DECISION_CALCULATION",
         audit' = [audit EXCEPT ![a] = Append(@, e)]
  PROVE  \A b \in Apps : NoNewCalculation(b)
<1>1. TAKE b \in Apps
<1>2. CASE b = a
  <2>1. audit[a] \in Seq(AuditEntry)
    BY DEF TypeOK
  <2>2. audit'[a] = Append(audit[a], e)
    BY DEF TypeOK
  <2>3. /\ DOMAIN Append(audit[a], e) = 1..(Len(audit[a]) + 1)
        /\ DOMAIN audit[a] = 1..Len(audit[a])
        /\ Len(audit[a]) \in Nat
    BY <2>1, AppendProperties, LenProperties
  <2>4. /\ \A i \in 1..Len(audit[a]) : Append(audit[a], e)[i] = audit[a][i]
        /\ Append(audit[a], e)[Len(audit[a]) + 1] = e
    BY <2>1, AppendProperties
  <2>5. \A i \in 1..(Len(audit[a]) + 1) :
          i \in 1..Len(audit[a]) \/ i = Len(audit[a]) + 1
    BY <2>3
  <2> QED BY <1>2, <2>2, <2>3, <2>4, <2>5 DEF NoNewCalculation
<1>3. CASE b # a
  BY <1>3 DEF NoNewCalculation, TypeOK
<1> QED BY <1>2, <1>3

(* Nothing else is needed to keep DecisionInv: terminal stays terminal and *)
(* complete evidence stays as it is.                                       *)
LEMMA DecisionKept ==
  ASSUME DecisionInv,
         \A a \in Apps : NoNewCalculation(a),
         \A a \in Apps : status[a] \in Terminal => status'[a] \in Terminal,
         \A a \in Apps : external[a] \in Evidence => external'[a] = external[a]
  PROVE  DecisionInv'
<1>1. SUFFICES ASSUME NEW a \in Apps, NEW i \in DecisionRows(a)'
               PROVE  /\ status'[a] \in Terminal
                      /\ external'[a] \in Evidence
                      /\ audit'[a][i].decision = Verdict[external'[a]]
                      /\ \A j \in DecisionRows(a)' : i = j
  BY DEF DecisionInv
<1>2. \A j \in DecisionRows(a)' : j \in DecisionRows(a) /\ audit'[a][j] = audit[a][j]
  BY DEF DecisionRows, NoNewCalculation
<1> QED BY <1>1, <1>2 DEF DecisionInv

(* At first nothing is decided.                                            *)
LEMMA DecisionInit == Init => DecisionInv
<1>1. \A rows : rows = <<>> => DOMAIN rows = {}
  OBVIOUS
<1> QED BY <1>1 DEF Init, DecisionInv, DecisionRows

(* A decision is written on complete evidence to an application that has   *)
(* none.                                                                   *)
LEMMA DecisionWritten ==
  ASSUME TypeOK, WorkerInv, DecisionInv, NEW w \in Workers,
         pc[w] = "storing", status[task[w]] \notin Terminal,
         WriteDecision(task[w], Verdict[EvidenceOf(w)])
  PROVE  DecisionInv'
<1> DEFINE a == task[w]
           d == Verdict[EvidenceOf(w)]
           n == Len(audit[a])
           out == AppendDecision(audit[a], d)
<1>1. a \in Apps /\ d \in Decisions /\ EvidenceOf(w) \in Evidence /\ external[a] = EvidenceOf(w)
  BY GatheredEvidence DEF WorkerInv, WorkerOK
<1>2. /\ audit'[a] = out /\ status'[a] = Life!StatusFor(d) /\ external' = external
      /\ \A b \in Apps \ {a} : audit'[b] = audit[b] /\ status'[b] = status[b]
  BY <1>1 DEF WriteDecision, TypeOK
<1>3. audit[a] \in Seq(AuditEntry) /\ n \in Nat /\ DOMAIN audit[a] = 1..n
  BY <1>1, LenProperties DEF TypeOK
<1>4. /\ out \in Seq(AuditEntry) /\ Len(out) \in {n + 1, n + 2}
      /\ \A i \in 1..n : out[i] = audit[a][i]
      /\ out[n + 1] = [step |-> "DECISION_CALCULATION", decision |-> d]
      /\ Len(out) = n + 2 => out[n + 2] = [step |-> "MANUAL_REVIEW", decision |-> d]
  BY <1>1, <1>3, AppendDecisionFacts, ZenonT(60)
<1>5. DOMAIN out = 1..Len(out)
  BY <1>4, LenProperties
<1>6. \A i \in 1..n : audit[a][i].step # "DECISION_CALCULATION"
  BY <1>1, <1>3 DEF DecisionInv, DecisionRows
<1> HIDE DEF out, d, n
<1>7. \A i \in DOMAIN out : out[i].step = "DECISION_CALCULATION" => i = n + 1
  <2>1. SUFFICES ASSUME NEW i \in DOMAIN out, out[i].step = "DECISION_CALCULATION"
                 PROVE  i = n + 1
    BY Zenon
  <2>2. i \in 1..Len(out) /\ n \in Nat /\ (Len(out) = n + 1 \/ Len(out) = n + 2)
    BY <1>3, <1>4, <1>5
  <2>3. i \in 1..n \/ i = n + 1 \/ (i = n + 2 /\ Len(out) = n + 2)
    <3>1. CASE Len(out) = n + 1
      BY <2>2, <3>1
    <3>2. CASE Len(out) = n + 2
      BY <2>2, <3>2
    <3> QED BY <2>2, <3>1, <3>2
  <2> QED BY <1>4, <1>6, <2>1, <2>3
<1>8. SUFFICES ASSUME NEW b \in Apps, NEW i \in DecisionRows(b)'
               PROVE  /\ status'[b] \in Terminal
                      /\ external'[b] \in Evidence
                      /\ audit'[b][i].decision = Verdict[external'[b]]
                      /\ \A j \in DecisionRows(b)' : i = j
  BY DEF DecisionInv
<1>9. CASE b = a
  <2>1. \A j \in DecisionRows(b)' : j = n + 1
    BY <1>2, <1>7, <1>9 DEF DecisionRows
  <2>2. audit'[b][i].decision = d
    BY <1>2, <1>4, <1>9, <2>1
  <2>3. status'[b] \in Terminal
    BY <1>2, <1>9, LifeDecisions
  <2>4. d = Verdict[external[a]]
    BY <1>1 DEF d
  <2> QED BY <1>1, <1>2, <1>9, <2>1, <2>2, <2>3, <2>4
<1>10. CASE b # a
  <2>1. audit'[b] = audit[b] /\ status'[b] = status[b] /\ external'[b] = external[b]
    BY <1>2, <1>10
  <2> QED BY <2>1 DEF DecisionInv, DecisionRows
<1> QED BY <1>9, <1>10

(* Every step keeps a decided row decided, and by a calculation.           *)
LEMMA DecisionStep ==
  ASSUME TypeOK, WorkerInv, DecisionInv, [Next]_vars
  PROVE  DecisionInv'
<1> USE DEF database, broker, workers
<1>1. ASSUME UNCHANGED <<status, external, audit>> PROVE DecisionInv'
  BY <1>1, DecisionKept DEF NoNewCalculation
<1>2. ASSUME NEW w \in Workers, NEW a \in Apps, ClaimApplication(w, a) PROVE DecisionInv'
  <2> DEFINE e == [step |-> "PROCESSING_STARTED", decision |-> None]
  <2>1. e \in AuditEntry /\ e.step # "DECISION_CALCULATION"
    BY DEF AuditEntry, AuditSteps
  <2>2. audit' = [audit EXCEPT ![a] = Append(@, e)]
    BY <1>2 DEF ClaimApplication
  <2> HIDE DEF e
  <2>3. \A b \in Apps : NoNewCalculation(b)
    BY <2>1, <2>2, AppendOther
  <2>4. \A b \in Apps : status[b] \in Terminal => status'[b] \in Terminal
    BY <1>2, LifeDecisions DEF ClaimApplication, Claimable, TypeOK
  <2> QED BY <1>2, <2>3, <2>4, DecisionKept DEF ClaimApplication
<1>3. ASSUME NEW w \in Workers, NEW s \in Sources, StoreExternal(w, s) PROVE DecisionInv'
  <2>1. task[w] \in Apps
    BY <1>3 DEF StoreExternal, WorkerInv, WorkerOK
  <2>2. \A a \in Apps : external[a] \in Evidence => external'[a] = external[a]
    BY <1>3, <2>1, ProcessingAssumption DEF StoreExternal, TypeOK, Evidence
  <2> QED BY <1>3, <2>2, DecisionKept DEF StoreExternal, NoNewCalculation
<1>4. ASSUME NEW w \in Workers, StoreResults(w) PROVE DecisionInv'
  <2>1. CASE UNCHANGED database
    BY <1>1, <2>1
  <2>2. CASE ~UNCHANGED database
    BY <1>4, <2>2, DecisionWritten DEF StoreResults
  <2> QED BY <2>1, <2>2
<1>5. ASSUME NEW w \in Workers, StoreRaises(w) PROVE DecisionInv'
  <2>1. CASE UNCHANGED database
    BY <1>1, <2>1
  <2>2. CASE ~UNCHANGED database
    BY <1>5, <2>2, DecisionWritten DEF StoreRaises
  <2> QED BY <2>1, <2>2
<1>6. ASSUME NEW w \in Workers, MarkManualReview(w) PROVE DecisionInv'
  <2> DEFINE a == task[w]
             e == [step |-> pc[w], decision |-> "NEEDS_REVIEW"]
  <2>1. a \in Apps
    BY <1>6 DEF MarkManualReview, Failing, WorkerInv, WorkerOK
  <2>2. e \in AuditEntry /\ e.step # "DECISION_CALCULATION"
    BY <1>6, LifeDecisions DEF MarkManualReview, AuditEntry, AuditSteps, Failing
  <2>3. audit' = [audit EXCEPT ![a] = Append(@, e)]
    BY <1>6 DEF MarkManualReview
  <2> HIDE DEF e
  <2>4. \A b \in Apps : NoNewCalculation(b)
    BY <2>1, <2>2, <2>3, AppendOther
  <2>5. \A b \in Apps : status[b] \in Terminal => status'[b] \in Terminal
    BY <1>6, <2>1, LifeDecisions DEF MarkManualReview, TypeOK
  <2> QED BY <1>6, <2>4, <2>5, DecisionKept DEF MarkManualReview
<1>7. CASE UNCHANGED vars
  BY <1>1, <1>7 DEF vars
<1> QED BY <1>1, <1>2, <1>3, <1>4, <1>5, <1>6, <1>7
        DEF Next, Take, Proceed, Disturbance, AnswerAtGate, ClaimRaises, LoadExternal,
            ProviderAnswers, StoreExternalConflicts, FetchRaises, PipelineTimeout,
            ComputeDecision, MarkRaises, DuplicateMessage, WorkerLost, ChildLost, Dies,
            RestoreMessage, LockExpires

-----------------------------------------------------------------------------
(* The row and its trail                                                   *)

(* What AuditExplainsRow and ConfidenceIsAudited say of one application.   *)
Explained(a) ==
  /\ status[a] \in Terminal <=> decision[a] # None
  /\ status[a] = "COMPLETED" => decision[a] # "NEEDS_REVIEW"
  /\ decision[a] = None => \A i \in DOMAIN audit[a] : audit[a][i].decision = None
  /\ decision[a] # None =>
       \E i \in DOMAIN audit[a] :
         /\ audit[a][i].decision = decision[a]
         /\ \A j \in DOMAIN audit[a] : j > i => audit[a][j].decision = None

Confident(a) ==
  /\ status[a] = "COMPLETED" => confidence[a] = decision[a]
  /\ confidence[a] # None =>
       \E i \in DecisionRows(a) : audit[a][i].decision = confidence[a]

TrailInv == \A a \in Apps : Explained(a) /\ Confident(a)

(* An application none of whose four columns moves.                        *)
LEMMA TrailKept ==
  ASSUME NEW a \in Apps, Explained(a), Confident(a),
         UNCHANGED <<status[a], decision[a], confidence[a], audit[a]>>
  PROVE  Explained(a)' /\ Confident(a)'
BY DEF Explained, Confident, DecisionRows

(* A row added to a trail leaves the earlier ones where they were.         *)
LEMMA AppendedRow ==
  ASSUME NEW rows \in Seq(AuditEntry), NEW e \in AuditEntry
  PROVE  LET out == Append(rows, e)
         IN  /\ Len(rows) \in Nat
             /\ DOMAIN rows = 1..Len(rows)
             /\ DOMAIN out = 1..(Len(rows) + 1)
             /\ \A i \in 1..Len(rows) : out[i] = rows[i]
             /\ out[Len(rows) + 1] = e
BY AppendProperties, LenProperties

(* A stored decision explains itself, by its last row; its confidence is   *)
(* that of its first.                                                      *)
LEMMA TrailWritten ==
  ASSUME TypeOK, TrailInv, NEW a \in Apps, NEW d \in Decisions, WriteDecision(a, d)
  PROVE  TrailInv'
<1> DEFINE rows == audit[a]
           out == AppendDecision(rows, d)
<1>1. rows \in Seq(AuditEntry) /\ d # None
  BY ProcessingAssumption DEF TypeOK
<1>2. /\ out \in Seq(AuditEntry)
      /\ Len(out) \in {Len(rows) + 1, Len(rows) + 2}
      /\ out[Len(rows) + 1] = [step |-> "DECISION_CALCULATION", decision |-> d]
      /\ Len(out) = Len(rows) + 2 =>
           out[Len(rows) + 2] = [step |-> "MANUAL_REVIEW", decision |-> d]
  BY <1>1, AppendDecisionFacts
<1>3. /\ status'[a] = Life!StatusFor(d) /\ decision'[a] = d /\ confidence'[a] = d
      /\ audit'[a] = out
      /\ \A b \in Apps \ {a} : UNCHANGED <<status[b], decision[b], confidence[b], audit[b]>>
  BY DEF WriteDecision, TypeOK
<1>4. Len(rows) \in Nat /\ Len(out) \in Nat /\ DOMAIN out = 1..Len(out)
  BY <1>1, <1>2, LenProperties
<1> HIDE DEF rows, out
<1>5. Explained(a)'
  <2>1. /\ Len(out) \in DOMAIN out
        /\ out[Len(out)].decision = d
        /\ \A j \in DOMAIN out : ~(j > Len(out))
    <3>1. CASE Len(out) = Len(rows) + 1
      BY <1>2, <1>4, <3>1
    <3>2. CASE Len(out) = Len(rows) + 2
      BY <1>2, <1>4, <3>2
    <3> QED BY <1>2, <3>1, <3>2
  <2>2. /\ Life!StatusFor(d) \in Terminal
        /\ Life!StatusFor(d) = "COMPLETED" => d # "NEEDS_REVIEW"
    BY LifeDecisions
  <2> QED BY <1>1, <1>3, <2>1, <2>2 DEF Explained
<1>6. Confident(a)'
  <2>1. Len(rows) + 1 \in DOMAIN out
    <3>1. CASE Len(out) = Len(rows) + 1
      BY <1>4, <3>1
    <3>2. CASE Len(out) = Len(rows) + 2
      BY <1>4, <3>2
    <3> QED BY <1>2, <3>1, <3>2
  <2>2. Len(rows) + 1 \in DecisionRows(a)'
    BY <1>2, <1>3, <2>1 DEF DecisionRows
  <2> QED BY <1>2, <1>3, <2>2 DEF Confident
<1>7. \A b \in Apps \ {a} : Explained(b)' /\ Confident(b)'
  BY <1>3, TrailKept DEF TrailInv
<1> QED BY <1>5, <1>6, <1>7 DEF TrailInv

(* At first there is nothing to explain.                                   *)
LEMMA TrailInit == Init => TrailInv
BY LifeDecisions DEF Init, TrailInv, Explained, Confident

(* Every step keeps the last audited decision that of the row.             *)
LEMMA TrailStep ==
  ASSUME TypeOK, WorkerInv, TrailInv, [Next]_vars
  PROVE  TrailInv'
<1> USE DEF database
<1>1. ASSUME UNCHANGED <<status, decision, confidence, audit>> PROVE TrailInv'
  BY <1>1, TrailKept DEF TrailInv
<1>2. ASSUME NEW w \in Workers, NEW a \in Apps, ClaimApplication(w, a) PROVE TrailInv'
  <2> DEFINE e == [step |-> "PROCESSING_STARTED", decision |-> None]
             rows == audit[a]
  <2>1. e \in AuditEntry /\ e.decision = None /\ rows \in Seq(AuditEntry)
    BY DEF AuditEntry, AuditSteps, TypeOK
  <2>2. /\ status[a] \notin Terminal /\ status'[a] = "PROCESSING"
        /\ UNCHANGED <<decision, confidence>>
        /\ audit'[a] = Append(rows, e)
        /\ \A b \in Apps \ {a} : status'[b] = status[b] /\ audit'[b] = audit[b]
    BY <1>2, LifeDecisions DEF ClaimApplication, Claimable, TypeOK
  <2>3. Explained(a) /\ Confident(a)
    BY DEF TrailInv
  <2> HIDE DEF e
  <2>4. Explained(a)'
    <3>1. \A i \in DOMAIN rows : rows[i].decision = None
      BY <2>2, <2>3 DEF Explained
    <3> HIDE DEF rows
    <3>2. \A i \in DOMAIN Append(rows, e) : Append(rows, e)[i].decision = None
      BY <2>1, <3>1, AppendedRow
    <3>3. decision[a] = None
      BY <2>2, <2>3 DEF Explained
    <3> QED BY <2>2, <3>2, <3>3, LifeDecisions DEF Explained
  <2>5. Confident(a)'
    <3>1. \A i \in DecisionRows(a) :
             i \in DecisionRows(a)' /\ audit'[a][i].decision = audit[a][i].decision
      BY <2>1, <2>2, AppendedRow DEF DecisionRows
    <3> QED BY <2>2, <2>3, <3>1 DEF Confident
  <2>6. \A b \in Apps \ {a} : Explained(b)' /\ Confident(b)'
    BY <2>2, TrailKept DEF TrailInv
  <2> QED BY <2>4, <2>5, <2>6 DEF TrailInv
<1>3. ASSUME NEW w \in Workers, StoreResults(w) PROVE TrailInv'
  <2>1. pc[w] = "storing" /\ pc[w] # "idle" /\ Gathered(w)
    BY <1>3 DEF StoreResults, WorkerInv, WorkerOK
  <2>2. task[w] \in Apps /\ Verdict[EvidenceOf(w)] \in Decisions
    BY <2>1, GatheredEvidence
  <2>3. UNCHANGED database \/ WriteDecision(task[w], Verdict[EvidenceOf(w)])
    BY <1>3 DEF StoreResults
  <2> QED BY <1>1, <2>2, <2>3, TrailWritten
<1>4. ASSUME NEW w \in Workers, StoreRaises(w) PROVE TrailInv'
  <2>1. pc[w] = "storing" /\ pc[w] # "idle" /\ Gathered(w)
    BY <1>4 DEF StoreRaises, WorkerInv, WorkerOK
  <2>2. task[w] \in Apps /\ Verdict[EvidenceOf(w)] \in Decisions
    BY <2>1, GatheredEvidence
  <2>3. UNCHANGED database \/ WriteDecision(task[w], Verdict[EvidenceOf(w)])
    BY <1>4 DEF StoreRaises
  <2> QED BY <1>1, <2>2, <2>3, TrailWritten
<1>5. ASSUME NEW w \in Workers, MarkManualReview(w) PROVE TrailInv'
  <2>1. task[w] \in Apps
    BY <1>5 DEF MarkManualReview, Failing, WorkerInv, WorkerOK
  <2>2. PICK a \in Apps : a = task[w]
    BY <2>1
  <2> DEFINE e == [step |-> pc[w], decision |-> "NEEDS_REVIEW"]
             rows == audit[a]
  <2>3. e \in AuditEntry /\ e.decision = "NEEDS_REVIEW" /\ rows \in Seq(AuditEntry)
    BY <1>5, LifeDecisions DEF MarkManualReview, AuditEntry, AuditSteps, TypeOK
  <2>4. /\ status'[a] = "MANUAL_REVIEW" /\ decision'[a] = "NEEDS_REVIEW"
        /\ UNCHANGED confidence
        /\ audit'[a] = Append(rows, e)
        /\ \A b \in Apps \ {a} : UNCHANGED <<status[b], decision[b], audit[b]>>
    BY <1>5, <2>2 DEF MarkManualReview, TypeOK
  <2> HIDE DEF e
<2>5. Explained(a)'
    <3>1. /\ Len(rows) + 1 \in DOMAIN Append(rows, e)
          /\ Append(rows, e)[Len(rows) + 1] = e
          /\ \A j \in DOMAIN Append(rows, e) : ~(j > Len(rows) + 1)
      <4> HIDE DEF rows
      <4> QED BY <2>3, AppendedRow
    <3>2. "NEEDS_REVIEW" # None
      BY LifeDecisions, ProcessingAssumption
    <3> QED BY <2>3, <2>4, <3>1, <3>2, LifeDecisions DEF Explained
  <2>6. Confident(a)'
    <3>1. \A i \in DecisionRows(a) :
             i \in DecisionRows(a)' /\ audit'[a][i].decision = audit[a][i].decision
      BY <2>3, <2>4, AppendedRow DEF DecisionRows
    <3>2. Confident(a)
      BY DEF TrailInv
    <3> QED BY <2>4, <3>1, <3>2 DEF Confident
  <2>7. \A b \in Apps \ {a} : Explained(b)' /\ Confident(b)'
    BY <2>4, TrailKept DEF TrailInv
  <2> QED BY <2>5, <2>6, <2>7 DEF TrailInv
<1>6. CASE UNCHANGED vars
  BY <1>1, <1>6 DEF vars
<1> QED BY <1>1, <1>2, <1>3, <1>4, <1>5, <1>6
        DEF Next, Take, Proceed, Disturbance, AnswerAtGate, ClaimRaises, LoadExternal,
            ProviderAnswers, StoreExternal, StoreExternalConflicts, FetchRaises,
            PipelineTimeout, ComputeDecision, MarkRaises, DuplicateMessage, WorkerLost,
            ChildLost, Dies, RestoreMessage, LockExpires

-----------------------------------------------------------------------------
(* Theorems                                                                *)

(* The inductive invariant holds throughout.                               *)
LEMMA IndInvariant == Spec => []Ind
<1>1. Init => Ind
  BY TypeInit, WorkerInit, DecisionInit DEF Ind
<1>2. Ind /\ [Next]_vars => Ind'
  BY TypeStep, WorkerStep, DecisionStep DEF Ind
<1> QED BY <1>1, <1>2, PTL DEF Spec

(* Every reachable state is well-typed: among other things the queue never *)
(* goes negative, a worker's fetch state is always one the child can be    *)
(* in, and no status outside the four the column allows is written.        *)
THEOREM TypeCorrect == Spec => []TypeOK
<1>1. Ind => TypeOK
  BY DEF Ind
<1> QED BY <1>1, IndInvariant, PTL

(* At most one decision is stored for an application, for any number of    *)
(* workers, deliveries and faults: the conditional claim alone does not    *)
(* give this, the test under the row lock in _store_processing_results     *)
(* does.                                                                   *)
THEOREM OneDecisionHolds == Spec => []OneDecision
<1>1. Ind => OneDecision
  BY DEF Ind, DecisionInv, OneDecision
<1> QED BY <1>1, IndInvariant, PTL

(* The audited decision is the verdict on the provider rows in the table,  *)
(* even when several workers fetched them.                                 *)
THEOREM DecisionFollowsEvidenceHolds == Spec => []DecisionFollowsEvidence
<1>1. Ind => DecisionFollowsEvidence
  BY DEF Ind, DecisionInv, DecisionFollowsEvidence
<1> QED BY <1>1, IndInvariant, PTL

(* What the columns say is what the trail says, at every step.             *)
LEMMA TrailInvariant == Spec => []TrailInv
<1>1. Init => TrailInv
  BY TrailInit
<1>2. Ind /\ TrailInv /\ [Next]_vars => TrailInv'
  BY TrailStep DEF Ind
<1> QED BY <1>1, <1>2, IndInvariant, PTL DEF Spec

(* The application row never says more or less than its trail: terminal    *)
(* exactly when decided, completed only by an automatic decision, and the  *)
(* decision is that of the last audit row which names one, also after a    *)
(* fallback has overwritten a decision that was stored already.            *)
THEOREM AuditExplainsRowHolds == Spec => []AuditExplainsRow
<1>1. TrailInv => AuditExplainsRow
  BY DEF TrailInv, Explained, AuditExplainsRow
<1> QED BY <1>1, TrailInvariant, PTL

(* A confidence on the row is that of a calculation in the trail, and of   *)
(* the very decision the row shows if the application is completed.        *)
THEOREM ConfidenceIsAuditedHolds == Spec => []ConfidenceIsAudited
<1>1. TrailInv => ConfidenceIsAudited
  BY DEF TrailInv, Confident, ConfidenceIsAudited
<1> QED BY <1>1, TrailInvariant, PTL

-----------------------------------------------------------------------------
(* Refinement                                                              *)

(* What a step may do to one row is a step of the lifecycle.               *)
LEMMA WriteIsDecide ==
  ASSUME TypeOK, WorkerInv, NEW w \in Workers, pc[w] = "storing",
         status[task[w]] \notin Terminal,
         WriteDecision(task[w], Verdict[EvidenceOf(w)])
  PROVE  Life!Next
<1>1. task[w] \in Apps /\ Verdict[EvidenceOf(w)] \in Life!Decisions
  BY GatheredEvidence DEF WorkerInv, WorkerOK, Decisions
<1>2. status[task[w]] = "PROCESSING"
  BY <1>1, LifeDecisions DEF WorkerInv, WorkerOK, TypeOK
<1>3. Life!Decide(task[w], Verdict[EvidenceOf(w)])
  BY <1>2 DEF Life!Decide, WriteDecision
<1> QED BY <1>1, <1>3 DEF Life!Next

(* Every step of the processing is a step of the lifecycle, or none.       *)
LEMMA LifecycleStep ==
  ASSUME TypeOK, WorkerInv, [Next]_vars
  PROVE  [Life!Next]_Life!lifecycle
<1> USE DEF database, broker, workers
<1>1. ASSUME UNCHANGED <<status, decision>> PROVE [Life!Next]_Life!lifecycle
  BY <1>1 DEF Life!lifecycle
<1>2. ASSUME NEW w \in Workers, NEW a \in Apps, ClaimApplication(w, a)
      PROVE  [Life!Next]_Life!lifecycle
  <2>1. CASE status[a] = "PENDING"
    <3>1. Life!Begin(a)
      BY <1>2, <2>1 DEF ClaimApplication, Life!Begin
    <3> QED BY <3>1 DEF Life!Next
  <2>2. CASE status[a] = "PROCESSING"
    BY <1>2, <2>2 DEF ClaimApplication, TypeOK, Life!lifecycle
  <2> QED BY <1>2, <2>1, <2>2 DEF ClaimApplication, Claimable
<1>3. ASSUME NEW w \in Workers, StoreResults(w) PROVE [Life!Next]_Life!lifecycle
  BY <1>1, <1>3, WriteIsDecide DEF StoreResults
<1>4. ASSUME NEW w \in Workers, StoreRaises(w) PROVE [Life!Next]_Life!lifecycle
  BY <1>1, <1>4, WriteIsDecide DEF StoreRaises
<1>5. ASSUME NEW w \in Workers, MarkManualReview(w) PROVE [Life!Next]_Life!lifecycle
  <2>1. task[w] \in Apps
    BY <1>5 DEF MarkManualReview, Failing, WorkerInv, WorkerOK
  <2>2. Life!Escalate(task[w])
    BY <1>5 DEF MarkManualReview, Life!Escalate
  <2> QED BY <2>1, <2>2 DEF Life!Next
<1>6. CASE UNCHANGED vars
  BY <1>1, <1>6 DEF vars
<1> QED BY <1>1, <1>2, <1>3, <1>4, <1>5, <1>6, ZenonT(60)
        DEF Next, Take, Proceed, Disturbance, AnswerAtGate, ClaimRaises, LoadExternal,
            ProviderAnswers, StoreExternal, StoreExternalConflicts, FetchRaises,
            PipelineTimeout, ComputeDecision, MarkRaises, DuplicateMessage, WorkerLost,
            ChildLost, Dies, RestoreMessage, LockExpires

(* The row of an application moves only as ApplicationLifecycle allows:    *)
(* begun once, decided at most once and only while in processing, and      *)
(* after that only escalated to a human.                                   *)
THEOREM LifecycleRefined == Spec => ImplementsLifecycle
<1>1. Init => Life!Init
  BY DEF Init, Life!Init
<1>2. Ind /\ [Next]_vars => [Life!Next]_Life!lifecycle
  BY LifecycleStep DEF Ind
<1>3. Spec => Life!Init /\ [][Life!Next]_Life!lifecycle
  BY <1>1, <1>2, IndInvariant, PTL DEF Spec
<1> QED BY <1>3 DEF ImplementsLifecycle, Life!Spec

-----------------------------------------------------------------------------
(* No application is abandoned                                             *)

Tended(a) ==
  /\ status[a] = "PENDING" => Running(a) \/ queue[a] > 0 \/ restoring[a] > 0
  /\ status[a] = "PROCESSING" =>
       \/ Running(a)
       \/ restoring[a] > 0
       \/ queue[a] > 0 /\ lockExpired[a]

(* A step of worker w that leaves the row and the messages of an           *)
(* application alone tends it as before, if w did not work on it or still  *)
(* does.                                                                   *)
LEMMA TendedByOthers ==
  ASSUME NEW w \in Workers, NEW a \in Apps, Tended(a),
         \A v \in Workers \ {w} : pc'[v] = pc[v] /\ task'[v] = task[v],
         pc[w] # "idle" /\ task[w] = a => pc'[w] # "idle" /\ task'[w] = a,
         status'[a] = status[a], lockExpired'[a] = lockExpired[a],
         queue'[a] = queue[a], restoring'[a] = restoring[a]
  PROVE  Tended(a)'
<1>1. Running(a) => Running(a)'
  BY DEF Running
<1> QED BY <1>1 DEF Tended

(* Without faults that orphan a task, somebody always has it.              *)
LEMMA TendedStep ==
  ASSUME TypeOK, WorkerInv, Faults \cap Orphaning = {},
         \A a \in Apps : Tended(a), [Next]_vars
  PROVE  \A a \in Apps : Tended(a)'
<1> USE DEF database, broker, workers
<1>1. ASSUME UNCHANGED <<status, lockExpired, broker, pc, task>>
      PROVE  \A a \in Apps : Tended(a)'
  BY <1>1 DEF Tended, Running
<1>2. ASSUME NEW w \in Workers, NEW b \in Apps, ClaimApplication(w, b)
      PROVE  \A a \in Apps : Tended(a)'
  <2>1. TAKE a \in Apps
  <2>2. CASE a = b
    <3>1. pc'[w] = "fetching" /\ task'[w] = a
      BY <1>2, <2>2 DEF ClaimApplication, TypeOK
    <3> QED BY <3>1 DEF Tended, Running
  <2>3. CASE a # b
    BY <1>2, <2>3, TendedByOthers DEF ClaimApplication, TypeOK
  <2> QED BY <2>2, <2>3
<1>3. ASSUME NEW w \in Workers, NEW b \in Apps, AnswerAtGate(w, b)
      PROVE  \A a \in Apps : Tended(a)'
  <2>1. TAKE a \in Apps
  <2>2. CASE a = b
    <3>1. status[a] # "PENDING" /\ (status[a] = "PROCESSING" => ~lockExpired[a])
      BY <1>3, <2>2 DEF AnswerAtGate, Claimable
    <3> QED BY <1>3, <3>1 DEF AnswerAtGate, Tended, Running
  <2>3. CASE a # b
    BY <1>3, <2>3, TendedByOthers DEF AnswerAtGate, TypeOK
  <2> QED BY <2>2, <2>3
<1>4. ASSUME NEW w \in Workers, NEW b \in Apps, ClaimRaises(w, b)
      PROVE  \A a \in Apps : Tended(a)'
  <2>1. TAKE a \in Apps
  <2>2. CASE a = b
    <3>1. pc'[w] = "SYSTEM_ERROR" /\ task'[w] = a
      BY <1>4, <2>2 DEF ClaimRaises, TypeOK
    <3> QED BY <3>1 DEF Tended, Running
  <2>3. CASE a # b
    BY <1>4, <2>3, TendedByOthers DEF ClaimRaises, TypeOK
  <2> QED BY <2>2, <2>3
<1>5. ASSUME NEW w \in Workers, pc[w] # "idle", pc' = [pc EXCEPT ![w] = "SYSTEM_ERROR"],
             UNCHANGED <<status, lockExpired, broker, task>>
      PROVE  \A a \in Apps : Tended(a)'
  BY <1>5, TendedByOthers DEF TypeOK
<1>6. ASSUME NEW w \in Workers, PipelineTimeout(w) \/ ComputeDecision(w)
      PROVE  \A a \in Apps : Tended(a)'
  <2>1. pc'[w] # "idle"
    BY <1>6 DEF PipelineTimeout, ComputeDecision, TypeOK
  <2> QED BY <1>6, <2>1, TendedByOthers DEF PipelineTimeout, ComputeDecision, TypeOK
<1>7. ASSUME NEW w \in Workers, StoreResults(w) PROVE \A a \in Apps : Tended(a)'
  <2> DEFINE d == Verdict[EvidenceOf(w)]
             answer == [status |-> Life!StatusFor(d), decision |-> d]
  <2>1. /\ Finish(w, answer)
        /\ \/ UNCHANGED database /\ status[task[w]] \in Terminal
           \/ WriteDecision(task[w], d)
    BY <1>7 DEF StoreResults
  <2>2. task[w] \in Apps
    BY <1>7 DEF StoreResults, WorkerInv, WorkerOK
  <2> HIDE DEF d, answer
  <2>3. TAKE a \in Apps
  <2>4. CASE a = task[w]
    <3>1. status'[a] \in Terminal
      BY <2>1, <2>2, <2>4, LifeDecisions DEF WriteDecision, TypeOK
    <3> QED BY <3>1, LifeDecisions DEF Tended
  <2>5. CASE a # task[w]
    BY <2>1, <2>5, TendedByOthers DEF Finish, WriteDecision, TypeOK
  <2> QED BY <2>4, <2>5
<1>8. ASSUME NEW w \in Workers, StoreRaises(w) PROVE \A a \in Apps : Tended(a)'
  <2> DEFINE d == Verdict[EvidenceOf(w)]
  <2>1. /\ UNCHANGED database \/ WriteDecision(task[w], d)
        /\ pc[w] = "storing"
        /\ pc' = [pc EXCEPT ![w] = "SYSTEM_ERROR"]
        /\ UNCHANGED <<broker, task>>
    BY <1>8 DEF StoreRaises
  <2>2. task[w] \in Apps
    BY <2>1 DEF WorkerInv, WorkerOK
  <2> HIDE DEF d
  <2>3. TAKE a \in Apps
  <2>4. CASE a = task[w] /\ ~UNCHANGED database
    <3>1. status'[a] \in Terminal
      BY <2>1, <2>2, <2>4, LifeDecisions DEF WriteDecision, TypeOK
    <3> QED BY <3>1, LifeDecisions DEF Tended
  <2>5. CASE a # task[w] \/ UNCHANGED database
    BY <2>1, <2>5, TendedByOthers DEF WriteDecision, TypeOK
  <2> QED BY <2>4, <2>5
<1>9. ASSUME NEW w \in Workers, MarkManualReview(w) PROVE \A a \in Apps : Tended(a)'
  <2>1. task[w] \in Apps
    BY <1>9 DEF MarkManualReview, Failing, WorkerInv, WorkerOK
  <2>2. TAKE a \in Apps
  <2>3. CASE a = task[w]
    BY <1>9, <2>1, <2>3 DEF MarkManualReview, Tended, TypeOK
  <2>4. CASE a # task[w]
    BY <1>9, <2>4, TendedByOthers DEF MarkManualReview, Finish, TypeOK
  <2> QED BY <2>3, <2>4
<1>10. ASSUME NEW b \in Apps, DuplicateMessage(b) PROVE \A a \in Apps : Tended(a)'
  BY <1>10 DEF DuplicateMessage, Tended, Running, TypeOK
<1>11. ASSUME NEW w \in Workers, WorkerLost(w) PROVE \A a \in Apps : Tended(a)'
  <2>1. task[w] \in Apps
    BY <1>11 DEF WorkerLost, Dies, WorkerInv, WorkerOK
  <2>2. TAKE a \in Apps
  <2>3. CASE a = task[w]
    <3>1. restoring'[a] > 0
      BY <1>11, <2>1, <2>3 DEF WorkerLost, TypeOK
    <3> QED BY <3>1 DEF Tended
  <2>4. CASE a # task[w]
    BY <1>11, <2>4, TendedByOthers DEF WorkerLost, Dies, TypeOK
  <2> QED BY <2>3, <2>4
<1>12. ASSUME NEW b \in Apps, RestoreMessage(b) PROVE \A a \in Apps : Tended(a)'
  <2>1. TAKE a \in Apps
  <2>2. CASE a = b
    <3>1. queue'[a] > 0 /\ restoring'[a] = restoring[a] - 1 /\ restoring[a] \in Nat
          /\ UNCHANGED <<status, lockExpired, pc, task>>
      BY <1>12, <2>2 DEF RestoreMessage, TypeOK
    <3>2. ~FreshOrphan(a)
      BY <1>12, <2>2 DEF RestoreMessage, Fault, Orphaning
    <3>3. status[a] = "PROCESSING" => lockExpired[a] \/ Running(a) \/ restoring[a] > 1
      BY <1>12, <2>2, <3>1, <3>2 DEF FreshOrphan, RestoreMessage
    <3>4. Running(a) => Running(a)'
      BY <3>1 DEF Running
    <3> QED BY <3>1, <3>3, <3>4 DEF Tended
  <2>3. CASE a # b
    BY <1>12, <2>3 DEF RestoreMessage, Tended, Running, TypeOK
  <2> QED BY <2>2, <2>3
<1>13. ASSUME NEW b \in Apps, LockExpires(b) PROVE \A a \in Apps : Tended(a)'
  BY <1>13 DEF LockExpires, Tended, Running, TypeOK
<1>14. CASE UNCHANGED vars
  BY <1>1, <1>14 DEF vars
<1>15. \A w \in Workers : ~MarkRaises(w) /\ ~ChildLost(w)
  BY DEF MarkRaises, ChildLost, Fault, Orphaning
<1>16. ASSUME NEW w \in Workers, NEW s \in Sources,
              FetchRaises(w, s) \/ StoreExternalConflicts(w, s)
       PROVE  \A a \in Apps : Tended(a)'
  <2>1. pc[w] # "idle"
    BY <1>16 DEF FetchRaises, StoreExternalConflicts, WorkerInv, WorkerOK
  <2> QED BY <1>5, <1>16, <2>1 DEF FetchRaises, StoreExternalConflicts
<1> QED BY <1>1, <1>2, <1>3, <1>4, <1>6, <1>7, <1>8, <1>9, <1>10, <1>11, <1>12, <1>13,
           <1>14, <1>15, <1>16
        DEF Next, Take, Proceed, Disturbance, LoadExternal, ProviderAnswers, StoreExternal

(* As long as the environment does none of Orphaning, an application that  *)
(* is not finished always has a live worker or a message that will find    *)
(* it claimable, however often workers are lost and messages duplicated.   *)
THEOREM NotOrphanedHolds == Spec => []NotOrphaned
<1>1. CASE Faults \cap Orphaning = {}
  <2> DEFINE AllTended == \A a \in Apps : Tended(a)
  <2>1. Init => AllTended
    BY DEF Init, Tended
  <2>2. Ind /\ AllTended /\ [Next]_vars => AllTended'
    BY <1>1, TendedStep DEF Ind
  <2>3. AllTended => NotOrphaned
    BY DEF Tended, NotOrphaned
  <2> HIDE DEF AllTended
  <2> QED BY <2>1, <2>2, <2>3, IndInvariant, PTL DEF Spec
<1>2. CASE Faults \cap Orphaning # {}
  <2>1. NotOrphaned
    BY <1>2 DEF NotOrphaned
  <2> QED BY <2>1, PTL
<1> QED BY <1>1, <1>2

=============================================================================
