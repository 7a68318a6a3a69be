--------------------------- MODULE LoanProcessing ---------------------------
(***************************************************************************)
(* The Celery task process_application: worker processes that take         *)
(* messages from the broker, claim an application by a conditional UPDATE, *)
(* fetch (or reuse) the evidence of the external providers, compute the    *)
(* decision and store it, or send the application to manual review when    *)
(* anything raises or the task's time is up.                               *)
(*                                                                         *)
(* One action is one database transaction or one stretch of the event loop *)
(* between two awaits.  An audit row is written in the transaction of the  *)
(* change it records, so the two are one step here; the FETCH audit row of *)
(* a provider and its external_data row are one element of "external".     *)
(*                                                                         *)
(* What the environment may do is the constant Faults, and MaxFaults       *)
(* bounds how often.                                                       *)
(***************************************************************************)
EXTENDS Naturals, Sequences, FiniteSets

CONSTANTS
  Apps,             \* the loan applications
  Workers,          \* worker processes (celery --concurrency slots)
  Sources,          \* CREDIT_BUREAU, BANK_ANALYZER, GST_VERIFIER
  Outcomes,         \* what a provider call can end in: data or a FailureType
  Verdict,          \* the decision computed from one outcome per source
  MLRequested,      \* the scorer builds the ML feature row
  NumericEvidence,  \* <<source, outcome>> pairs whose data holds amounts
                    \* that the redaction of a stored row replaces
  Faults,           \* what the environment may do
  MaxFaults,        \* and how many times in all (a bound of the model)
  None              \* NULL

AllFaults ==
  { "duplicate",         \* the outbox or the broker sends a message twice
    "worker_lost",       \* a worker container dies; its message comes back
    "child_lost",        \* a pool process dies; Celery acknowledges its message
    "early_redelivery",  \* a message comes back before the claim is stale
    "stall",             \* a task outlives PROCESSING_LOCK_TIMEOUT_SECONDS
    "timeout",           \* TASK_TIMEOUT_SECONDS elapses
    "exception",         \* the database, Redis or the decryption raises
    "commit_lost",       \* a commit takes effect but is reported as failed
    "mark_error" }       \* the manual-review fallback itself raises

VARIABLES
  \* PostgreSQL
  status,       \* loan_applications.status
  decision,     \* loan_applications.decision
  confidence,   \* the decision loan_applications.confidence was computed for
  lockExpired,  \* updated_at < now - PROCESSING_LOCK_TIMEOUT_SECONDS
  external,     \* external_data: the outcome stored for each source
  audit,        \* audit_logs, oldest first
  \* Redis as Celery's broker and result backend
  queue,        \* messages ready to be delivered
  restoring,    \* unacknowledged messages of dead workers
  taskResult,   \* the result stored under the application's task id
  \* worker processes
  pc,           \* where the task is
  task,         \* the application it works on
  fetch,        \* per source: how far the fetch is and what it has
  \* environment
  faults        \* faults so far

database == <<status, decision, confidence, lockExpired, external, audit>>
broker   == <<queue, restoring, taskResult>>
workers  == <<pc, task, fetch>>
vars     == <<database, broker, workers, faults>>

Life == INSTANCE ApplicationLifecycle

Decisions  == Life!Decisions
Terminal   == Life!Terminal
Failing    == {"SYSTEM_ERROR", "PIPELINE_TIMEOUT"}
AuditSteps == {"PROCESSING_STARTED", "DECISION_CALCULATION", "MANUAL_REVIEW"}
                \cup Failing
Evidence   == [Sources -> Outcomes]

ASSUME ProcessingAssumption ==
  /\ None \notin Apps \cup Outcomes \cup Decisions
  /\ Verdict \in [Evidence -> Decisions]
  /\ MLRequested \in BOOLEAN
  /\ NumericEvidence \subseteq Sources \X Outcomes
  /\ Faults \subseteq AllFaults
  /\ MaxFaults \in Nat

AuditEntry  == [step : AuditSteps, decision : Decisions \cup {None}]
FetchState  == [at : {"none", "load", "calling", "inserting", "done", "raised"},
                outcome : Outcomes \cup {None},
                redacted : BOOLEAN]
TaskAnswer  == [status : Life!Statuses \cup {"FAILURE"},
                decision : Decisions \cup {None}]

NoFetch == [at |-> "none", outcome |-> None, redacted |-> FALSE]
ToLoad  == [at |-> "load", outcome |-> None, redacted |-> FALSE]

TypeOK ==
  /\ status \in [Apps -> Life!Statuses]
  /\ decision \in [Apps -> Decisions \cup {None}]
  /\ confidence \in [Apps -> Decisions \cup {None}]
  /\ lockExpired \in [Apps -> BOOLEAN]
  /\ external \in [Apps -> [Sources -> Outcomes \cup {None}]]
  /\ audit \in [Apps -> Seq(AuditEntry)]
  /\ queue \in [Apps -> Nat]
  /\ restoring \in [Apps -> Nat]
  /\ taskResult \in [Apps -> TaskAnswer \cup {None}]
  /\ pc \in [Workers -> {"idle", "fetching", "storing"} \cup Failing]
  /\ task \in [Workers -> Apps \cup {None}]
  /\ fetch \in [Workers -> [Sources -> FetchState]]
  /\ faults \in 0..MaxFaults

(* The outbox has delivered each application once and nothing has run.     *)
Init ==
  /\ status = [a \in Apps |-> "PENDING"]
  /\ decision = [a \in Apps |-> None]
  /\ confidence = [a \in Apps |-> None]
  /\ lockExpired = [a \in Apps |-> FALSE]
  /\ external = [a \in Apps |-> [s \in Sources |-> None]]
  /\ audit = [a \in Apps |-> <<>>]
  /\ queue = [a \in Apps |-> 1]
  /\ restoring = [a \in Apps |-> 0]
  /\ taskResult = [a \in Apps |-> None]
  /\ pc = [w \in Workers |-> "idle"]
  /\ task = [w \in Workers |-> None]
  /\ fetch = [w \in Workers |-> [s \in Sources |-> NoFetch]]
  /\ faults = 0

-----------------------------------------------------------------------------
(* Helpers                                                                 *)

Fault(kind) ==
  /\ kind \in Faults
  /\ faults < MaxFaults
  /\ faults' = faults + 1

Running(a) == \E w \in Workers : pc[w] # "idle" /\ task[w] = a

(* A child that has read "no row" inserts before it awaits again, so       *)
(* nothing else of the same event loop runs in between.                    *)
Inserting(w) == \E s \in Sources : fetch[w][s].at = "inserting"

Gathered(w) == \A s \in Sources : fetch[w][s].at = "done"

EvidenceOf(w) == [s \in Sources |-> fetch[w][s].outcome]

(* float("***REDACTED***") raises while the ML feature row is built.       *)
FeatureRowRaises(w) ==
  /\ MLRequested
  /\ \E s \in Sources : /\ fetch[w][s].redacted
                        /\ <<s, fetch[w][s].outcome>> \in NumericEvidence

(* The rows a stored decision adds: the calculation and, when a human      *)
(* takes over, the routing (MANUAL_REVIEW_OVERRIDE or _ROUTING).           *)
AppendDecision(rows, d) ==
  LET calculated == Append(rows, [step |-> "DECISION_CALCULATION", decision |-> d])
  IN  IF d = "NEEDS_REVIEW"
        THEN Append(calculated, [step |-> "MANUAL_REVIEW", decision |-> d])
        ELSE calculated

(* The task returns: its message is acknowledged and its return value      *)
(* replaces the result stored under the application's task id.             *)
Finish(w, answer) ==
  /\ pc' = [pc EXCEPT ![w] = "idle"]
  /\ task' = [task EXCEPT ![w] = None]
  /\ fetch' = [fetch EXCEPT ![w] = [s \in Sources |-> NoFetch]]
  /\ taskResult' = [taskResult EXCEPT ![task[w]] = answer]
  /\ UNCHANGED <<queue, restoring>>

-----------------------------------------------------------------------------
(* The claim                                                               *)

(* Mutant: no recovery of a stale claim.                                   *)
ClaimableOnce(a) == status[a] = "PENDING"

Claimable(a) ==
  \/ status[a] = "PENDING"
  \/ status[a] = "PROCESSING" /\ lockExpired[a]

(* UPDATE ... WHERE PENDING OR (PROCESSING AND stale) RETURNING, and the   *)
(* PROCESSING_STARTED row.                                                 *)
ClaimApplication(w, a) ==
  /\ pc[w] = "idle"
  /\ queue[a] > 0
  /\ Claimable(a)
  /\ queue' = [queue EXCEPT ![a] = @ - 1]
  /\ status' = [status EXCEPT ![a] = "PROCESSING"]
  /\ lockExpired' = [lockExpired EXCEPT ![a] = FALSE]
  /\ audit' = [audit EXCEPT
       ![a] = Append(@, [step |-> "PROCESSING_STARTED", decision |-> None])]
  /\ pc' = [pc EXCEPT ![w] = "fetching"]
  /\ task' = [task EXCEPT ![w] = a]
  /\ fetch' = [fetch EXCEPT ![w] = [s \in Sources |-> ToLoad]]
  /\ UNCHANGED <<decision, confidence, external, restoring, taskResult, faults>>

(* Nothing to claim: the message is acknowledged with the stored state.    *)
AnswerAtGate(w, a) ==
  /\ pc[w] = "idle"
  /\ queue[a] > 0
  /\ ~Claimable(a)
  /\ queue' = [queue EXCEPT ![a] = @ - 1]
  /\ taskResult' = [taskResult EXCEPT
       ![a] = [status |-> status[a],
               decision |-> IF status[a] \in Terminal THEN decision[a] ELSE None]]
  /\ UNCHANGED <<database, restoring, workers, faults>>

(* The claim transaction raises and rolls back (database error, or the     *)
(* applicant's data cannot be decrypted).                                  *)
ClaimRaises(w, a) ==
  /\ pc[w] = "idle"
  /\ queue[a] > 0
  /\ Fault("exception")
  /\ queue' = [queue EXCEPT ![a] = @ - 1]
  /\ pc' = [pc EXCEPT ![w] = "SYSTEM_ERROR"]
  /\ task' = [task EXCEPT ![w] = a]
  /\ UNCHANGED <<database, restoring, taskResult, fetch>>

-----------------------------------------------------------------------------
(* Fetching: one child of asyncio.gather per source.  After one child has  *)
(* raised, its siblings run on until the event loop is closed.             *)

ChildRuns(w) == pc[w] \in {"fetching", "SYSTEM_ERROR"} /\ ~Inserting(w)

SetFetch(w, s, at, outcome, redacted) ==
  fetch' = [fetch EXCEPT ![w][s] =
              [at |-> at, outcome |-> outcome, redacted |-> redacted]]

(* _load_external_result: reuse the stored row, or go and call.            *)
LoadExternal(w, s) ==
  /\ ChildRuns(w)
  /\ fetch[w][s].at = "load"
  /\ LET row == external[task[w]][s]
     IN  IF row # None THEN SetFetch(w, s, "done", row, TRUE)
                       ELSE SetFetch(w, s, "calling", None, FALSE)
  /\ UNCHANGED <<database, broker, pc, task, faults>>

(* Mutant: a row found on the second reading is ignored, and the fresh     *)
(* answer is used without being stored.                                    *)
ProviderAnswersNoReuse(w, s) ==
  /\ ChildRuns(w)
  /\ fetch[w][s].at = "calling"
  /\ LET row == external[task[w]][s]
     IN  \E o \in Outcomes :
           SetFetch(w, s, IF row = None THEN "inserting" ELSE "done", o, FALSE)
  /\ UNCHANGED <<database, broker, pc, task, faults>>

(* The provider call returns; the table is read again.                     *)
ProviderAnswers(w, s) ==
  /\ ChildRuns(w)
  /\ fetch[w][s].at = "calling"
  /\ LET row == external[task[w]][s]
     IN  \/ row # None /\ SetFetch(w, s, "done", row, TRUE)
         \/ row = None /\ \E o \in Outcomes : SetFetch(w, s, "inserting", o, FALSE)
  /\ UNCHANGED <<database, broker, pc, task, faults>>

(* INSERT of the row; its FETCH audit row goes with it.                    *)
StoreExternal(w, s) ==
  /\ fetch[w][s].at = "inserting"
  /\ external[task[w]][s] = None
  /\ external' = [external EXCEPT ![task[w]][s] = fetch[w][s].outcome]
  /\ SetFetch(w, s, "done", fetch[w][s].outcome, FALSE)
  /\ UNCHANGED <<status, decision, confidence, lockExpired, audit, broker,
                 pc, task, faults>>

(* Another worker's row got in first: the unique index on                  *)
(* (application_id, source_type) raises IntegrityError.                    *)
StoreExternalConflicts(w, s) ==
  /\ fetch[w][s].at = "inserting"
  /\ external[task[w]][s] # None
  /\ SetFetch(w, s, "raised", None, FALSE)
  /\ pc' = [pc EXCEPT ![w] = "SYSTEM_ERROR"]
  /\ UNCHANGED <<database, broker, task, faults>>

(* Anything else a child may raise: the database, or Redis under the       *)
(* circuit breaker.                                                        *)
FetchRaises(w, s) ==
  /\ pc[w] = "fetching"
  /\ fetch[w][s].at # "raised"
  /\ \A r \in Sources \ {s} : fetch[w][r].at # "inserting"
  /\ Fault("exception")
  /\ SetFetch(w, s, "raised", None, FALSE)
  /\ pc' = [pc EXCEPT ![w] = "SYSTEM_ERROR"]
  /\ UNCHANGED <<database, broker, task>>

(* asyncio.wait_for cancels the pipeline: only while it awaits, that is    *)
(* during the fetch or the closing of the Redis client.                    *)
PipelineTimeout(w) ==
  /\ pc[w] = "fetching"
  /\ ~Inserting(w)
  /\ Fault("timeout")
  /\ pc' = [pc EXCEPT ![w] = "PIPELINE_TIMEOUT"]
  /\ UNCHANGED <<database, broker, task, fetch>>

-----------------------------------------------------------------------------
(* Deciding and storing                                                    *)

ComputeDecision(w) ==
  /\ pc[w] = "fetching"
  /\ Gathered(w)
  /\ pc' = [pc EXCEPT ![w] = IF FeatureRowRaises(w) THEN "SYSTEM_ERROR"
                                                    ELSE "storing"]
  /\ UNCHANGED <<database, broker, task, fetch, faults>>

(* Mutant: the status column is given the decision.                        *)
WriteDecisionAsStatus(a, d) ==
  /\ status' = [status EXCEPT ![a] = d]
  /\ decision' = [decision EXCEPT ![a] = d]
  /\ confidence' = [confidence EXCEPT ![a] = d]
  /\ lockExpired' = [lockExpired EXCEPT ![a] = FALSE]
  /\ audit' = [audit EXCEPT ![a] = AppendDecision(@, d)]
  /\ UNCHANGED external

(* Mutant: the confidence column is forgotten.                             *)
WriteDecisionNoConfidence(a, d) ==
  /\ status' = [status EXCEPT ![a] = Life!StatusFor(d)]
  /\ decision' = [decision EXCEPT ![a] = d]
  /\ lockExpired' = [lockExpired EXCEPT ![a] = FALSE]
  /\ audit' = [audit EXCEPT ![a] = AppendDecision(@, d)]
  /\ UNCHANGED <<confidence, external>>

(* The body of the storing transaction under SELECT ... FOR UPDATE.        *)
WriteDecision(a, d) ==
  /\ status' = [status EXCEPT ![a] = Life!StatusFor(d)]
  /\ decision' = [decision EXCEPT ![a] = d]
  /\ confidence' = [confidence EXCEPT ![a] = d]
  /\ lockExpired' = [lockExpired EXCEPT ![a] = FALSE]
  /\ audit' = [audit EXCEPT ![a] = AppendDecision(@, d)]
  /\ UNCHANGED external

(* Mutant: no test for a terminal status under the row lock.               *)
StoreResultsUngated(w) ==
  LET d == Verdict[EvidenceOf(w)]
  IN  /\ pc[w] = "storing"
      /\ WriteDecision(task[w], d)
      /\ Finish(w, [status |-> Life!StatusFor(d), decision |-> d])
      /\ UNCHANGED faults

(* A terminal application is left alone, yet the task answers with the     *)
(* decision it computed itself.                                            *)
StoreResults(w) ==
  LET d == Verdict[EvidenceOf(w)]
  IN  /\ pc[w] = "storing"
      /\ IF status[task[w]] \in Terminal THEN UNCHANGED database
                                         ELSE WriteDecision(task[w], d)
      /\ Finish(w, [status |-> Life!StatusFor(d), decision |-> d])
      /\ UNCHANGED faults

StoreRaises(w) ==
  /\ pc[w] = "storing"
  /\ \/ Fault("exception") /\ UNCHANGED database
     \/ /\ Fault("commit_lost")
        /\ status[task[w]] \notin Terminal
        /\ WriteDecision(task[w], Verdict[EvidenceOf(w)])
  /\ pc' = [pc EXCEPT ![w] = "SYSTEM_ERROR"]
  /\ UNCHANGED <<broker, task, fetch>>

(* Mutant: the fallback leaves no audit row.                               *)
MarkSilently(w) ==
  /\ pc[w] \in Failing
  /\ ~Inserting(w)
  /\ status' = [status EXCEPT ![task[w]] = "MANUAL_REVIEW"]
  /\ decision' = [decision EXCEPT ![task[w]] = "NEEDS_REVIEW"]
  /\ lockExpired' = [lockExpired EXCEPT ![task[w]] = FALSE]
  /\ Finish(w, [status |-> "MANUAL_REVIEW", decision |-> "NEEDS_REVIEW"])
  /\ UNCHANGED <<confidence, external, audit, faults>>

(* Mutant: the fallback answers but does not touch the application.        *)
MarkNothing(w) ==
  /\ pc[w] \in Failing
  /\ ~Inserting(w)
  /\ Finish(w, [status |-> "MANUAL_REVIEW", decision |-> "NEEDS_REVIEW"])
  /\ UNCHANGED <<database, faults>>

(* The fallback: whatever the row says now, it becomes a manual review.    *)
MarkManualReview(w) ==
  /\ pc[w] \in Failing
  /\ ~Inserting(w)
  /\ status' = [status EXCEPT ![task[w]] = "MANUAL_REVIEW"]
  /\ decision' = [decision EXCEPT ![task[w]] = "NEEDS_REVIEW"]
  /\ lockExpired' = [lockExpired EXCEPT ![task[w]] = FALSE]
  /\ audit' = [audit EXCEPT
       ![task[w]] = Append(@, [step |-> pc[w], decision |-> "NEEDS_REVIEW"])]
  /\ Finish(w, [status |-> "MANUAL_REVIEW", decision |-> "NEEDS_REVIEW"])
  /\ UNCHANGED <<confidence, external, faults>>

MarkRaises(w) ==
  /\ pc[w] \in Failing
  /\ ~Inserting(w)
  /\ Fault("mark_error")
  /\ Finish(w, [status |-> "FAILURE", decision |-> None])
  /\ UNCHANGED database

-----------------------------------------------------------------------------
(* Broker, processes and time                                              *)

DuplicateMessage(a) ==
  /\ Fault("duplicate")
  /\ queue' = [queue EXCEPT ![a] = @ + 1]
  /\ UNCHANGED <<database, restoring, taskResult, workers>>

Dies(w) ==
  /\ pc[w] # "idle"
  /\ pc' = [pc EXCEPT ![w] = "idle"]
  /\ task' = [task EXCEPT ![w] = None]
  /\ fetch' = [fetch EXCEPT ![w] = [s \in Sources |-> NoFetch]]
  /\ UNCHANGED <<database, queue>>

(* The container goes: the message stays unacknowledged (task_acks_late).  *)
WorkerLost(w) ==
  /\ Fault("worker_lost")
  /\ Dies(w)
  /\ restoring' = [restoring EXCEPT ![task[w]] = @ + 1]
  /\ UNCHANGED taskResult

(* Only the pool process goes: Celery records a failure and acknowledges   *)
(* the message, as task_reject_on_worker_lost is not set.                  *)
ChildLost(w) ==
  /\ Fault("child_lost")
  /\ Dies(w)
  /\ taskResult' = [taskResult EXCEPT
       ![task[w]] = [status |-> "FAILURE", decision |-> None]]
  /\ UNCHANGED restoring

(* Redis redelivers after its visibility timeout (an hour unless           *)
(* configured), so the message of a dead claimant comes back after its     *)
(* claim has become stale; a channel that is closed in order gives its     *)
(* messages back at once.                                                  *)
FreshOrphan(a) ==
  /\ status[a] = "PROCESSING"
  /\ ~lockExpired[a]
  /\ ~Running(a)
  /\ restoring[a] = 1

RestoreMessage(a) ==
  /\ restoring[a] > 0
  /\ IF FreshOrphan(a) THEN Fault("early_redelivery") ELSE UNCHANGED faults
  /\ restoring' = [restoring EXCEPT ![a] = @ - 1]
  /\ queue' = [queue EXCEPT ![a] = @ + 1]
  /\ UNCHANGED <<database, taskResult, workers>>

(* The claim of a dead worker becomes stale; that of a live one only if    *)
(* the task can outlast the lock.                                          *)
LockExpires(a) ==
  /\ status[a] = "PROCESSING"
  /\ ~lockExpired[a]
  /\ IF Running(a) THEN Fault("stall") ELSE UNCHANGED faults
  /\ lockExpired' = [lockExpired EXCEPT ![a] = TRUE]
  /\ UNCHANGED <<status, decision, confidence, external, audit, broker, workers>>

-----------------------------------------------------------------------------
Take(w, a) == ClaimApplication(w, a) \/ AnswerAtGate(w, a)

(* What a live worker does on its own.                                     *)
Proceed(w) ==
  \/ \E s \in Sources : \/ LoadExternal(w, s)
                        \/ ProviderAnswers(w, s)
                        \/ StoreExternal(w, s)
                        \/ StoreExternalConflicts(w, s)
  \/ ComputeDecision(w)
  \/ StoreResults(w)
  \/ MarkManualReview(w)

Disturbance ==
  \/ \E w \in Workers : \/ \E a \in Apps : ClaimRaises(w, a)
                        \/ \E s \in Sources : FetchRaises(w, s)
                        \/ PipelineTimeout(w)
                        \/ StoreRaises(w)
                        \/ MarkRaises(w)
                        \/ WorkerLost(w)
                        \/ ChildLost(w)
  \/ \E a \in Apps : DuplicateMessage(a)

Next ==
  \/ \E w \in Workers, a \in Apps : Take(w, a)
  \/ \E w \in Workers : Proceed(w)
  \/ \E a \in Apps : RestoreMessage(a) \/ LockExpires(a)
  \/ Disturbance

Spec == Init /\ [][Next]_vars

(* Celery delivers what is queued, a live worker goes on (every provider   *)
(* call ends by its HTTP timeout), clocks advance and the broker restores. *)
Fairness ==
  /\ \A a \in Apps : /\ WF_vars(\E w \in Workers : Take(w, a))
                     /\ WF_vars(RestoreMessage(a))
                     /\ WF_vars(LockExpires(a))
  /\ \A w \in Workers : WF_vars(Proceed(w))

FairSpec == Spec /\ Fairness

-----------------------------------------------------------------------------
(* Properties                                                              *)

DecisionRows(a) ==
  { i \in DOMAIN audit[a] : audit[a][i].step = "DECISION_CALCULATION" }

(* However many deliveries, workers and retries an application has had, at *)
(* most one decision is ever computed and stored for it.                   *)
OneDecision ==
  \A a \in Apps : \A i, j \in DecisionRows(a) : i = j

(* The audited decision is the one the stored provider rows give: a reader *)
(* of external_data can recompute it, whichever worker fetched which row.  *)
DecisionFollowsEvidence ==
  \A a \in Apps : \A i \in DecisionRows(a) :
    /\ external[a] \in Evidence
    /\ audit[a][i].decision = Verdict[external[a]]

(* The row and its trail agree: an application is terminal exactly when it *)
(* has a decision, it is COMPLETED only with an automatic one, and the     *)
(* latest audit row that names a decision names the stored one.            *)
AuditExplainsRow ==
  \A a \in Apps :
    /\ status[a] \in Terminal <=> decision[a] # None
    /\ status[a] = "COMPLETED" => decision[a] # "NEEDS_REVIEW"
    /\ IF decision[a] = None
         THEN \A i \in DOMAIN audit[a] : audit[a][i].decision = None
         ELSE \E i \in DOMAIN audit[a] :
                /\ audit[a][i].decision = decision[a]
                /\ \A j \in DOMAIN audit[a] :
                     j > i => audit[a][j].decision = None

(* A stored confidence is that of an audited calculation, and after a      *)
(* system error it may be the only trace of it on the row.                 *)
ConfidenceIsAudited ==
  \A a \in Apps :
    /\ status[a] = "COMPLETED" => confidence[a] = decision[a]
    /\ confidence[a] # None =>
         \E i \in DecisionRows(a) : audit[a][i].decision = confidence[a]

(* The row moves as ApplicationLifecycle says.                             *)
ImplementsLifecycle == Life!Spec

Orphaning == {"child_lost", "early_redelivery", "mark_error"}

(* An application in PROCESSING is never abandoned: a live worker has it,  *)
(* or a message that will find the claim stale is still to be delivered.   *)
NotOrphaned ==
  Faults \cap Orphaning = {} =>
    \A a \in Apps :
      /\ status[a] = "PENDING" => Running(a) \/ queue[a] > 0 \/ restoring[a] > 0
      /\ status[a] = "PROCESSING" =>
           \/ Running(a)
           \/ restoring[a] > 0
           \/ queue[a] > 0 /\ lockExpired[a]

(* Every application is decided or sent to a human.                        *)
EventuallyDecided == \A a \in Apps : <>(status[a] \in Terminal)

(* Crashes and redeliveries leave no trace in the result: a finished       *)
(* application has the decision its evidence gives.                        *)
CrashTransparent ==
  \A a \in Apps :
    status[a] \in Terminal => /\ external[a] \in Evidence
                              /\ decision[a] = Verdict[external[a]]

(* A decision, once stored, stays.                                         *)
DecisionIsFinal ==
  [][\A a \in Apps : decision[a] # None => decision'[a] = decision[a]]_vars
=============================================================================
