--------------------------- MODULE CircuitBreaker ---------------------------
(***************************************************************************)
(* The circuit breaker of one external provider: BaseExternalService.call, *)
(* run at the same time by every worker, over four Redis keys they share.  *)
(*                                                                         *)
(* There is no transaction around the keys: every Redis command is an      *)
(* await, so every command is an action here and any two calls interleave  *)
(* between them.  A call may be abandoned at any of these points, because  *)
(* its task is cancelled, its worker dies or Redis raises.                 *)
(*                                                                         *)
(* Time is what the keys see of it: the open timeout, the counting window  *)
(* and the TTL of the probe lock each pass in a step of their own.         *)
(***************************************************************************)
EXTENDS Naturals, FiniteSets

CONSTANTS
  Callers,     \* concurrent calls to the provider
  Threshold,   \* CIRCUIT_BREAKER_THRESHOLD
  MaxRetries,  \* MAX_RETRIES
  MaxDowns,    \* SERVICE_DOWN answers between two rests (a bound of the model)
  MaxAborts    \* how many abandoned calls (a bound of the model)

ASSUME BreakerAssumption ==
  /\ IsFiniteSet(Callers)
  /\ Threshold \in Nat \ {0}
  /\ MaxRetries \in Nat
  /\ MaxDowns \in Nat
  /\ MaxAborts \in Nat

VARIABLES
  \* Redis: circuit:{service}:...
  state,        \* ...:state; an absent key reads as CLOSED
  failureCount, \* ...:failure_count; 0 when absent
  countExpires, \* that key has a TTL
  lastFailure,  \* ...:last_failure: absent, or how long ago it was
  probeLock,    \* ...:probe_lock exists
  \* the calls
  pc,           \* the command a call issues next
  attempt,      \* retries so far
  probing,      \* the call is the half-open probe
  trips,        \* the count its INCR returned reached the threshold
  \* what the model remembers
  old,          \* calls that began before the circuit last opened
  overlapped,   \* a reset has run while another call was judging the circuit
  downs,        \* SERVICE_DOWN answers since the circuit was last at rest
  orphans,      \* failures whose call died before it gave the count its TTL
  aborts        \* abandoned calls so far

redis   == <<state, failureCount, countExpires, lastFailure, probeLock>>
local   == <<pc, attempt, probing, trips, old>>
outage  == <<downs, orphans>>
history == <<overlapped, outage, aborts>>
vars    == <<redis, local, history>>

SuccessSteps == {"set_closed", "del_count", "del_last_failure", "del_probe_lock"}
FailureSteps == {"incr", "expire", "set_last_failure", "set_open"}
ProbeSteps   == {"probe_set_open", "probe_set_last_failure", "probe_del_lock"}
Steps == {"idle", "get_last_failure", "set_half_open", "acquire", "request"}
           \cup SuccessSteps \cup FailureSteps \cup ProbeSteps

TypeOK ==
  /\ state \in {"CLOSED", "OPEN", "HALF_OPEN"}
  /\ failureCount \in 0..(MaxDowns + MaxAborts)
  /\ countExpires \in BOOLEAN
  /\ lastFailure \in {"absent", "recent", "elapsed"}
  /\ probeLock \in BOOLEAN
  /\ pc \in [Callers -> Steps]
  /\ attempt \in [Callers -> 0..MaxRetries]
  /\ probing \in [Callers -> BOOLEAN]
  /\ trips \in [Callers -> BOOLEAN]
  /\ old \subseteq { c \in Callers : pc[c] # "idle" }
  /\ overlapped \in BOOLEAN
  /\ downs \in 0..MaxDowns
  /\ aborts \in 0..MaxAborts
  /\ orphans \in 0..aborts

Init ==
  /\ state = "CLOSED"
  /\ failureCount = 0
  /\ countExpires = FALSE
  /\ lastFailure = "absent"
  /\ probeLock = FALSE
  /\ pc = [c \in Callers |-> "idle"]
  /\ attempt = [c \in Callers |-> 0]
  /\ probing = [c \in Callers |-> FALSE]
  /\ trips = [c \in Callers |-> FALSE]
  /\ old = {}
  /\ overlapped = FALSE
  /\ downs = 0
  /\ orphans = 0
  /\ aborts = 0

-----------------------------------------------------------------------------
(* Helpers                                                                 *)

InFlight == { c \in Callers : pc[c] # "idle" }

Resetting(c) == pc[c] \in SuccessSteps

(* The call holds an opinion on the circuit it has yet to write down.      *)
Judging(c) ==
  \/ pc[c] \in {"set_half_open", "acquire"} \cup FailureSteps \cup ProbeSteps
  \/ pc[c] = "request" /\ probing[c]

Overlap == \E c, d \in Callers : Resetting(c) /\ Judging(d)

(* The circuit is closed and no call is judging it, or has just read that  *)
(* it is open: what is left of an outage is in the failure count.          *)
AtRest ==
  /\ state = "CLOSED"
  /\ \A c \in Callers : ~Judging(c) /\ pc[c] # "get_last_failure"

(* Every step of a call moves its pc; a step that returns forgets the call *)
(* and its locals.                                                         *)
Continue(c, next) ==
  /\ pc' = [pc EXCEPT ![c] = next]
  /\ UNCHANGED <<attempt, probing, trips>>

Return(c) ==
  /\ pc' = [pc EXCEPT ![c] = "idle"]
  /\ attempt' = [attempt EXCEPT ![c] = 0]
  /\ probing' = [probing EXCEPT ![c] = FALSE]
  /\ trips' = [trips EXCEPT ![c] = FALSE]

(* Mutant: one retry too many.                                             *)
RetryOrReturnOnceMore(c) ==
  IF attempt[c] <= MaxRetries
    THEN /\ pc' = [pc EXCEPT ![c] = "request"]
         /\ attempt' = [attempt EXCEPT ![c] = @ + 1]
         /\ trips' = [trips EXCEPT ![c] = FALSE]
         /\ UNCHANGED probing
    ELSE Return(c)

(* After a retryable failure: back off and try again, or give up.          *)
RetryOrReturn(c) ==
  IF attempt[c] < MaxRetries
    THEN /\ pc' = [pc EXCEPT ![c] = "request"]
         /\ attempt' = [attempt EXCEPT ![c] = @ + 1]
         /\ trips' = [trips EXCEPT ![c] = FALSE]
         /\ UNCHANGED probing
    ELSE Return(c)

(* Both are history: the calls in flight at the writes that open the       *)
(* circuit become old until they return, and any overlap is remembered.    *)
Track(c) ==
  LET opening == pc[c] \in {"set_last_failure", "set_open", "probe_set_open",
                            "probe_set_last_failure"}
  IN  /\ old' = { d \in IF opening THEN InFlight ELSE old : pc'[d] # "idle" }
      /\ overlapped' = (overlapped \/ Overlap)

Remember(c) == Track(c) /\ UNCHANGED <<outage, aborts>>

(* The count has been removed: at rest, nothing is left of the outage.     *)
Forget ==
  /\ downs' = IF AtRest THEN 0 ELSE downs
  /\ orphans' = IF AtRest THEN 0 ELSE orphans

-----------------------------------------------------------------------------
(* _circuit_state and the gate of call                                     *)

(* GET state: closed goes on, half-open tries for the probe, open looks at *)
(* the last failure.                                                       *)
GetState(c) ==
  /\ pc[c] = "idle"
  /\ pc' = [pc EXCEPT ![c] = CASE state = "CLOSED"    -> "request"
                               [] state = "HALF_OPEN" -> "acquire"
                               [] state = "OPEN"      -> "get_last_failure"]
  /\ Remember(c)
  /\ UNCHANGED <<redis, attempt, probing, trips>>

(* Without a last_failure an open circuit is taken as still open.          *)
GetLastFailure(c) ==
  /\ pc[c] = "get_last_failure"
  /\ IF lastFailure = "elapsed" THEN Continue(c, "set_half_open") ELSE Return(c)
  /\ Remember(c)
  /\ UNCHANGED redis

SetHalfOpen(c) ==
  /\ pc[c] = "set_half_open"
  /\ state' = "HALF_OPEN"
  /\ Continue(c, "acquire")
  /\ Remember(c)
  /\ UNCHANGED <<failureCount, countExpires, lastFailure, probeLock>>

(* SET NX EX: whoever does not get the lock answers SERVICE_DOWN.          *)
AcquireHalfOpenProbe(c) ==
  /\ pc[c] = "acquire"
  /\ probeLock' = TRUE
  /\ IF probeLock
       THEN Return(c)
       ELSE /\ pc' = [pc EXCEPT ![c] = "request"]
            /\ probing' = [probing EXCEPT ![c] = TRUE]
            /\ UNCHANGED <<attempt, trips>>
  /\ Remember(c)
  /\ UNCHANGED <<state, failureCount, countExpires, lastFailure>>

-----------------------------------------------------------------------------
(* One HTTP attempt and what the loop does with its answer                 *)

RequestSucceeds(c) ==
  /\ pc[c] = "request"
  /\ Continue(c, "set_closed")
  /\ Remember(c)
  /\ UNCHANGED redis

(* Any failure of a probe reopens the circuit, a missing record included.  *)
ProbeFails(c) ==
  /\ pc[c] = "request"
  /\ probing[c]
  /\ Continue(c, "probe_set_open")
  /\ Remember(c)
  /\ UNCHANGED redis

(* A connection error, a 5xx, or a 4xx other than 400, 404 and 408.        *)
RequestFindsServiceDown(c) ==
  /\ pc[c] = "request"
  /\ ~probing[c]
  /\ downs < MaxDowns
  /\ downs' = downs + 1
  /\ Continue(c, "incr")
  /\ Track(c)
  /\ UNCHANGED <<redis, orphans, aborts>>

(* A timeout is retried but says nothing to the breaker.                   *)
RequestTimesOut(c) ==
  /\ pc[c] = "request"
  /\ ~probing[c]
  /\ RetryOrReturn(c)
  /\ Remember(c)
  /\ UNCHANGED redis

(* NO_RECORD and FORMAT_ERROR are answers, neither retried nor counted.    *)
RequestIsRefused(c) ==
  /\ pc[c] = "request"
  /\ ~probing[c]
  /\ Return(c)
  /\ Remember(c)
  /\ UNCHANGED redis

-----------------------------------------------------------------------------
(* _record_success: SET CLOSED and three DELs                              *)

SetClosed(c) ==
  /\ pc[c] = "set_closed"
  /\ state' = "CLOSED"
  /\ Continue(c, "del_count")
  /\ Remember(c)
  /\ UNCHANGED <<failureCount, countExpires, lastFailure, probeLock>>

(* Mutant: a success leaves the count.                                     *)
DelFailureCountForgotten(c) ==
  /\ pc[c] = "del_count"
  /\ Continue(c, "del_last_failure")
  /\ Track(c)
  /\ Forget
  /\ UNCHANGED <<redis, aborts>>

DelFailureCount(c) ==
  /\ pc[c] = "del_count"
  /\ failureCount' = 0
  /\ countExpires' = FALSE
  /\ Continue(c, "del_last_failure")
  /\ Track(c)
  /\ Forget
  /\ UNCHANGED <<state, lastFailure, probeLock, aborts>>

DelLastFailure(c) ==
  /\ pc[c] = "del_last_failure"
  /\ lastFailure' = "absent"
  /\ Continue(c, "del_probe_lock")
  /\ Remember(c)
  /\ UNCHANGED <<state, failureCount, countExpires, probeLock>>

(* The lock is deleted whoever holds it: it carries no owner.              *)
DelProbeLock(c) ==
  /\ pc[c] = "del_probe_lock"
  /\ probeLock' = FALSE
  /\ Return(c)
  /\ Remember(c)
  /\ UNCHANGED <<state, failureCount, countExpires, lastFailure>>

-----------------------------------------------------------------------------
(* _record_service_down: INCR, EXPIRE, SET last_failure, maybe SET OPEN    *)

IncrFailureCount(c) ==
  /\ pc[c] = "incr"
  /\ failureCount' = failureCount + 1
  /\ trips' = [trips EXCEPT ![c] = failureCount + 1 >= Threshold]
  /\ pc' = [pc EXCEPT ![c] = "expire"]
  /\ Remember(c)
  /\ UNCHANGED <<state, countExpires, lastFailure, probeLock, attempt, probing>>

(* Mutant: only the call that trips the circuit gives the count its TTL.   *)
ExpireFailureCountOnTrip(c) ==
  /\ pc[c] = "expire"
  /\ countExpires' = (countExpires \/ (trips[c] /\ failureCount > 0))
  /\ Continue(c, "set_last_failure")
  /\ Remember(c)
  /\ UNCHANGED <<state, failureCount, lastFailure, probeLock>>

ExpireFailureCount(c) ==
  /\ pc[c] = "expire"
  /\ countExpires' = (failureCount > 0)
  /\ Continue(c, "set_last_failure")
  /\ Remember(c)
  /\ UNCHANGED <<state, failureCount, lastFailure, probeLock>>

(* Mutant: the circuit is opened before the failure has a time.            *)
SetLastFailureAfterOpen(c) ==
  /\ pc[c] = "set_last_failure"
  /\ IF trips[c] /\ state # "OPEN"
       THEN /\ state' = "OPEN"
            /\ Continue(c, "set_last_failure")
            /\ UNCHANGED lastFailure
       ELSE /\ lastFailure' = "recent"
            /\ RetryOrReturn(c)
            /\ UNCHANGED state
  /\ Remember(c)
  /\ UNCHANGED <<failureCount, countExpires, probeLock>>

SetLastFailure(c) ==
  /\ pc[c] = "set_last_failure"
  /\ lastFailure' = "recent"
  /\ IF trips[c] THEN Continue(c, "set_open") ELSE RetryOrReturn(c)
  /\ Remember(c)
  /\ UNCHANGED <<state, failureCount, countExpires, probeLock>>

SetOpen(c) ==
  /\ pc[c] = "set_open"
  /\ state' = "OPEN"
  /\ RetryOrReturn(c)
  /\ Remember(c)
  /\ UNCHANGED <<failureCount, countExpires, lastFailure, probeLock>>

-----------------------------------------------------------------------------
(* _record_half_open_failure: SET OPEN, SET last_failure, DEL probe_lock   *)

ProbeSetOpen(c) ==
  /\ pc[c] = "probe_set_open"
  /\ state' = "OPEN"
  /\ Continue(c, "probe_set_last_failure")
  /\ Remember(c)
  /\ UNCHANGED <<failureCount, countExpires, lastFailure, probeLock>>

ProbeSetLastFailure(c) ==
  /\ pc[c] = "probe_set_last_failure"
  /\ lastFailure' = "recent"
  /\ Continue(c, "probe_del_lock")
  /\ Remember(c)
  /\ UNCHANGED <<state, failureCount, countExpires, probeLock>>

ProbeDelLock(c) ==
  /\ pc[c] = "probe_del_lock"
  /\ probeLock' = FALSE
  /\ Return(c)
  /\ Remember(c)
  /\ UNCHANGED <<state, failureCount, countExpires, lastFailure>>

-----------------------------------------------------------------------------
(* The environment                                                         *)

(* The call is cancelled by the task's timeout, its worker dies, or Redis  *)
(* raises: whatever it has not written by now it never writes.  Between    *)
(* INCR and EXPIRE it may leave a count without a TTL behind.              *)
Abandon(c) ==
  /\ pc[c] # "idle"
  /\ aborts < MaxAborts
  /\ aborts' = aborts + 1
  /\ IF pc[c] = "expire" /\ ~countExpires
       THEN orphans' = orphans + 1 /\ downs' = downs - 1
       ELSE UNCHANGED outage
  /\ Return(c)
  /\ Track(c)
  /\ UNCHANGED redis

(* CIRCUIT_BREAKER_TIMEOUT_SECONDS (120) is longer than a task may take    *)
(* (60), so the calls of the time before the opening are over by then.     *)
OpenTimeoutPasses ==
  /\ lastFailure = "recent"
  /\ old = {}
  /\ lastFailure' = "elapsed"
  /\ UNCHANGED <<state, failureCount, countExpires, probeLock, local, history>>

WindowPasses ==
  /\ countExpires
  /\ failureCount' = 0
  /\ countExpires' = FALSE
  /\ Forget
  /\ UNCHANGED <<state, lastFailure, probeLock, local, overlapped, aborts>>

(* The window passes at rest over a count without a TTL, which stays: the  *)
(* next failure is one of a new outage.                                    *)
WindowPassesUnnoticed ==
  /\ failureCount > 0
  /\ ~countExpires
  /\ AtRest
  /\ downs' = 0
  /\ UNCHANGED <<redis, local, overlapped, orphans, aborts>>

(* Mutant: the lock has no TTL.                                            *)
ProbeLockStays ==
  /\ ~probeLock
  /\ UNCHANGED vars

(* CIRCUIT_BREAKER_PROBE_LOCK_SECONDS (10) is shorter than a request may   *)
(* take (30), so the lock can go while its probe is still under way.       *)
ProbeLockExpires ==
  /\ probeLock
  /\ probeLock' = FALSE
  /\ UNCHANGED <<state, failureCount, countExpires, lastFailure, local, history>>

-----------------------------------------------------------------------------
Answered(c) ==
  \/ RequestSucceeds(c)
  \/ ProbeFails(c)
  \/ RequestFindsServiceDown(c)
  \/ RequestTimesOut(c)
  \/ RequestIsRefused(c)

(* What a call does until it returns.                                      *)
Proceed(c) ==
  \/ GetLastFailure(c)
  \/ SetHalfOpen(c)
  \/ AcquireHalfOpenProbe(c)
  \/ Answered(c)
  \/ SetClosed(c)
  \/ DelFailureCount(c)
  \/ DelLastFailure(c)
  \/ DelProbeLock(c)
  \/ IncrFailureCount(c)
  \/ ExpireFailureCount(c)
  \/ SetLastFailure(c)
  \/ SetOpen(c)
  \/ ProbeSetOpen(c)
  \/ ProbeSetLastFailure(c)
  \/ ProbeDelLock(c)

Next ==
  \/ \E c \in Callers : GetState(c) \/ Proceed(c) \/ Abandon(c)
  \/ OpenTimeoutPasses
  \/ WindowPasses
  \/ WindowPassesUnnoticed
  \/ ProbeLockExpires

Spec == Init /\ [][Next]_vars

(* Applications keep coming, a call in progress goes on, and time passes.  *)
Fairness ==
  /\ \A c \in Callers : WF_vars(GetState(c)) /\ WF_vars(Proceed(c))
  /\ WF_vars(OpenTimeoutPasses)
  /\ WF_vars(ProbeLockExpires)

FairSpec == Spec /\ Fairness

-----------------------------------------------------------------------------
(* Properties                                                              *)

(* One outage opens the circuit, never the remains of several: once it is  *)
(* at rest after a reset or a quiet window, it takes Threshold new         *)
(* SERVICE_DOWN answers, and no timeout or missing record, until it is     *)
(* anything but closed again.  The one thing that counts on across a quiet *)
(* window is a failure whose call died between INCR and EXPIRE, and each   *)
(* such call leaves one at most.  (A probe that is still out when another  *)
(* call's success closes the circuit is not at rest: its timeout or its    *)
(* missing record reopens the circuit, on the strength of the old outage.) *)
OpensOnlyOnOutage == state # "CLOSED" => downs + orphans >= Threshold

(* An open circuit knows when it opened, so that it can half-open again.   *)
(* This survives calls abandoned between any two commands; what it does    *)
(* not survive is a success reset that runs while another call is still    *)
(* recording a failure or holding a probe.                                 *)
OpenIsDated == state = "OPEN" /\ lastFailure = "absent" => overlapped

(* A half-open circuit is always settled: a probe that dies with the lock  *)
(* does not keep the next one out for ever.                                *)
HalfOpenIsSettled == state = "HALF_OPEN" ~> state # "HALF_OPEN"

(* No stale state: an open circuit does not stay open for ever.            *)
OpenExpires == state = "OPEN" ~> state # "OPEN"
=============================================================================
