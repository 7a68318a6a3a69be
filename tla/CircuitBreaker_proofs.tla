------------------------ MODULE CircuitBreaker_proofs ------------------------
(***************************************************************************)
(* Theorems about CircuitBreaker, for any number of concurrent calls, any  *)
(* threshold and retry limit, and any number of outages and cancellations. *)
(***************************************************************************)
EXTENDS CircuitBreaker, FiniteSetTheorems, TLAPS

-----------------------------------------------------------------------------
(* The invariant                                                           *)

(* Nothing is counted twice: every failure in the count, and every call    *)
(* about to count one, stands for a SERVICE_DOWN answer of its own, given  *)
(* since the last rest or left behind by a call that died.  A call that is *)
(* recording one has been answered since the last rest, and a count        *)
(* without a TTL is made up of failures whose calls are about to give it   *)
(* one or have died.                                                       *)
At(step) == { c \in Callers : pc[c] = step }

Counting == Cardinality(At("incr"))

Timing == Cardinality(At("expire"))

Counted ==
  /\ failureCount + Counting <= downs + orphans
  /\ Counting + Timing <= downs
  /\ ~countExpires => failureCount <= orphans + Timing

(* Only the half-open gate makes a probe, and a probe that fails neither   *)
(* retries nor counts.                                                     *)
Prober(c) == probing[c] => pc[c] \in {"request"} \cup SuccessSteps \cup ProbeSteps

(* Whatever takes the circuit for not closed, or is about to make it so,   *)
(* rests on an outage.                                                     *)
Outage == downs + orphans >= Threshold

Convinced(c) ==
  \/ trips[c] /\ pc[c] \in {"expire", "set_last_failure"}
  \/ probing[c] /\ pc[c] = "request"
  \/ pc[c] \in {"get_last_failure", "set_half_open", "acquire", "set_open"} \cup ProbeSteps

(* A call that may yet write a state other than CLOSED found, or wrote, a  *)
(* time of the last failure: if it has gone since, a reset overlapped.     *)
Reopening(c) ==
  \/ pc[c] \in {"set_half_open", "acquire", "set_open", "probe_set_open"}
  \/ pc[c] = "request" /\ probing[c]

Dated(c) == Reopening(c) /\ lastFailure = "absent" => overlapped

CallOK(c) == Prober(c) /\ (Convinced(c) => Outage) /\ Dated(c)

(* A reset that has closed the circuit still finds it closed when it       *)
(* deletes the time of the last failure, unless somebody overlapped.       *)
Closing == \E c \in Callers : pc[c] \in {"del_count", "del_last_failure"}

CircuitOK ==
  state # "CLOSED" =>
    /\ Outage
    /\ Closing => overlapped
    /\ lastFailure = "absent" => overlapped

BreakerInv ==
  /\ Counted
  /\ CircuitOK
  /\ \A c \in Callers : CallOK(c)

-----------------------------------------------------------------------------
(* One call's step                                                         *)

Call(c) == GetState(c) \/ Proceed(c) \/ Abandon(c)

(* What a step of one call may do to what the others and the circuit's     *)
(* invariant look at.                                                      *)
Alone(c) ==
  \A d \in Callers \ {c} :
    pc'[d] = pc[d] /\ trips'[d] = trips[d] /\ probing'[d] = probing[d]

(* What a step of a call does to the count and to what stands behind it:   *)
(* nothing, unless it is one of the five that count.                       *)
CountUnmoved == UNCHANGED <<failureCount, countExpires, downs, orphans>>

CountsNothing(c) ==
  /\ CountUnmoved
  /\ pc'[c] \notin {"incr", "expire"}
  /\ pc[c] = "expire" => countExpires

HearsServiceDown(c) ==
  /\ pc[c] = "request" /\ pc'[c] = "incr"
  /\ downs < MaxDowns /\ downs' = downs + 1
  /\ UNCHANGED <<failureCount, countExpires, orphans>>

CountsOne(c) ==
  /\ pc[c] = "incr" /\ pc'[c] = "expire"
  /\ failureCount' = failureCount + 1
  /\ UNCHANGED <<countExpires, downs, orphans>>

TimesCount(c) ==
  /\ pc[c] = "expire" /\ pc'[c] = "set_last_failure"
  /\ countExpires' = (failureCount > 0)
  /\ UNCHANGED <<failureCount, downs, orphans>>

DeletesCount(c) ==
  /\ pc[c] = "del_count" /\ pc'[c] = "del_last_failure"
  /\ failureCount' = 0 /\ state' = state
  /\ Forget

OrphansOne(c) ==
  /\ pc[c] = "expire" /\ pc'[c] = "idle"
  /\ orphans' = orphans + 1 /\ downs' = downs - 1
  /\ aborts' = aborts + 1
  /\ UNCHANGED <<failureCount, countExpires>>

Counts(c) ==
  /\ \/ CountsNothing(c)
     \/ HearsServiceDown(c)
     \/ CountsOne(c)
     \/ TimesCount(c)
     \/ DeletesCount(c)
     \/ OrphansOne(c)
  /\ aborts' \in aborts..MaxAborts

Writes(c) ==
  /\ \/ state' = state
     \/ pc[c] = "set_closed" /\ state' = "CLOSED"
     \/ /\ pc[c] \in {"set_half_open", "set_open", "probe_set_open"}
        /\ lastFailure' = lastFailure
  /\ \/ lastFailure' = lastFailure
     \/ lastFailure' # "absent"
     \/ pc[c] = "del_last_failure"
  /\ pc'[c] = "del_count" => state' = "CLOSED"
  /\ pc'[c] = "del_last_failure" => pc[c] = "del_count"
  /\ overlapped' = (overlapped \/ Overlap)

LocalTyped ==
  /\ pc' \in [Callers -> Steps]
  /\ attempt' \in [Callers -> 0..MaxRetries]
  /\ probing' \in [Callers -> BOOLEAN]
  /\ trips' \in [Callers -> BOOLEAN]

RedisTyped ==
  /\ state' \in {"CLOSED", "OPEN", "HALF_OPEN"}
  /\ countExpires' \in BOOLEAN
  /\ lastFailure' \in {"absent", "recent", "elapsed"}
  /\ probeLock' \in BOOLEAN

(* A call that goes on, returns or retries changes its own locals only.    *)
LEMMA ContinueTyped ==
  ASSUME TypeOK, NEW c \in Callers, NEW next \in Steps, Continue(c, next)
  PROVE  LocalTyped /\ Alone(c)
BY DEF TypeOK, Continue, LocalTyped, Alone

(* A call that returns forgets its own locals, and a retry counts one      *)
(* more.                                                                   *)
LEMMA ReturnTyped ==
  ASSUME TypeOK, NEW c \in Callers, Return(c)
  PROVE  LocalTyped /\ Alone(c)
<1>1. "idle" \in Steps /\ 0 \in 0..MaxRetries
  BY BreakerAssumption DEF Steps
<1>2. LocalTyped
  BY <1>1 DEF TypeOK, Return, LocalTyped
<1>3. Alone(c)
  BY DEF TypeOK, Return, Alone
<1> QED BY <1>2, <1>3

(* A retry is one more attempt, within the limit.                          *)
LEMMA RetryTyped ==
  ASSUME TypeOK, NEW c \in Callers, RetryOrReturn(c)
  PROVE  LocalTyped /\ Alone(c)
<1>1. CASE attempt[c] < MaxRetries
  <2>1. "request" \in Steps /\ attempt[c] + 1 \in 0..MaxRetries
    BY <1>1, BreakerAssumption DEF Steps, TypeOK
  <2> QED BY <1>1, <2>1 DEF TypeOK, RetryOrReturn, LocalTyped, Alone
<1>2. CASE ~(attempt[c] < MaxRetries)
  BY <1>2, ReturnTyped DEF RetryOrReturn
<1> QED BY <1>1, <1>2

(* Every step of a call keeps the types of the circuit and of the calls.   *)
LEMMA CallRedisTyped ==
  ASSUME TypeOK, NEW c \in Callers, Call(c)
  PROVE  RedisTyped
<1>. USE BreakerAssumption DEF RedisTyped, TypeOK, Remember, Track, redis
<1>1. CASE GetState(c)
  BY <1>1 DEF GetState
<1>2. CASE GetLastFailure(c)
  BY <1>2 DEF GetLastFailure
<1>3. CASE SetHalfOpen(c)
  BY <1>3 DEF SetHalfOpen
<1>4. CASE AcquireHalfOpenProbe(c)
  BY <1>4 DEF AcquireHalfOpenProbe
<1>5. CASE RequestSucceeds(c)
  BY <1>5 DEF RequestSucceeds
<1>6. CASE ProbeFails(c)
  BY <1>6 DEF ProbeFails
<1>7. CASE RequestFindsServiceDown(c)
  BY <1>7 DEF RequestFindsServiceDown
<1>8. CASE RequestTimesOut(c)
  BY <1>8 DEF RequestTimesOut
<1>9. CASE RequestIsRefused(c)
  BY <1>9 DEF RequestIsRefused
<1>10. CASE SetClosed(c)
  BY <1>10 DEF SetClosed
<1>11. CASE DelFailureCount(c)
  BY <1>11 DEF DelFailureCount
<1>12. CASE DelLastFailure(c)
  BY <1>12 DEF DelLastFailure
<1>13. CASE DelProbeLock(c)
  BY <1>13 DEF DelProbeLock
<1>14. CASE IncrFailureCount(c)
  BY <1>14 DEF IncrFailureCount
<1>15. CASE ExpireFailureCount(c)
  BY <1>15 DEF ExpireFailureCount
<1>16. CASE SetLastFailure(c)
  BY <1>16 DEF SetLastFailure
<1>17. CASE SetOpen(c)
  BY <1>17 DEF SetOpen
<1>18. CASE ProbeSetOpen(c)
  BY <1>18 DEF ProbeSetOpen
<1>19. CASE ProbeSetLastFailure(c)
  BY <1>19 DEF ProbeSetLastFailure
<1>20. CASE ProbeDelLock(c)
  BY <1>20 DEF ProbeDelLock
<1>21. CASE Abandon(c)
  BY <1>21 DEF Abandon
<1> QED
  BY <1>1, <1>2, <1>3, <1>4, <1>5, <1>6, <1>7, <1>8, <1>9, <1>10, <1>11,
     <1>12, <1>13, <1>14, <1>15, <1>16, <1>17, <1>18, <1>19, <1>20, <1>21 DEF
     Call, Proceed, Answered

(* Every step of a call keeps the types of the locals, and changes no      *)
(* other call.                                                             *)
LEMMA CallLocalTyped ==
  ASSUME TypeOK, NEW c \in Callers, Call(c)
  PROVE  LocalTyped /\ Alone(c)
<1>1. ASSUME NEW next \in Steps, Continue(c, next) PROVE LocalTyped /\ Alone(c)
  BY <1>1, ContinueTyped
<1>2. Return(c) \/ RetryOrReturn(c) => LocalTyped /\ Alone(c)
  BY ReturnTyped, RetryTyped
<1>3. CASE GetState(c)
  <2>1. PICK next \in Steps : pc' = [pc EXCEPT ![c] = next]
    BY <1>3 DEF GetState, TypeOK, Steps
  <2> QED BY <1>3, <2>1 DEF GetState, TypeOK, LocalTyped, Alone
<1>4. CASE AcquireHalfOpenProbe(c)
  BY <1>2, <1>4 DEF AcquireHalfOpenProbe, TypeOK, LocalTyped, Alone, Steps
<1>5. CASE IncrFailureCount(c)
  BY <1>5 DEF IncrFailureCount, TypeOK, LocalTyped, Alone, Steps, FailureSteps
<1>6. SetLastFailure(c) => LocalTyped /\ Alone(c)
  BY <1>1, <1>2 DEF SetLastFailure, Steps, FailureSteps
<1>7. GetLastFailure(c) => LocalTyped /\ Alone(c)
  BY <1>1, <1>2 DEF GetLastFailure, Steps
<1>8. Answered(c) => LocalTyped /\ Alone(c)
  BY <1>1, <1>2 DEF Answered, RequestSucceeds, ProbeFails, RequestFindsServiceDown,
       RequestTimesOut, RequestIsRefused, Steps, SuccessSteps, FailureSteps, ProbeSteps
<1>9. SetHalfOpen(c) \/ SetClosed(c) \/ DelFailureCount(c) \/ DelLastFailure(c)
        => LocalTyped /\ Alone(c)
  BY <1>1 DEF SetHalfOpen, SetClosed, DelFailureCount, DelLastFailure, Steps, SuccessSteps
<1>10. ExpireFailureCount(c) \/ ProbeSetOpen(c) \/ ProbeSetLastFailure(c)
        => LocalTyped /\ Alone(c)
  BY <1>1 DEF ExpireFailureCount, ProbeSetOpen, ProbeSetLastFailure, Steps, FailureSteps,
       ProbeSteps
<1>11. DelProbeLock(c) \/ SetOpen(c) \/ ProbeDelLock(c) \/ Abandon(c)
        => LocalTyped /\ Alone(c)
  BY <1>2 DEF DelProbeLock, SetOpen, ProbeDelLock, Abandon
<1> QED
  BY <1>3, <1>4, <1>5, <1>6, <1>7, <1>8, <1>9, <1>10, <1>11 DEF Call, Proceed

(* Every step of a call is remembered.                                     *)
LEMMA CallTracked ==
  ASSUME NEW c \in Callers, Call(c)
  PROVE  Track(c)
<1> QED
  BY DEF Call, Proceed, Answered, Remember, GetState, GetLastFailure,
     SetHalfOpen, AcquireHalfOpenProbe, RequestSucceeds, ProbeFails,
     RequestFindsServiceDown, RequestTimesOut, RequestIsRefused, SetClosed,
     DelFailureCount, DelLastFailure, DelProbeLock, IncrFailureCount,
     ExpireFailureCount, SetLastFailure, SetOpen, ProbeSetOpen,
     ProbeSetLastFailure, ProbeDelLock, Abandon

(* What a call counts.                                                     *)
LEMMA CallCounts ==
  ASSUME TypeOK, NEW c \in Callers, Call(c)
  PROVE  Counts(c)
<1>. USE BreakerAssumption
     DEF Counts, CountsNothing, CountUnmoved, TypeOK, Continue, Return, RetryOrReturn,
         Remember, Track, redis, outage
<1>1. CASE GetState(c)
  BY <1>1 DEF GetState
<1>2. CASE GetLastFailure(c)
  BY <1>2 DEF GetLastFailure
<1>3. CASE SetHalfOpen(c)
  BY <1>3 DEF SetHalfOpen
<1>4. CASE AcquireHalfOpenProbe(c)
  BY <1>4 DEF AcquireHalfOpenProbe
<1>5. CASE RequestSucceeds(c)
  BY <1>5 DEF RequestSucceeds
<1>6. CASE ProbeFails(c)
  BY <1>6 DEF ProbeFails
<1>7. CASE RequestFindsServiceDown(c)
  BY <1>7 DEF RequestFindsServiceDown, HearsServiceDown
<1>8. CASE RequestTimesOut(c)
  BY <1>8 DEF RequestTimesOut
<1>9. CASE RequestIsRefused(c)
  BY <1>9 DEF RequestIsRefused
<1>10. CASE SetClosed(c)
  BY <1>10 DEF SetClosed
<1>11. CASE DelFailureCount(c)
  BY <1>11 DEF DelFailureCount, DeletesCount
<1>12. CASE DelLastFailure(c)
  BY <1>12 DEF DelLastFailure
<1>13. CASE DelProbeLock(c)
  BY <1>13 DEF DelProbeLock
<1>14. CASE IncrFailureCount(c)
  BY <1>14 DEF IncrFailureCount, CountsOne
<1>15. CASE ExpireFailureCount(c)
  BY <1>15 DEF ExpireFailureCount, TimesCount
<1>16. CASE SetLastFailure(c)
  BY <1>16 DEF SetLastFailure
<1>17. CASE SetOpen(c)
  BY <1>17 DEF SetOpen
<1>18. CASE ProbeSetOpen(c)
  BY <1>18 DEF ProbeSetOpen
<1>19. CASE ProbeSetLastFailure(c)
  BY <1>19 DEF ProbeSetLastFailure
<1>20. CASE ProbeDelLock(c)
  BY <1>20 DEF ProbeDelLock
<1>21. CASE Abandon(c)
  BY <1>21 DEF Abandon, OrphansOne
<1> QED
  BY <1>1, <1>2, <1>3, <1>4, <1>5, <1>6, <1>7, <1>8, <1>9, <1>10, <1>11,
     <1>12, <1>13, <1>14, <1>15, <1>16, <1>17, <1>18, <1>19, <1>20, <1>21 DEF
     Call, Proceed, Answered

(* What a call writes to the circuit.                                      *)
LEMMA CallWrites ==
  ASSUME TypeOK, NEW c \in Callers, Call(c)
  PROVE  Writes(c)
<1>. USE DEF Writes, TypeOK, Continue, Return, RetryOrReturn, Remember, Track, redis
<1>1. CASE GetState(c)
  BY <1>1 DEF GetState
<1>2. CASE GetLastFailure(c)
  BY <1>2 DEF GetLastFailure
<1>3. CASE SetHalfOpen(c)
  BY <1>3 DEF SetHalfOpen
<1>4. CASE AcquireHalfOpenProbe(c)
  BY <1>4 DEF AcquireHalfOpenProbe
<1>5. CASE RequestSucceeds(c)
  BY <1>5 DEF RequestSucceeds
<1>6. CASE ProbeFails(c)
  BY <1>6 DEF ProbeFails
<1>7. CASE RequestFindsServiceDown(c)
  BY <1>7 DEF RequestFindsServiceDown
<1>8. CASE RequestTimesOut(c)
  BY <1>8 DEF RequestTimesOut
<1>9. CASE RequestIsRefused(c)
  BY <1>9 DEF RequestIsRefused
<1>10. CASE SetClosed(c)
  BY <1>10 DEF SetClosed
<1>11. CASE DelFailureCount(c)
  BY <1>11 DEF DelFailureCount
<1>12. CASE DelLastFailure(c)
  BY <1>12 DEF DelLastFailure
<1>13. CASE DelProbeLock(c)
  BY <1>13 DEF DelProbeLock
<1>14. CASE IncrFailureCount(c)
  BY <1>14 DEF IncrFailureCount
<1>15. CASE ExpireFailureCount(c)
  BY <1>15 DEF ExpireFailureCount
<1>16. CASE SetLastFailure(c)
  BY <1>16 DEF SetLastFailure
<1>17. CASE SetOpen(c)
  BY <1>17 DEF SetOpen
<1>18. CASE ProbeSetOpen(c)
  BY <1>18 DEF ProbeSetOpen
<1>19. CASE ProbeSetLastFailure(c)
  BY <1>19 DEF ProbeSetLastFailure
<1>20. CASE ProbeDelLock(c)
  BY <1>20 DEF ProbeDelLock
<1>21. CASE Abandon(c)
  BY <1>21 DEF Abandon
<1> QED
  BY <1>1, <1>2, <1>3, <1>4, <1>5, <1>6, <1>7, <1>8, <1>9, <1>10, <1>11,
     <1>12, <1>13, <1>14, <1>15, <1>16, <1>17, <1>18, <1>19, <1>20, <1>21 DEF
     Call, Proceed, Answered

-----------------------------------------------------------------------------
(* The invariant is kept                                                   *)

(* How the number of calls at one command moves when one call moves.       *)
LEMMA AtMoves ==
  ASSUME TypeOK, NEW c \in Callers, Alone(c), NEW l
  PROVE  /\ Cardinality(At(l)) \in Nat
         /\ pc[c] = l => Cardinality(At(l)) > 0
         /\ pc'[c] # l /\ pc[c] = l =>
              Cardinality(At(l)') = Cardinality(At(l)) - 1
         /\ pc'[c] = l /\ pc[c] # l =>
              Cardinality(At(l)') = Cardinality(At(l)) + 1
         /\ (pc'[c] = l <=> pc[c] = l) => At(l)' = At(l)
<1>1. IsFiniteSet(At(l))
  BY BreakerAssumption, FS_Subset DEF At
<1>2. Cardinality(At(l)) \in Nat
  BY <1>1, FS_CardinalityType
<1>3. ASSUME pc[c] = l PROVE Cardinality(At(l)) > 0
  <2>1. At(l) # {}
    BY <1>3 DEF At
  <2> QED BY <1>1, <1>2, <2>1, FS_EmptySet
<1>4. ASSUME pc'[c] # l, pc[c] = l
      PROVE  Cardinality(At(l)') = Cardinality(At(l)) - 1
  <2>1. At(l)' = At(l) \ {c} /\ c \in At(l)
    BY <1>4 DEF At, Alone
  <2> QED BY <1>1, <2>1, FS_RemoveElement
<1>5. ASSUME pc'[c] = l, pc[c] # l
      PROVE  Cardinality(At(l)') = Cardinality(At(l)) + 1
  <2>1. At(l)' = At(l) \cup {c} /\ c \notin At(l)
    BY <1>5 DEF At, Alone
  <2> QED BY <1>1, <2>1, FS_AddElement
<1>6. ASSUME pc'[c] = l <=> pc[c] = l PROVE At(l)' = At(l)
  BY <1>6 DEF At, Alone
<1> QED BY <1>2, <1>3, <1>4, <1>5, <1>6

(* The numbers of calls about to count and to time the count.              *)
LEMMA AtNumbers ==
  ASSUME TypeOK
  PROVE  Counting \in Nat /\ Timing \in Nat
BY BreakerAssumption, FS_Subset, FS_CardinalityType DEF Counting, Timing, At

(* At rest nobody counts, and nobody takes the circuit for not closed.     *)
LEMMA RestIsQuiet ==
  ASSUME TypeOK, AtRest
  PROVE  Counting = 0 /\ Timing = 0 /\ \A c \in Callers : ~Convinced(c)
<1>1. \A c \in Callers : pc[c] \notin {"incr", "expire"} /\ ~Convinced(c)
  BY DEF AtRest, Judging, Convinced, FailureSteps, ProbeSteps
<1>2. At("incr") = {} /\ At("expire") = {}
  BY <1>1 DEF At
<1> QED BY <1>1, <1>2, FS_EmptySet DEF Counting, Timing

(* Every failure counted stands for an outage of its own.                  *)
LEMMA CallCounted ==
  ASSUME TypeOK, Counted, NEW c \in Callers, Call(c)
  PROVE  Counted'
<1>1. Alone(c) /\ Counts(c)
  BY CallLocalTyped, CallCounts
<1>2. Counting \in Nat /\ Timing \in Nat
  BY AtNumbers
<1>3. /\ pc[c] = "incr" => Counting > 0
      /\ pc'[c] # "incr" /\ pc[c] = "incr" => Counting' = Counting - 1
      /\ pc'[c] = "incr" /\ pc[c] # "incr" => Counting' = Counting + 1
      /\ (pc'[c] = "incr" <=> pc[c] = "incr") => Counting' = Counting
  BY <1>1, AtMoves DEF Counting
<1>4. /\ pc[c] = "expire" => Timing > 0
      /\ pc'[c] # "expire" /\ pc[c] = "expire" => Timing' = Timing - 1
      /\ pc'[c] = "expire" /\ pc[c] # "expire" => Timing' = Timing + 1
      /\ (pc'[c] = "expire" <=> pc[c] = "expire") => Timing' = Timing
  BY <1>1, AtMoves DEF Timing
<1>5. failureCount \in Nat /\ downs \in Nat /\ orphans \in Nat /\ countExpires \in BOOLEAN
  BY BreakerAssumption DEF TypeOK
<1>. USE <1>2, <1>3, <1>4, <1>5 DEF Counted
<1>6. CASE CountsNothing(c)
  BY <1>6 DEF CountsNothing, CountUnmoved
<1>7. CASE HearsServiceDown(c)
  BY <1>7 DEF HearsServiceDown
<1>8. CASE CountsOne(c)
  BY <1>8 DEF CountsOne
<1>9. CASE TimesCount(c)
  <2>1. ~countExpires' => failureCount = 0
    <3>1. ~countExpires' => ~(failureCount > 0)
      BY <1>9, Zenon DEF TimesCount
    <3> QED BY <3>1
  <2>2. Timing' = Timing - 1 /\ Counting' = Counting
    BY <1>9 DEF TimesCount
  <2> QED BY <1>9, <2>1, <2>2 DEF TimesCount
<1>10. CASE DeletesCount(c)
  <2>1. CASE AtRest
    BY <1>10, <2>1, RestIsQuiet DEF DeletesCount, Forget
  <2>2. CASE ~AtRest
    BY <1>10, <2>2 DEF DeletesCount, Forget
  <2> QED BY <2>1, <2>2
<1>11. CASE OrphansOne(c)
  BY <1>11 DEF OrphansOne
<1> QED BY <1>1, <1>6, <1>7, <1>8, <1>9, <1>10, <1>11 DEF Counts

(* What two numbers keep from falling below nothing.                       *)
LEMMA Between ==
  ASSUME NEW m \in Nat, NEW a \in Nat, NEW b \in Nat
  PROVE  /\ \A d \in Int : a + b <= d /\ d <= m => d \in 0..m
         /\ \A n \in Nat : \A d \in 0..m, o \in 0..n :
              a + b <= d + o => a \in 0..(m + n)
OBVIOUS

(* A call keeps the types: the count is bounded by what it stands for.     *)
LEMMA CallTypes ==
  ASSUME TypeOK, Counted, NEW c \in Callers, Call(c)
  PROVE  TypeOK'
<1>1. Track(c) /\ LocalTyped /\ RedisTyped /\ Counts(c) /\ Alone(c)
  BY CallTracked, CallLocalTyped, CallRedisTyped, CallCounts
<1>2. Counted'
  BY CallCounted
<1>3. Counting' \in Nat /\ Timing' \in Nat
  <2>1. IsFiniteSet(At("incr")') /\ IsFiniteSet(At("expire")')
    BY BreakerAssumption, FS_Subset DEF At
  <2> QED BY <2>1, FS_CardinalityType DEF Counting, Timing
<1>4. /\ failureCount' \in Nat
      /\ aborts' \in 0..MaxAborts
      /\ orphans' \in 0..aborts'
      /\ downs' \in Int /\ downs' <= MaxDowns
  BY <1>1, BreakerAssumption DEF Counts, CountsNothing, CountUnmoved, HearsServiceDown,
     CountsOne, TimesCount, DeletesCount, OrphansOne, Forget, TypeOK
<1>a. failureCount' + Counting' <= downs' + orphans' /\ Counting' + Timing' <= downs'
  BY <1>2 DEF Counted
<1>5. downs' \in 0..MaxDowns
  BY <1>3, <1>4, <1>a, BreakerAssumption, Between
<1>6. failureCount' \in 0..(MaxDowns + MaxAborts)
  <2>1. orphans' \in 0..MaxAborts
    <3>1. \A m \in Nat : \A n \in 0..m : \A o \in 0..n : o \in 0..m
      OBVIOUS
    <3> QED BY <1>4, <3>1, BreakerAssumption
  <2> QED BY <1>3, <1>4, <1>5, <1>a, <2>1, BreakerAssumption, Between
<1>7. old' \subseteq { d \in Callers : pc'[d] # "idle" }
  BY <1>1 DEF Track, InFlight, TypeOK
<1>8. overlapped' \in BOOLEAN
  <2>1. Overlap \in BOOLEAN
    BY DEF Overlap
  <2> QED BY <1>1, <2>1 DEF Track
<1> QED BY <1>1, <1>4, <1>5, <1>6, <1>7, <1>8 DEF LocalTyped, RedisTyped, TypeOK

(* An outage is only forgotten by a call that deletes the count at rest.   *)
Forgets(c) == AtRest /\ state' = state /\ pc'[c] = "del_last_failure"

LEMMA OutageKept ==
  ASSUME TypeOK, NEW c \in Callers, Call(c), Outage
  PROVE  Outage' \/ Forgets(c)
<1>1. Counts(c)
  BY CallCounts
<1>2. downs \in Nat /\ orphans \in Nat /\ Threshold \in Nat
  BY BreakerAssumption DEF TypeOK
<1> QED
  BY <1>1, <1>2 DEF Counts, CountsNothing, CountUnmoved, HearsServiceDown, CountsOne,
     TimesCount, DeletesCount, OrphansOne, Forget, Outage, Forgets

(* A reset that meets a call with an opinion on the circuit is remembered. *)
LEMMA Overlaps ==
  ASSUME NEW c \in Callers, NEW d \in Callers, Resetting(c), Judging(d)
  PROVE  Overlap
BY DEF Overlap

(* A call's step leaves the others as right as they were.                  *)
LEMMA OthersOK ==
  ASSUME TypeOK, NEW c \in Callers, Call(c),
         NEW d \in Callers \ {c}, CallOK(d)
  PROVE  CallOK(d)'
<1>1. Alone(c) /\ Counts(c) /\ Writes(c)
  BY CallLocalTyped, CallCounts, CallWrites
<1>2. pc'[d] = pc[d] /\ trips'[d] = trips[d] /\ probing'[d] = probing[d]
  BY <1>1 DEF Alone
<1>3. Convinced(d) => Outage'
  BY OutageKept, RestIsQuiet DEF CallOK, Forgets
<1>4. overlapped => overlapped'
  BY <1>1 DEF Writes
<1>5. Prober(d)' /\ (Convinced(d) => Outage)'
  BY <1>2, <1>3 DEF CallOK, Prober, Convinced
<1>6. Dated(d)'
  <2>1. CASE pc[c] = "del_last_failure" /\ Reopening(d)
    <3>1. Overlap
      BY <2>1, Overlaps DEF Resetting, Judging, Reopening, SuccessSteps, FailureSteps, ProbeSteps
    <3> QED BY <1>1, <3>1 DEF Writes, Dated
  <2>2. CASE pc[c] # "del_last_failure"
    BY <1>1, <1>2, <1>4, <2>2 DEF Writes, Dated, Reopening, CallOK
  <2>3. CASE ~Reopening(d)
    BY <1>2, <2>3 DEF Reopening, Dated
  <2> QED BY <2>1, <2>2, <2>3
<1> QED BY <1>5, <1>6 DEF CallOK

(* A probe is one until it has returned.                                   *)
LEMMA OwnProber ==
  ASSUME TypeOK, NEW c \in Callers, Call(c), Prober(c)
  PROVE  Prober(c)'
<1>. USE DEF Prober, TypeOK, Continue, Return, RetryOrReturn, SuccessSteps, FailureSteps, ProbeSteps
<1>1. CASE GetState(c)
  BY <1>1 DEF GetState
<1>2. CASE GetLastFailure(c)
  BY <1>2 DEF GetLastFailure
<1>3. CASE SetHalfOpen(c)
  BY <1>3 DEF SetHalfOpen
<1>4. CASE AcquireHalfOpenProbe(c)
  BY <1>4 DEF AcquireHalfOpenProbe
<1>5. CASE RequestSucceeds(c)
  BY <1>5 DEF RequestSucceeds
<1>6. CASE ProbeFails(c)
  BY <1>6 DEF ProbeFails
<1>7. CASE RequestFindsServiceDown(c)
  BY <1>7 DEF RequestFindsServiceDown
<1>8. CASE RequestTimesOut(c)
  BY <1>8 DEF RequestTimesOut
<1>9. CASE RequestIsRefused(c)
  BY <1>9 DEF RequestIsRefused
<1>10. CASE SetClosed(c)
  BY <1>10 DEF SetClosed
<1>11. CASE DelFailureCount(c)
  BY <1>11 DEF DelFailureCount
<1>12. CASE DelLastFailure(c)
  BY <1>12 DEF DelLastFailure
<1>13. CASE DelProbeLock(c)
  BY <1>13 DEF DelProbeLock
<1>14. CASE IncrFailureCount(c)
  BY <1>14 DEF IncrFailureCount
<1>15. CASE ExpireFailureCount(c)
  BY <1>15 DEF ExpireFailureCount
<1>16. CASE SetLastFailure(c)
  BY <1>16 DEF SetLastFailure
<1>17. CASE SetOpen(c)
  BY <1>17 DEF SetOpen
<1>18. CASE ProbeSetOpen(c)
  BY <1>18 DEF ProbeSetOpen
<1>19. CASE ProbeSetLastFailure(c)
  BY <1>19 DEF ProbeSetLastFailure
<1>20. CASE ProbeDelLock(c)
  BY <1>20 DEF ProbeDelLock
<1>21. CASE Abandon(c)
  BY <1>21 DEF Abandon
<1> QED
  BY <1>1, <1>2, <1>3, <1>4, <1>5, <1>6, <1>7, <1>8, <1>9, <1>10, <1>11,
     <1>12, <1>13, <1>14, <1>15, <1>16, <1>17, <1>18, <1>19, <1>20, <1>21 DEF
     Call, Proceed, Answered

(* Whatever takes the circuit for not closed rests on an outage.           *)
LEMMA OwnConvinced ==
  ASSUME TypeOK, Counted, CircuitOK, NEW c \in Callers, Call(c), CallOK(c)
  PROVE  (Convinced(c) => Outage)'
<1>a. Outage => Outage' \/ pc'[c] = "del_last_failure"
  BY OutageKept DEF Forgets
<1>b. (Convinced(c) => Outage) /\ (state # "CLOSED" => Outage) /\ Prober(c)
  BY DEF CallOK, CircuitOK
<1>c. Alone(c)
  BY CallLocalTyped
<1>d. pc[c] = "incr" => downs + orphans >= failureCount + 1
  <2>1. Counting \in Nat /\ (pc[c] = "incr" => Counting > 0)
    BY <1>c, AtMoves, AtNumbers DEF Counting
  <2> QED BY <2>1, BreakerAssumption DEF Counted, TypeOK
<1>. USE <1>a, <1>b DEF Convinced, TypeOK, Continue, Return, RetryOrReturn, SuccessSteps, ProbeSteps
<1>1. CASE GetState(c)
  <2>1. pc'[c] \in {"request", "acquire", "get_last_failure"}
    BY <1>1 DEF GetState
  <2>2. pc'[c] # "request" => state # "CLOSED"
    BY <1>1 DEF GetState
  <2>3. ~probing'[c]
    BY <1>1 DEF GetState, Prober
  <2> QED BY <2>1, <2>2, <2>3
<1>2. CASE GetLastFailure(c)
  BY <1>2 DEF GetLastFailure
<1>3. CASE SetHalfOpen(c)
  BY <1>3 DEF SetHalfOpen
<1>4. CASE AcquireHalfOpenProbe(c)
  BY <1>4 DEF AcquireHalfOpenProbe
<1>5. CASE RequestSucceeds(c)
  BY <1>5 DEF RequestSucceeds
<1>6. CASE ProbeFails(c)
  BY <1>6 DEF ProbeFails
<1>7. CASE RequestFindsServiceDown(c)
  BY <1>7 DEF RequestFindsServiceDown
<1>8. CASE RequestTimesOut(c)
  BY <1>8 DEF RequestTimesOut
<1>9. CASE RequestIsRefused(c)
  BY <1>9 DEF RequestIsRefused
<1>10. CASE SetClosed(c)
  BY <1>10 DEF SetClosed
<1>11. CASE DelFailureCount(c)
  BY <1>11 DEF DelFailureCount
<1>12. CASE DelLastFailure(c)
  BY <1>12 DEF DelLastFailure
<1>13. CASE DelProbeLock(c)
  BY <1>13 DEF DelProbeLock
<1>14. CASE IncrFailureCount(c)
  <2>1. pc'[c] = "expire" /\ trips'[c] = (failureCount + 1 >= Threshold)
    BY <1>14 DEF IncrFailureCount
  <2>2. ASSUME failureCount + 1 >= Threshold PROVE Outage
    BY <1>14, <1>d, <2>2, BreakerAssumption DEF IncrFailureCount, Outage
  <2> QED BY <2>1, <2>2
<1>15. CASE ExpireFailureCount(c)
  BY <1>15 DEF ExpireFailureCount
<1>16. CASE SetLastFailure(c)
  BY <1>16 DEF SetLastFailure, Prober
<1>17. CASE SetOpen(c)
  BY <1>17 DEF SetOpen
<1>18. CASE ProbeSetOpen(c)
  BY <1>18 DEF ProbeSetOpen
<1>19. CASE ProbeSetLastFailure(c)
  BY <1>19 DEF ProbeSetLastFailure
<1>20. CASE ProbeDelLock(c)
  BY <1>20 DEF ProbeDelLock
<1>21. CASE Abandon(c)
  BY <1>21 DEF Abandon
<1> QED
  BY <1>1, <1>2, <1>3, <1>4, <1>5, <1>6, <1>7, <1>8, <1>9, <1>10, <1>11,
     <1>12, <1>13, <1>14, <1>15, <1>16, <1>17, <1>18, <1>19, <1>20, <1>21 DEF
     Call, Proceed, Answered

(* A call that may yet reopen the circuit has seen, or written, the time   *)
(* of a failure.                                                           *)
LEMMA OwnDated ==
  ASSUME TypeOK, CircuitOK, NEW c \in Callers, Call(c), Prober(c), Dated(c)
  PROVE  Dated(c)'
<1>a. overlapped => overlapped'
  BY CallWrites DEF Writes
<1>b. state # "CLOSED" /\ lastFailure = "absent" => overlapped
  BY DEF CircuitOK
<1>. USE <1>a, <1>b DEF Dated, Reopening, Prober, TypeOK, Continue, Return, RetryOrReturn,
       redis, SuccessSteps, ProbeSteps
<1>1. CASE GetState(c)
  BY <1>1 DEF GetState
<1>2. CASE GetLastFailure(c)
  BY <1>2 DEF GetLastFailure
<1>3. CASE SetHalfOpen(c)
  BY <1>3 DEF SetHalfOpen
<1>4. CASE AcquireHalfOpenProbe(c)
  BY <1>4 DEF AcquireHalfOpenProbe
<1>5. CASE RequestSucceeds(c)
  BY <1>5 DEF RequestSucceeds
<1>6. CASE ProbeFails(c)
  BY <1>6 DEF ProbeFails
<1>7. CASE RequestFindsServiceDown(c)
  BY <1>7 DEF RequestFindsServiceDown
<1>8. CASE RequestTimesOut(c)
  BY <1>8 DEF RequestTimesOut
<1>9. CASE RequestIsRefused(c)
  BY <1>9 DEF RequestIsRefused
<1>10. CASE SetClosed(c)
  BY <1>10 DEF SetClosed
<1>11. CASE DelFailureCount(c)
  BY <1>11 DEF DelFailureCount
<1>12. CASE DelLastFailure(c)
  BY <1>12 DEF DelLastFailure
<1>13. CASE DelProbeLock(c)
  BY <1>13 DEF DelProbeLock
<1>14. CASE IncrFailureCount(c)
  BY <1>14 DEF IncrFailureCount
<1>15. CASE ExpireFailureCount(c)
  BY <1>15 DEF ExpireFailureCount
<1>16. CASE SetLastFailure(c)
  BY <1>16 DEF SetLastFailure
<1>17. CASE SetOpen(c)
  BY <1>17 DEF SetOpen
<1>18. CASE ProbeSetOpen(c)
  BY <1>18 DEF ProbeSetOpen
<1>19. CASE ProbeSetLastFailure(c)
  BY <1>19 DEF ProbeSetLastFailure
<1>20. CASE ProbeDelLock(c)
  BY <1>20 DEF ProbeDelLock
<1>21. CASE Abandon(c)
  BY <1>21 DEF Abandon
<1> QED
  BY <1>1, <1>2, <1>3, <1>4, <1>5, <1>6, <1>7, <1>8, <1>9, <1>10, <1>11,
     <1>12, <1>13, <1>14, <1>15, <1>16, <1>17, <1>18, <1>19, <1>20, <1>21 DEF
     Call, Proceed, Answered

(* A call's step leaves the circuit right.                                 *)
LEMMA CallCircuit ==
  ASSUME TypeOK, CircuitOK, NEW c \in Callers, Call(c), CallOK(c)
  PROVE  CircuitOK'
<1>1. Alone(c) /\ Counts(c) /\ Writes(c)
  BY CallLocalTyped, CallCounts, CallWrites
<1>2. Outage => Outage' \/ (state' = "CLOSED" /\ pc'[c] = "del_last_failure")
  BY OutageKept DEF Forgets, AtRest
<1>3. overlapped => overlapped'
  BY <1>1 DEF Writes
<1>4. state' # "CLOSED" => Outage'
  BY <1>1, <1>2 DEF Writes, CircuitOK, CallOK, Convinced, ProbeSteps
<1>5. ASSUME state' # "CLOSED", Closing' PROVE overlapped'
  <2>1. PICK d \in Callers : pc'[d] \in {"del_count", "del_last_failure"}
    BY <1>5 DEF Closing
  <2>2. pc[d] \in {"del_count", "del_last_failure"}
    BY <1>1, <1>5, <2>1 DEF Alone, Writes
  <2>3. CASE state' = state
    BY <1>3, <1>5, <2>2, <2>3 DEF CircuitOK, Closing
  <2>4. CASE pc[c] \in {"set_half_open", "set_open", "probe_set_open"}
    <3>1. Overlap
      BY <2>2, <2>4, Overlaps DEF Resetting, Judging, SuccessSteps, FailureSteps, ProbeSteps
    <3> QED BY <1>1, <3>1 DEF Writes
  <2> QED BY <1>1, <1>5, <2>3, <2>4 DEF Writes
<1>6. ASSUME state' # "CLOSED", lastFailure' = "absent" PROVE overlapped'
  <2>1. CASE pc[c] \in {"set_half_open", "set_open", "probe_set_open"}
    BY <1>1, <1>3, <1>6, <2>1 DEF Writes, CallOK, Dated, Reopening
  <2>2. CASE state' = state /\ pc[c] = "del_last_failure"
    BY <1>3, <1>6, <2>2 DEF CircuitOK, Closing
  <2>3. CASE state' = state /\ lastFailure' = lastFailure
    BY <1>3, <1>6, <2>3 DEF CircuitOK
  <2> QED BY <1>1, <1>6, <2>1, <2>2, <2>3 DEF Writes
<1> QED BY <1>4, <1>5, <1>6 DEF CircuitOK

-----------------------------------------------------------------------------
(* Time passes: only dates and counts go, and no date goes absent.  An     *)
(* outage is forgotten at rest only.                                       *)
TimePasses ==
  \/ OpenTimeoutPasses
  \/ WindowPasses
  \/ WindowPassesUnnoticed
  \/ ProbeLockExpires

LEMMA TimeCounted ==
  ASSUME TypeOK, Counted, TimePasses, At("incr")' = At("incr"), At("expire")' = At("expire")
  PROVE  Counted'
<1>1. Counting' = Counting /\ Timing' = Timing /\ Counting \in Nat /\ Timing \in Nat
  BY AtNumbers DEF Counting, Timing
<1>2. failureCount \in Nat /\ downs \in Nat /\ orphans \in Nat /\ countExpires \in BOOLEAN
  BY BreakerAssumption DEF TypeOK
<1>3. AtRest => Counting = 0 /\ Timing = 0
  BY RestIsQuiet
<1>4. CASE OpenTimeoutPasses \/ ProbeLockExpires
  BY <1>1, <1>2, <1>4 DEF OpenTimeoutPasses, ProbeLockExpires, Counted, history, outage
<1>5. CASE WindowPasses
  <2>1. CASE AtRest
    BY <1>1, <1>2, <1>3, <1>5, <2>1 DEF WindowPasses, Forget, Counted
  <2>2. CASE ~AtRest
    BY <1>1, <1>2, <1>5, <2>2 DEF WindowPasses, Forget, Counted
  <2> QED BY <2>1, <2>2
<1>6. CASE WindowPassesUnnoticed
  BY <1>1, <1>2, <1>3, <1>6 DEF WindowPassesUnnoticed, Counted, redis
<1> QED BY <1>4, <1>5, <1>6 DEF TimePasses

(* Whatever time takes away, the types and the invariant stay.             *)
LEMMA TimeStep ==
  ASSUME TypeOK, BreakerInv, TimePasses
  PROVE  TypeOK' /\ BreakerInv'
<1>1. /\ UNCHANGED <<state, local, overlapped, aborts>>
      /\ lastFailure' # lastFailure => lastFailure = "recent" /\ lastFailure' = "elapsed"
      /\ countExpires' \in BOOLEAN /\ probeLock' \in BOOLEAN
  BY DEF TimePasses, OpenTimeoutPasses, WindowPasses, WindowPassesUnnoticed,
     ProbeLockExpires, TypeOK, redis, history
<1>2. /\ failureCount' \in {0, failureCount}
      /\ downs' \in {0, downs} /\ orphans' \in {0, orphans}
      /\ ~AtRest => downs' = downs /\ orphans' = orphans
  BY DEF TimePasses, OpenTimeoutPasses, WindowPasses, WindowPassesUnnoticed,
     ProbeLockExpires, TypeOK, redis, history, outage, Forget
<1>3. TypeOK'
  BY <1>1, <1>2, BreakerAssumption DEF TypeOK, local
<1>4. At("incr")' = At("incr") /\ At("expire")' = At("expire")
  BY <1>1 DEF At, local
<1>5. Counted'
  BY <1>4, TimeCounted DEF BreakerInv
<1>6. Outage => Outage' \/ AtRest
  BY <1>2 DEF Outage
<1>7. CircuitOK'
  BY <1>1, <1>6 DEF BreakerInv, CircuitOK, Closing, AtRest, local
<1>8. ASSUME NEW c \in Callers PROVE CallOK(c)'
  BY <1>1, <1>6, RestIsQuiet DEF BreakerInv, CallOK, Prober, Convinced, Dated, Reopening, local
<1> QED BY <1>3, <1>5, <1>7, <1>8 DEF BreakerInv

(* At first the circuit is closed and nobody calls.                        *)
LEMMA BreakerInit == Init => TypeOK /\ BreakerInv
<1>. SUFFICES ASSUME Init PROVE TypeOK /\ BreakerInv
  OBVIOUS
<1>1. TypeOK
  <2>1. "idle" \in Steps /\ 0 \in 0..MaxDowns /\ 0 \in 0..MaxRetries /\ 0 \in 0..MaxAborts
        /\ 0 \in 0..(MaxDowns + MaxAborts) /\ 0 \in 0..0
    BY BreakerAssumption DEF Steps
  <2> QED BY <2>1 DEF Init, TypeOK
<1>2. At("incr") = {} /\ At("expire") = {}
  BY DEF Init, At
<1>3. Counted
  BY <1>2, FS_EmptySet DEF Init, Counted, Counting, Timing
<1>4. CircuitOK /\ \A c \in Callers : CallOK(c)
  BY DEF Init, CircuitOK, CallOK, Prober, Convinced, Dated, Reopening, ProbeSteps
<1> QED BY <1>1, <1>3, <1>4 DEF BreakerInv

(* Every step keeps the types and the invariant.                           *)
LEMMA BreakerStep == TypeOK /\ BreakerInv /\ [Next]_vars => TypeOK' /\ BreakerInv'
<1>. SUFFICES ASSUME TypeOK, BreakerInv, [Next]_vars PROVE TypeOK' /\ BreakerInv'
  OBVIOUS
<1>1. ASSUME NEW c \in Callers, Call(c) PROVE TypeOK' /\ BreakerInv'
  <2>1. TypeOK' /\ Counted' /\ CircuitOK'
    BY <1>1, CallTypes, CallCounted, CallCircuit DEF BreakerInv
  <2>2. CallOK(c)'
    BY <1>1, OwnProber, OwnConvinced, OwnDated DEF BreakerInv, CallOK
  <2>3. \A d \in Callers \ {c} : CallOK(d)'
    BY <1>1, OthersOK DEF BreakerInv
  <2> QED BY <2>1, <2>2, <2>3 DEF BreakerInv
<1>2. CASE TimePasses
  BY <1>2, TimeStep
<1>3. CASE UNCHANGED vars
  BY <1>3 DEF vars, redis, local, history, outage, TypeOK, BreakerInv, Counted, Counting,
       Timing, At, CircuitOK, Closing, Outage, CallOK, Prober, Convinced, Dated, Reopening
<1> QED BY <1>1, <1>2, <1>3 DEF Next, Call, TimePasses

(* The inductive invariant of the breaker.                                 *)
LEMMA BreakerInvariant == Spec => [](TypeOK /\ BreakerInv)
BY BreakerInit, BreakerStep, PTL DEF Spec

-----------------------------------------------------------------------------
(* The theorems                                                            *)

(* The keys and the calls stay within their types; the failure count never *)
(* exceeds the SERVICE_DOWN answers there were, whatever calls race.       *)
THEOREM TypeCorrect == Spec => []TypeOK
BY BreakerInvariant, PTL

(* One outage opens the circuit, not the remains of several: after every   *)
(* rest it takes Threshold new SERVICE_DOWN answers, failures left without *)
(* a TTL by calls that died included, for any number of concurrent calls.  *)
THEOREM OpensOnlyOnOutageHolds == Spec => []OpensOnlyOnOutage
<1>1. BreakerInv => OpensOnlyOnOutage
  BY DEF BreakerInv, CircuitOK, Outage, OpensOnlyOnOutage
<1> QED BY <1>1, BreakerInvariant, PTL

(* An open circuit has the time it opened at, wherever calls are abandoned,*)
(* unless a success reset ran while another call was judging the circuit.  *)
THEOREM OpenIsDatedHolds == Spec => []OpenIsDated
<1>1. BreakerInv => OpenIsDated
  BY DEF BreakerInv, CircuitOK, OpenIsDated
<1> QED BY <1>1, BreakerInvariant, PTL
=============================================================================
