------------------------------- MODULE Intake -------------------------------
(***************************************************************************)
(* POST /apply-loan: concurrent requests that share idempotency keys, each *)
(* going through the Redis cache, the idempotency_records table and, if    *)
(* both are silent, one transaction that inserts the application, its      *)
(* outbox message and its idempotency record.                              *)
(*                                                                         *)
(* Every await of apply_loan is a step.  The transaction is invisible      *)
(* until it commits, except that its uncommitted record makes the INSERT   *)
(* of the same key by another request wait (ON CONFLICT DO NOTHING waits   *)
(* for the other transaction to end).  A request is one HTTP attempt: a    *)
(* client that retries is several requests with the same input.  A request *)
(* may be lost between any two steps, with its client left unanswered.     *)
(***************************************************************************)
EXTENDS Naturals, FiniteSets

CONSTANTS
  Requests,  \* HTTP requests; the application a request creates bears its name
  Keys,      \* idempotency keys
  Payloads,  \* request bodies
  None       \* NULL, absent

VARIABLES
  \* PostgreSQL
  applications, \* committed rows of loan_applications
  record,       \* committed rows of idempotency_records
  inserting,    \* the request whose uncommitted record holds a key
  outbox,       \* the status of the outbox row of each application
  \* Redis
  cache,        \* idempotent:{key}
  \* requests
  input,        \* the key and the payload of each request
  pc,           \* the next step of apply_loan
  entry,        \* the response the request is about to cache and return
  answer        \* what the client got

tables  == <<applications, record, inserting, outbox>>
request == <<pc, entry, answer>>
intake  == <<applications, record, inserting, cache, input, pc, entry, answer>>
vars    == <<intake, outbox>>

Input    == [key : Keys, payload : Payloads]
Response == [app : Requests, payload : Payloads]
Codes    == {"created", "replayed", "conflict", "unresolved", "lost"}
Steps    == {"get_cache", "get_record", "insert", "commit", "get_after_race",
             "cache_created", "cache_replayed", "done"}

TypeOK ==
  /\ applications \subseteq Requests
  /\ record \in [Keys -> Response \cup {None}]
  /\ inserting \in [Keys -> Requests \cup {None}]
  /\ outbox \in [Requests -> {"none", "PENDING", "FAILED", "PROCESSED"}]
  /\ cache \in [Keys -> Response \cup {None}]
  /\ input \in [Requests -> Input]
  /\ pc \in [Requests -> Steps]
  /\ entry \in [Requests -> Response \cup {None}]
  /\ answer \in [Requests -> [code : Codes, app : Requests \cup {None}] \cup {None}]

Init ==
  /\ applications = {}
  /\ record = [k \in Keys |-> None]
  /\ inserting = [k \in Keys |-> None]
  /\ outbox = [r \in Requests |-> "none"]
  /\ cache = [k \in Keys |-> None]
  /\ input \in [Requests -> Input]
  /\ pc = [r \in Requests |-> "get_cache"]
  /\ entry = [r \in Requests |-> None]
  /\ answer = [r \in Requests |-> None]

-----------------------------------------------------------------------------
(* Helpers                                                                 *)

Key(r)     == input[r].key
Payload(r) == input[r].payload

Goto(r, step) ==
  /\ pc' = [pc EXCEPT ![r] = step]
  /\ UNCHANGED <<entry, answer>>

Answer(r, code, app) ==
  /\ pc' = [pc EXCEPT ![r] = "done"]
  /\ answer' = [answer EXCEPT ![r] = [code |-> code, app |-> app]]
  /\ UNCHANGED entry

(* A stored response is replayed only to the payload it was given for.     *)
ReplayFromCache(r, stored) ==
  IF stored.payload = Payload(r) THEN Answer(r, "replayed", stored.app)
                                 ELSE Answer(r, "conflict", None)

(* Mutant: the payload hash is not compared.                               *)
ReplayFromTableUnchecked(r, stored) ==
  /\ pc' = [pc EXCEPT ![r] = "cache_replayed"]
  /\ entry' = [entry EXCEPT ![r] = stored]
  /\ UNCHANGED answer

ReplayFromTable(r, stored) ==
  IF stored.payload = Payload(r)
    THEN /\ pc' = [pc EXCEPT ![r] = "cache_replayed"]
         /\ entry' = [entry EXCEPT ![r] = stored]
         /\ UNCHANGED answer
    ELSE Answer(r, "conflict", None)

-----------------------------------------------------------------------------
(* Redis raises, has nothing, or answers.                                  *)
GetCache(r) ==
  /\ pc[r] = "get_cache"
  /\ \/ Goto(r, "get_record")
     \/ cache[Key(r)] # None /\ ReplayFromCache(r, cache[Key(r)])
  /\ UNCHANGED <<tables, cache, input>>

GetRecord(r) ==
  /\ pc[r] = "get_record"
  /\ IF record[Key(r)] = None THEN Goto(r, "insert")
                              ELSE ReplayFromTable(r, record[Key(r)])
  /\ UNCHANGED <<tables, cache, input>>

(* Mutant: a second uncommitted record of a key is let in, and so are, in  *)
(* the end, two applications (no ON CONFLICT clause and no unique key).    *)
InsertUnguarded(r) ==
  /\ pc[r] = "insert"
  /\ inserting' = [inserting EXCEPT ![Key(r)] = r]
  /\ Goto(r, "commit")
  /\ UNCHANGED <<applications, record, outbox, cache, input>>

(* Mutant: the key is found taken before the other transaction has ended.   *)
InsertNoWait(r) ==
  /\ pc[r] = "insert"
  /\ IF record[Key(r)] = None /\ inserting[Key(r)] = None
       THEN /\ inserting' = [inserting EXCEPT ![Key(r)] = r]
            /\ Goto(r, "commit")
       ELSE /\ UNCHANGED inserting
            /\ Goto(r, "get_after_race")
  /\ UNCHANGED <<applications, record, outbox, cache, input>>

(* flush of the application, then INSERT ... ON CONFLICT DO NOTHING        *)
(* RETURNING.                                                              *)
Insert(r) ==
  /\ pc[r] = "insert"
  /\ inserting[Key(r)] = None
  /\ IF record[Key(r)] = None
       THEN /\ inserting' = [inserting EXCEPT ![Key(r)] = r]
            /\ Goto(r, "commit")
       ELSE /\ UNCHANGED inserting
            /\ Goto(r, "get_after_race")
  /\ UNCHANGED <<applications, record, outbox, cache, input>>

GetAfterRace(r) ==
  /\ pc[r] = "get_after_race"
  /\ IF record[Key(r)] = None THEN Answer(r, "unresolved", None)
                              ELSE ReplayFromTable(r, record[Key(r)])
  /\ UNCHANGED <<tables, cache, input>>

(* Mutant: the outbox message is left for a transaction of its own.        *)
CommitWithoutOutbox(r) ==
  LET response == [app |-> r, payload |-> Payload(r)]
  IN  /\ pc[r] = "commit"
      /\ applications' = applications \cup {r}
      /\ record' = [record EXCEPT ![Key(r)] = response]
      /\ inserting' = [inserting EXCEPT ![Key(r)] = None]
      /\ pc' = [pc EXCEPT ![r] = "cache_created"]
      /\ entry' = [entry EXCEPT ![r] = response]
      /\ UNCHANGED <<outbox, cache, input, answer>>

(* Application, outbox message and record become visible together.         *)
Commit(r) ==
  LET response == [app |-> r, payload |-> Payload(r)]
  IN  /\ pc[r] = "commit"
      /\ applications' = applications \cup {r}
      /\ outbox' = [outbox EXCEPT ![r] = "PENDING"]
      /\ record' = [record EXCEPT ![Key(r)] = response]
      /\ inserting' = [inserting EXCEPT ![Key(r)] = None]
      /\ pc' = [pc EXCEPT ![r] = "cache_created"]
      /\ entry' = [entry EXCEPT ![r] = response]
      /\ UNCHANGED <<cache, input, answer>>

(* Mutant: the public response is cached without the hash of its request.   *)
SetCachePublicOnly(r) ==
  /\ pc[r] \in {"cache_created", "cache_replayed"}
  /\ \/ cache' = [cache EXCEPT ![Key(r)] = entry[r].app]
     \/ UNCHANGED cache
  /\ Answer(r, IF pc[r] = "cache_created" THEN "created" ELSE "replayed",
            entry[r].app)
  /\ UNCHANGED <<tables, input>>

(* SETEX, or a warning when Redis raises; then the response is returned.   *)
SetCache(r) ==
  /\ pc[r] \in {"cache_created", "cache_replayed"}
  /\ \/ cache' = [cache EXCEPT ![Key(r)] = entry[r]]
     \/ UNCHANGED cache
  /\ Answer(r, IF pc[r] = "cache_created" THEN "created" ELSE "replayed",
            entry[r].app)
  /\ UNCHANGED <<tables, input>>

-----------------------------------------------------------------------------
(* The API process dies, a statement raises, or the client hangs up: an    *)
(* open transaction is rolled back.                                        *)
LoseRequest(r) ==
  /\ pc[r] # "done"
  /\ inserting' = [k \in Keys |-> IF inserting[k] = r THEN None ELSE inserting[k]]
  /\ Answer(r, "lost", None)
  /\ UNCHANGED <<applications, record, outbox, cache, input>>

(* The TTL passes, or Redis evicts the key or restarts.                    *)
CacheExpires(k) ==
  /\ cache[k] # None
  /\ cache' = [cache EXCEPT ![k] = None]
  /\ UNCHANGED <<tables, input, request>>

-----------------------------------------------------------------------------
Handle(r) ==
  \/ GetCache(r)
  \/ GetRecord(r)
  \/ Insert(r)
  \/ GetAfterRace(r)
  \/ Commit(r)
  \/ SetCache(r)

Next ==
  \/ \E r \in Requests : Handle(r) \/ LoseRequest(r)
  \/ \E k \in Keys : CacheExpires(k)

-----------------------------------------------------------------------------
(* Properties                                                              *)

(* However many requests race, retry or die, a key creates one application *)
(* at most.                                                                *)
OneApplicationPerKey ==
  \A a, b \in applications : Key(a) = Key(b) => a = b

(* What a client is told is so: the application named in the answer is     *)
(* committed, under the key and for the very payload the client sent.      *)
AnswersAreTrue ==
  \A r \in Requests :
    answer[r] # None /\ answer[r].code \in {"created", "replayed"} =>
      /\ answer[r].app \in applications
      /\ input[answer[r].app] = input[r]

(* 409 means what it says: the key is taken for another payload.  A retry  *)
(* of the same request never gets one, and the race is always resolved.    *)
ConflictsAreReal ==
  \A r \in Requests :
    answer[r] # None /\ answer[r].code \in {"conflict", "unresolved"} =>
      /\ answer[r].code = "conflict"
      /\ \E a \in applications : Key(a) = Key(r) /\ Payload(a) # Payload(r)
=============================================================================
