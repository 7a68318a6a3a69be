--------------------------- MODULE Delivery_proofs ---------------------------
(***************************************************************************)
(* Theorems about Delivery, for any requests, keys and payloads, any       *)
(* number of pollers, any batch limit and any number of faults.            *)
(***************************************************************************)
EXTENDS Delivery, TLAPS

-----------------------------------------------------------------------------
(* The intake's invariant                                                  *)

(* The tables agree: the record of a key names a committed application of  *)
(* that key and payload, every committed application is on record, and     *)
(* what Redis has is what the table has.  A key somebody is inserting is   *)
(* not on record yet.                                                      *)
RecordsName ==
  \A k \in Keys : record[k] # None =>
    /\ record[k].app \in applications
    /\ input[record[k].app] = [key |-> k, payload |-> record[k].payload]

OnRecord ==
  \A a \in applications : record[In!Key(a)] # None /\ record[In!Key(a)].app = a

Cached == \A k \in Keys : cache[k] # None => cache[k] = record[k]

Inserting == \A k \in Keys : inserting[k] # None => record[k] = None

TablesOK == RecordsName /\ OnRecord /\ Cached /\ Inserting

(* What a request knows from its earlier steps is still so, and what it    *)
(* answered stays so.                                                      *)
InHand(r) ==
  /\ pc[r] = "commit" => inserting[In!Key(r)] = r
  /\ pc[r] = "get_after_race" => record[In!Key(r)] # None
  /\ pc[r] \in {"cache_created", "cache_replayed"} =>
       /\ record[In!Key(r)] # None
       /\ entry[r] = record[In!Key(r)]
       /\ entry[r].payload = In!Payload(r)

Truthful(r) ==
  answer[r] # None /\ answer[r].code \in {"created", "replayed"} =>
    /\ answer[r].app \in applications
    /\ input[answer[r].app] = input[r]

Justified(r) ==
  answer[r] # None /\ answer[r].code \in {"conflict", "unresolved"} =>
    /\ answer[r].code = "conflict"
    /\ \E a \in applications : In!Key(a) = In!Key(r) /\ In!Payload(a) # In!Payload(r)

RequestOK(r) == InHand(r) /\ Truthful(r) /\ Justified(r)

IntakeInv == TablesOK /\ \A r \in Requests : RequestOK(r)

-----------------------------------------------------------------------------
(* The pollers' invariant                                                  *)

(* Batches hold undelivered rows, no two share one, and only a thread that *)
(* is sending has one.                                                     *)
BatchOK(p) ==
  /\ batch[p] \subseteq Out!Undelivered
  /\ delivered[p] \cup refused[p] \subseteq batch[p]
  /\ delivered[p] \cap refused[p] = {}
  /\ thread[p] # "sending" => batch[p] = {}

Disjoint == \A p, q \in Pollers : p # q => batch[p] \cap batch[q] = {}

(* A row that is processed, or about to be committed as processed, has     *)
(* been sent; every other sending has been made undone by a fault.         *)
Accepted(a) == outbox[a] = "PROCESSED" \/ \E p \in Pollers : a \in delivered[p]

SentOK(a) ==
  /\ Accepted(a) => sent[a] >= 1
  /\ sent[a] <= 1 + crashes + dbErrors
  /\ ~Accepted(a) => sent[a] <= crashes + dbErrors
  /\ sent[a] > 0 => outbox[a] # "none"

OutboxInv ==
  /\ \A p \in Pollers : BatchOK(p)
  /\ Disjoint
  /\ \A a \in Requests : SentOK(a)

(* The outbox has a row of exactly the committed applications.             *)
Queued == \A a \in Requests : a \in applications <=> outbox[a] # "none"

DeliveryInv == IntakeInv /\ OutboxInv /\ Queued

-----------------------------------------------------------------------------
(* Types of the intake                                                     *)

(* How a request answers or goes on, typed.                                *)
LEMMA AnswerType ==
  ASSUME In!TypeOK, NEW r \in Requests, NEW code \in In!Codes,
         NEW app \in Requests \cup {None}, In!Answer(r, code, app)
  PROVE  /\ pc' \in [Requests -> In!Steps]
         /\ entry' \in [Requests -> In!Response \cup {None}]
         /\ answer' \in [Requests -> [code : In!Codes, app : Requests \cup {None}] \cup {None}]
BY DEF In!TypeOK, In!Answer, In!Steps

(* The next step of a request is one it can be at.                         *)
LEMMA GotoType ==
  ASSUME In!TypeOK, NEW r \in Requests, NEW step \in In!Steps, In!Goto(r, step)
  PROVE  /\ pc' \in [Requests -> In!Steps]
         /\ entry' \in [Requests -> In!Response \cup {None}]
         /\ answer' \in [Requests -> [code : In!Codes, app : Requests \cup {None}] \cup {None}]
BY DEF In!TypeOK, In!Goto

(* A stored response is answered with what the record says.                *)
LEMMA ReplayType ==
  ASSUME In!TypeOK, NEW r \in Requests, NEW stored \in In!Response,
         In!ReplayFromCache(r, stored) \/ In!ReplayFromTable(r, stored)
  PROVE  /\ pc' \in [Requests -> In!Steps]
         /\ entry' \in [Requests -> In!Response \cup {None}]
         /\ answer' \in [Requests -> [code : In!Codes, app : Requests \cup {None}] \cup {None}]
<1>1. stored.app \in Requests /\ {"replayed", "conflict"} \subseteq In!Codes
  BY DEF In!Response, In!Codes
<1>2. CASE \E code \in {"replayed", "conflict"} : \E app \in Requests \cup {None} :
             In!Answer(r, code, app)
  BY <1>1, <1>2, AnswerType
<1>3. CASE /\ pc' = [pc EXCEPT ![r] = "cache_replayed"]
           /\ entry' = [entry EXCEPT ![r] = stored]
           /\ UNCHANGED answer
  BY <1>3 DEF In!TypeOK, In!Steps
<1> QED BY <1>1, <1>2, <1>3 DEF In!ReplayFromCache, In!ReplayFromTable

(* Every step of the intake keeps its types.                               *)
LEMMA IntakeType ==
  ASSUME In!TypeOK, IntakeInv, In!Next
  PROVE  In!TypeOK'
<1> DEFINE Typed ==
      /\ pc' \in [Requests -> In!Steps]
      /\ entry' \in [Requests -> In!Response \cup {None}]
      /\ answer' \in [Requests -> [code : In!Codes, app : Requests \cup {None}] \cup {None}]
<1> USE DEF In!tables
<1>0. /\ {"created", "replayed", "conflict", "unresolved", "lost"} \subseteq In!Codes
      /\ {"get_record", "insert", "commit", "get_after_race", "cache_created"} \subseteq In!Steps
  BY DEF In!Codes, In!Steps
<1>1. ASSUME NEW r \in Requests
      PROVE  /\ In!Key(r) \in Keys
             /\ record[In!Key(r)] # None => record[In!Key(r)] \in In!Response
             /\ cache[In!Key(r)] # None => cache[In!Key(r)] \in In!Response
  BY DEF In!TypeOK, In!Key, In!Input
<1>2. ASSUME NEW r \in Requests, In!GetCache(r) PROVE In!TypeOK'
  <2>1. Typed
    BY <1>0, <1>1, <1>2, GotoType, ReplayType DEF In!GetCache
  <2> QED BY <1>2, <2>1 DEF In!GetCache, In!TypeOK
<1>3. ASSUME NEW r \in Requests, In!GetRecord(r) PROVE In!TypeOK'
  <2>1. Typed
    BY <1>0, <1>1, <1>3, GotoType, ReplayType DEF In!GetRecord
  <2> QED BY <1>3, <2>1 DEF In!GetRecord, In!TypeOK
<1>4. ASSUME NEW r \in Requests, In!Insert(r) PROVE In!TypeOK'
  <2>1. Typed
    BY <1>0, <1>4, GotoType DEF In!Insert
  <2>2. inserting' \in [Keys -> Requests \cup {None}]
    BY <1>4 DEF In!Insert, In!TypeOK
  <2> QED BY <1>4, <2>1, <2>2 DEF In!Insert, In!TypeOK
<1>5. ASSUME NEW r \in Requests, In!GetAfterRace(r) PROVE In!TypeOK'
  <2>1. Typed
    BY <1>0, <1>1, <1>5, AnswerType, ReplayType DEF In!GetAfterRace
  <2> QED BY <1>5, <2>1 DEF In!GetAfterRace, In!TypeOK
<1>6. ASSUME NEW r \in Requests, In!Commit(r) PROVE In!TypeOK'
  <2>1. [app |-> r, payload |-> In!Payload(r)] \in In!Response
    BY DEF In!TypeOK, In!Response, In!Payload, In!Input
  <2> QED BY <1>0, <1>6, <2>1 DEF In!Commit, In!TypeOK
<1>7. ASSUME NEW r \in Requests, In!SetCache(r) PROVE In!TypeOK'
  <2>1. entry[r] \in In!Response
    BY <1>1, <1>7 DEF In!SetCache, IntakeInv, RequestOK, InHand
  <2>2. Typed
    <3>1. entry[r].app \in Requests
      BY <2>1 DEF In!Response
    <3>2. \E code \in In!Codes : In!Answer(r, code, entry[r].app)
      BY <1>0, <1>7 DEF In!SetCache
    <3> QED BY <3>1, <3>2, AnswerType
  <2>3. cache' \in [Keys -> In!Response \cup {None}]
    BY <1>7, <2>1 DEF In!SetCache, In!TypeOK
  <2> QED BY <1>7, <2>2, <2>3 DEF In!SetCache, In!TypeOK
<1>8. ASSUME NEW r \in Requests, In!LoseRequest(r) PROVE In!TypeOK'
  <2>1. Typed
    BY <1>0, <1>8, AnswerType DEF In!LoseRequest
  <2>2. inserting' \in [Keys -> Requests \cup {None}]
    BY <1>8 DEF In!LoseRequest, In!TypeOK
  <2> QED BY <1>8, <2>1, <2>2 DEF In!LoseRequest, In!TypeOK
<1>9. ASSUME NEW k \in Keys, In!CacheExpires(k) PROVE In!TypeOK'
  BY <1>9 DEF In!CacheExpires, In!request, In!TypeOK
<1> QED BY <1>2, <1>3, <1>4, <1>5, <1>6, <1>7, <1>8, <1>9 DEF In!Next, In!Handle

-----------------------------------------------------------------------------
(* The tables and the requests                                             *)

(* A step of one request that leaves the tables as they are concerns it    *)
(* alone.                                                                  *)
LEMMA OneRequest ==
  ASSUME In!TypeOK, IntakeInv, NEW r \in Requests,
         UNCHANGED <<applications, record, input>>,
         \A q \in Requests \ {r} :
           /\ UNCHANGED <<pc[q], entry[q], answer[q]>>
           /\ inserting[In!Key(q)] = q => inserting'[In!Key(q)] = q,
         Cached', Inserting', RequestOK(r)'
  PROVE  IntakeInv'
<1>1. TablesOK'
  BY DEF IntakeInv, TablesOK, RecordsName, OnRecord, In!Key
<1>2. ASSUME NEW q \in Requests \ {r} PROVE RequestOK(q)'
  BY DEF IntakeInv, RequestOK, InHand, Truthful, Justified, In!Key, In!Payload
<1> QED BY <1>1, <1>2 DEF IntakeInv

(* A stored response, from the table or from Redis, is replayed to the     *)
(* request it was given for, and is the proof of a conflict for another.   *)
LEMMA ReplayTrue ==
  ASSUME In!TypeOK, IntakeInv, NEW r \in Requests, UNCHANGED <<applications, record, input>>,
         record[In!Key(r)] # None,
         \/ In!ReplayFromCache(r, record[In!Key(r)])
         \/ In!ReplayFromTable(r, record[In!Key(r)])
  PROVE  RequestOK(r)'
<1> DEFINE stored == record[In!Key(r)]
<1>1. In!Key(r) \in Keys /\ input[r] = [key |-> In!Key(r), payload |-> In!Payload(r)]
  BY DEF In!TypeOK, In!Input, In!Key, In!Payload
<1>2. /\ stored.app \in applications
      /\ input[stored.app] = [key |-> In!Key(r), payload |-> stored.payload]
  BY <1>1 DEF IntakeInv, TablesOK, RecordsName
<1>3. CASE stored.payload = In!Payload(r) /\ In!Answer(r, "replayed", stored.app)
  <2>1. pc'[r] = "done" /\ answer'[r] = [code |-> "replayed", app |-> stored.app]
    BY <1>3 DEF In!Answer, In!TypeOK
  <2>2. input[stored.app] = input[r]
    BY <1>1, <1>2, <1>3
  <2> QED BY <1>2, <2>1, <2>2 DEF RequestOK, InHand, Truthful, Justified
<1>4. CASE stored.payload # In!Payload(r) /\ In!Answer(r, "conflict", None)
  <2>1. pc'[r] = "done" /\ answer'[r] = [code |-> "conflict", app |-> None]
    BY <1>4 DEF In!Answer, In!TypeOK
  <2>2. In!Key(stored.app) = In!Key(r) /\ In!Payload(stored.app) # In!Payload(r)
    BY <1>2, <1>4 DEF In!Key, In!Payload
  <2>3. \E a \in applications : In!Key(a) = In!Key(r) /\ In!Payload(a) # In!Payload(r)
    BY <1>2, <2>2
  <2> QED BY <2>1, <2>3 DEF RequestOK, InHand, Truthful, Justified, In!Key, In!Payload
<1>5. CASE /\ stored.payload = In!Payload(r)
           /\ pc' = [pc EXCEPT ![r] = "cache_replayed"]
           /\ entry' = [entry EXCEPT ![r] = stored]
           /\ UNCHANGED answer
  <2>1. pc'[r] = "cache_replayed" /\ entry'[r] = stored /\ answer'[r] = answer[r]
    BY <1>5 DEF In!TypeOK
  <2> QED BY <1>5, <2>1 DEF IntakeInv, RequestOK, InHand, Truthful, Justified, In!Key, In!Payload
<1> QED BY <1>3, <1>4, <1>5 DEF In!ReplayFromCache, In!ReplayFromTable

(* A request that goes on without an answer only has to know what its next *)
(* step relies on.                                                         *)
LEMMA GoesOn ==
  ASSUME In!TypeOK, IntakeInv, NEW r \in Requests, NEW step, In!Goto(r, step),
         step \notin {"cache_created", "cache_replayed"},
         step = "commit" => inserting'[In!Key(r)] = r,
         step = "get_after_race" => record[In!Key(r)] # None,
         UNCHANGED <<applications, record, input>>
  PROVE  RequestOK(r)'
<1>1. pc'[r] = step /\ UNCHANGED <<entry, answer>>
  BY DEF In!Goto, In!TypeOK
<1> QED BY <1>1 DEF IntakeInv, RequestOK, InHand, Truthful, Justified, In!Key, In!Payload

(* The insert of a new application puts it on record and makes no record   *)
(* a lie.                                                                  *)
LEMMA CommitKeeps ==
  ASSUME In!TypeOK, IntakeInv, NEW r \in Requests, In!Commit(r), None \notin In!Response,
         None \notin Requests
  PROVE  /\ IntakeInv'
         /\ r \notin applications
<1> DEFINE k == In!Key(r)
           response == [app |-> r, payload |-> In!Payload(r)]
<1>1. k \in Keys /\ input[r] = [key |-> k, payload |-> In!Payload(r)] /\ response \in In!Response
  BY DEF In!TypeOK, In!Input, In!Key, In!Payload, In!Response
<1>2. inserting[k] = r /\ record[k] = None
  BY <1>1 DEF In!Commit, IntakeInv, RequestOK, InHand, TablesOK, Inserting
<1>3. /\ applications' = applications \cup {r}
      /\ record' = [record EXCEPT ![k] = response]
      /\ inserting' = [inserting EXCEPT ![k] = None]
      /\ pc' = [pc EXCEPT ![r] = "cache_created"]
      /\ entry' = [entry EXCEPT ![r] = response]
      /\ UNCHANGED <<cache, input, answer>>
  BY DEF In!Commit
<1>4. /\ record'[k] = response /\ response # None
      /\ \A j \in Keys \ {k} : record'[j] = record[j]
      /\ \A j \in Keys : record[j] # None => record'[j] = record[j]
  BY <1>1, <1>2, <1>3 DEF In!TypeOK
<1>5. \A a \in applications : In!Key(a) \in Keys \ {k}
  BY <1>2 DEF IntakeInv, TablesOK, OnRecord, In!TypeOK, In!Input, In!Key
<1>6. RecordsName'
  BY <1>1, <1>3, <1>4 DEF IntakeInv, TablesOK, RecordsName
<1>7. OnRecord'
  BY <1>3, <1>4, <1>5 DEF IntakeInv, TablesOK, OnRecord, In!Key
<1>8. Cached'
  BY <1>2, <1>3, <1>4 DEF IntakeInv, TablesOK, Cached
<1>9. Inserting'
  BY <1>1, <1>3, <1>4 DEF IntakeInv, TablesOK, Inserting, In!TypeOK
<1>10. RequestOK(r)'
  <2>1. pc'[r] = "cache_created" /\ entry'[r] = response /\ answer'[r] = answer[r]
    BY <1>3 DEF In!TypeOK
  <2> QED BY <1>3, <1>4, <2>1
          DEF IntakeInv, RequestOK, InHand, Truthful, Justified, In!Key, In!Payload
<1>11. ASSUME NEW q \in Requests \ {r} PROVE RequestOK(q)'
  <2>1. pc'[q] = pc[q] /\ entry'[q] = entry[q] /\ answer'[q] = answer[q]
    BY <1>3 DEF In!TypeOK
  <2>2. In!Key(q) \in Keys /\ (inserting[In!Key(q)] = q => inserting'[In!Key(q)] = q)
    BY <1>1, <1>2, <1>3 DEF In!TypeOK, In!Input, In!Key
  <2> QED BY <1>3, <1>4, <2>1, <2>2
          DEF IntakeInv, RequestOK, InHand, Truthful, Justified, In!Key, In!Payload
<1> QED BY <1>5, <1>6, <1>7, <1>8, <1>9, <1>10, <1>11 DEF IntakeInv, TablesOK

(* What is put into Redis is what the table has.                           *)
LEMMA SetCacheKeeps ==
  ASSUME In!TypeOK, IntakeInv, NEW r \in Requests, In!SetCache(r)
  PROVE  IntakeInv'
<1> USE DEF In!tables
<1> DEFINE stored == record[In!Key(r)]
<1>1. In!Key(r) \in Keys /\ input[r] = [key |-> In!Key(r), payload |-> In!Payload(r)]
  BY DEF In!TypeOK, In!Input, In!Key, In!Payload
<1>2. stored # None /\ entry[r] = stored /\ stored.payload = In!Payload(r)
  BY DEF In!SetCache, IntakeInv, RequestOK, InHand
<1>3. stored.app \in applications /\ input[stored.app] = input[r]
  BY <1>1, <1>2 DEF IntakeInv, TablesOK, RecordsName
<1>4. Cached'
  BY <1>1, <1>2 DEF In!SetCache, In!TypeOK, IntakeInv, TablesOK, Cached
<1>5. PICK code \in {"created", "replayed"} : In!Answer(r, code, stored.app)
  BY <1>2 DEF In!SetCache
<1>6. pc'[r] = "done" /\ answer'[r] = [code |-> code, app |-> stored.app]
  BY <1>5 DEF In!Answer, In!TypeOK
<1>7. RequestOK(r)'
  BY <1>3, <1>6 DEF In!SetCache, RequestOK, InHand, Truthful, Justified
<1> QED BY <1>4, <1>5, <1>7, OneRequest
        DEF In!SetCache, In!Answer, In!TypeOK, IntakeInv, TablesOK, Inserting

(* Every step of the intake keeps its invariant.                           *)
LEMMA IntakeStep ==
  ASSUME In!TypeOK, IntakeInv, In!Next, None \notin In!Response, None \notin Requests
  PROVE  IntakeInv'
<1> USE DEF In!tables
<1>0. ASSUME UNCHANGED <<record, cache, inserting>> PROVE Cached' /\ Inserting'
  BY <1>0 DEF IntakeInv, TablesOK, Cached, Inserting
<1>1. ASSUME NEW r \in Requests PROVE In!Key(r) \in Keys
  BY DEF In!TypeOK, In!Key, In!Input
<1>2. ASSUME NEW r \in Requests, In!GetCache(r) PROVE IntakeInv'
  <2>1. cache[In!Key(r)] # None => cache[In!Key(r)] = record[In!Key(r)]
    BY <1>1 DEF IntakeInv, TablesOK, Cached
  <2>2. RequestOK(r)'
    BY <1>2, <2>1, ReplayTrue, GoesOn DEF In!GetCache
  <2>3. \A q \in Requests \ {r} : UNCHANGED <<pc[q], entry[q], answer[q]>>
    BY <1>2 DEF In!GetCache, In!Goto, In!ReplayFromCache, In!Answer, In!TypeOK
  <2> QED BY <1>0, <1>2, <2>2, <2>3, OneRequest DEF In!GetCache
<1>3. ASSUME NEW r \in Requests, In!GetRecord(r) PROVE IntakeInv'
  <2>1. RequestOK(r)'
    BY <1>3, ReplayTrue, GoesOn DEF In!GetRecord
  <2>2. \A q \in Requests \ {r} : UNCHANGED <<pc[q], entry[q], answer[q]>>
    BY <1>3 DEF In!GetRecord, In!Goto, In!ReplayFromTable, In!Answer, In!TypeOK
  <2> QED BY <1>0, <1>3, <2>1, <2>2, OneRequest DEF In!GetRecord
<1>4. ASSUME NEW r \in Requests, In!Insert(r) PROVE IntakeInv'
  <2>1. \A q \in Requests \ {r} :
          /\ UNCHANGED <<pc[q], entry[q], answer[q]>>
          /\ inserting[In!Key(q)] = q => inserting'[In!Key(q)] = q
    BY <1>1, <1>4 DEF In!Insert, In!Goto, In!TypeOK
  <2>2. Inserting' /\ Cached'
    BY <1>1, <1>4 DEF In!Insert, In!TypeOK, IntakeInv, TablesOK, Inserting, Cached
  <2>3. CASE record[In!Key(r)] = None
    <3>1. In!Goto(r, "commit") /\ inserting'[In!Key(r)] = r
      BY <1>1, <1>4, <2>3 DEF In!Insert, In!TypeOK
    <3>2. RequestOK(r)'
      BY <1>4, <3>1, GoesOn DEF In!Insert
    <3> QED BY <1>4, <2>1, <2>2, <3>2, OneRequest DEF In!Insert
  <2>4. CASE record[In!Key(r)] # None
    <3>1. RequestOK(r)'
      BY <1>4, <2>4, GoesOn DEF In!Insert
    <3> QED BY <1>4, <2>1, <2>2, <3>1, OneRequest DEF In!Insert
  <2> QED BY <2>3, <2>4
<1>5. ASSUME NEW r \in Requests, In!GetAfterRace(r) PROVE IntakeInv'
  <2>1. record[In!Key(r)] # None
    BY <1>5 DEF In!GetAfterRace, IntakeInv, RequestOK, InHand
  <2>2. RequestOK(r)'
    BY <1>5, <2>1, ReplayTrue DEF In!GetAfterRace
  <2>3. \A q \in Requests \ {r} : UNCHANGED <<pc[q], entry[q], answer[q]>>
    BY <1>5, <2>1 DEF In!GetAfterRace, In!ReplayFromTable, In!Answer, In!TypeOK
  <2> QED BY <1>0, <1>5, <2>2, <2>3, OneRequest DEF In!GetAfterRace
<1>6. ASSUME NEW r \in Requests, In!LoseRequest(r) PROVE IntakeInv'
  <2>1. pc'[r] = "done" /\ answer'[r] = [code |-> "lost", app |-> None]
    BY <1>6 DEF In!LoseRequest, In!Answer, In!TypeOK
  <2>2. RequestOK(r)'
    BY <2>1 DEF RequestOK, InHand, Truthful, Justified
  <2>3. \A q \in Requests \ {r} :
          /\ UNCHANGED <<pc[q], entry[q], answer[q]>>
          /\ inserting[In!Key(q)] = q => inserting'[In!Key(q)] = q
    BY <1>1, <1>6 DEF In!LoseRequest, In!Answer, In!TypeOK
  <2>4. Inserting' /\ Cached'
    BY <1>6 DEF In!LoseRequest, IntakeInv, TablesOK, Inserting, Cached
  <2> QED BY <1>6, <2>2, <2>3, <2>4, OneRequest DEF In!LoseRequest
<1>7. ASSUME NEW k \in Keys, In!CacheExpires(k) PROVE IntakeInv'
  <2>1. Cached'
    BY <1>7 DEF In!CacheExpires, In!TypeOK, IntakeInv, TablesOK, Cached
  <2>2. TablesOK'
    BY <1>7, <2>1 DEF In!CacheExpires, IntakeInv, TablesOK, RecordsName, OnRecord, Inserting, In!Key
  <2>3. \A r \in Requests : RequestOK(r)'
    BY <1>7 DEF In!CacheExpires, In!request, IntakeInv, RequestOK, InHand, Truthful, Justified,
                In!Key, In!Payload
  <2> QED BY <2>2, <2>3 DEF IntakeInv
<1> QED BY <1>2, <1>3, <1>4, <1>5, <1>6, <1>7, CommitKeeps, SetCacheKeeps DEF In!Next, In!Handle

-----------------------------------------------------------------------------
(* The pollers                                                             *)

(* Every step of a poller keeps its types.                                 *)
LEMMA PollerType ==
  ASSUME Out!TypeOK, Out!Next, MaxSendFailures \in Nat, MaxCrashes \in Nat, MaxDbErrors \in Nat
  PROVE  Out!TypeOK'
<1> USE DEF Out!TypeOK
<1>1. ASSUME NEW p \in Pollers, Out!LockBatch(p) PROVE Out!TypeOK'
  <2>1. PICK rows \in SUBSET (Out!Undelivered \ Out!Locked) : batch' = [batch EXCEPT ![p] = rows]
    BY <1>1 DEF Out!LockBatch
  <2>2. rows \subseteq Requests
    BY DEF Out!Undelivered
  <2> QED BY <1>1, <2>1, <2>2 DEF Out!LockBatch
<1>2. ASSUME NEW p \in Pollers, NEW a \in Requests, Out!SendTask(p, a) PROVE Out!TypeOK'
  BY <1>2 DEF Out!SendTask
<1>3. ASSUME NEW p \in Pollers, NEW a \in Requests, Out!SendFails(p, a) PROVE Out!TypeOK'
  BY <1>3 DEF Out!SendFails
<1>4. ASSUME NEW p \in Pollers, Out!CommitBatch(p) PROVE Out!TypeOK'
  <2>1. outbox' \in [Requests -> {"none", "PENDING", "FAILED", "PROCESSED"}]
    BY <1>4 DEF Out!CommitBatch
  <2> QED BY <1>4, <2>1 DEF Out!CommitBatch, Out!Release
<1>5. ASSUME NEW p \in Pollers, Out!WorkerRestarts(p) PROVE Out!TypeOK'
  BY <1>5 DEF Out!WorkerRestarts
<1>6. ASSUME NEW p \in Pollers, Out!ThreadDies(p) PROVE Out!TypeOK'
  BY <1>6 DEF Out!ThreadDies, Out!Release
<1>7. ASSUME NEW p \in Pollers, Out!WorkerCrashes(p) PROVE Out!TypeOK'
  BY <1>7 DEF Out!WorkerCrashes, Out!Release
<1> QED BY <1>1, <1>2, <1>3, <1>4, <1>5, <1>6, <1>7 DEF Out!Next, Out!Live, Out!Poll

(* A transaction that is rolled back frees its rows, and the fault that    *)
(* ended it pays for what it had sent.                                     *)
LEMMA RolledBack ==
  ASSUME Out!TypeOK, OutboxInv, NEW p \in Pollers, NEW next \in {"dead", "crashed"},
         Out!Release(p, next), UNCHANGED <<outbox, sent>>,
         crashes' + dbErrors' = crashes + dbErrors + 1,
         crashes' \in Nat, dbErrors' \in Nat
  PROVE  OutboxInv'
<1>1. /\ thread'[p] = next /\ batch'[p] = {} /\ delivered'[p] = {} /\ refused'[p] = {}
      /\ \A q \in Pollers \ {p} :
           UNCHANGED <<thread[q], batch[q], delivered[q], refused[q]>>
  BY DEF Out!Release, Out!TypeOK
<1>2. (\A q \in Pollers : BatchOK(q)') /\ Disjoint'
  BY <1>1 DEF OutboxInv, BatchOK, Disjoint, Out!Undelivered
<1>3. ASSUME NEW a \in Requests PROVE SentOK(a)'
  <2>1. sent[a] \in Nat /\ crashes \in Nat /\ dbErrors \in Nat
    BY DEF Out!TypeOK
  <2>2. Accepted(a)' => Accepted(a)
    BY <1>1 DEF Accepted
  <2>3. SentOK(a)
    BY DEF OutboxInv
  <2> HIDE DEF Accepted
  <2> QED BY <2>1, <2>2, <2>3 DEF SentOK
<1> QED BY <1>2, <1>3 DEF OutboxInv

(* Every step of a poller keeps its invariant, and neither adds a row nor  *)
(* removes one.                                                            *)
LEMMA OutboxStep ==
  ASSUME Out!TypeOK, OutboxInv, Out!Next
  PROVE  /\ OutboxInv'
         /\ \A a \in Requests : outbox'[a] = "none" <=> outbox[a] = "none"
<1> DEFINE Rows == \A a \in Requests : outbox'[a] = "none" <=> outbox[a] = "none"
<1>1. ASSUME NEW p \in Pollers, Out!LockBatch(p) PROVE OutboxInv' /\ Rows
  <2>1. PICK rows \in SUBSET (Out!Undelivered \ Out!Locked) : batch' = [batch EXCEPT ![p] = rows]
    BY <1>1 DEF Out!LockBatch
  <2>2. /\ batch'[p] = rows /\ thread'[p] = "sending"
        /\ \A q \in Pollers \ {p} : UNCHANGED <<batch[q], thread[q]>>
        /\ UNCHANGED <<outbox, sent, delivered, refused, crashes, dbErrors>>
    BY <1>1, <2>1 DEF Out!LockBatch, Out!TypeOK
  <2>3. batch[p] = {} /\ delivered[p] = {} /\ refused[p] = {}
    BY <1>1 DEF Out!LockBatch, OutboxInv, BatchOK
  <2>4. \A q \in Pollers : rows \cap batch[q] = {}
    BY DEF Out!Locked
  <2>5. \A q \in Pollers : BatchOK(q)'
    BY <2>2, <2>3 DEF OutboxInv, BatchOK, Out!Undelivered
  <2>6. Disjoint'
    BY <2>2, <2>4 DEF OutboxInv, Disjoint
  <2>7. \A a \in Requests : SentOK(a)'
    BY <2>2 DEF OutboxInv, SentOK, Accepted
  <2> QED BY <2>2, <2>5, <2>6, <2>7 DEF OutboxInv
<1>2. ASSUME NEW p \in Pollers, NEW a \in Requests, Out!SendTask(p, a) PROVE OutboxInv' /\ Rows
  <2>1. /\ a \in batch[p] /\ a \notin delivered[p] /\ a \notin refused[p]
        /\ thread[p] = "sending"
        /\ sent'[a] = sent[a] + 1 /\ \A b \in Requests \ {a} : sent'[b] = sent[b]
        /\ delivered'[p] = delivered[p] \cup {a}
        /\ \A q \in Pollers \ {p} : delivered'[q] = delivered[q]
        /\ UNCHANGED <<outbox, thread, batch, refused, crashes, dbErrors>>
    BY <1>2 DEF Out!SendTask, Out!TypeOK
  <2>2. \A q \in Pollers : BatchOK(q)'
    <3>1. BatchOK(p)'
      BY <2>1 DEF OutboxInv, BatchOK, Out!Undelivered
    <3>2. ASSUME NEW q \in Pollers \ {p} PROVE BatchOK(q)'
      BY <2>1 DEF OutboxInv, BatchOK, Out!Undelivered
    <3> QED BY <3>1, <3>2
  <2>3. Disjoint'
    BY <2>1 DEF OutboxInv, Disjoint
  <2>4. ~Accepted(a) /\ outbox[a] # "none"
    BY <2>1 DEF OutboxInv, BatchOK, Disjoint, Accepted, Out!Undelivered
  <2>5. Accepted(a)' /\ \A b \in Requests \ {a} : Accepted(b)' <=> Accepted(b)
    BY <2>1 DEF Accepted
  <2>6. sent[a] \in Nat /\ crashes \in Nat /\ dbErrors \in Nat
    BY DEF Out!TypeOK
  <2>7. SentOK(a)'
    <3>1. sent[a] <= crashes + dbErrors
      BY <2>4 DEF OutboxInv, SentOK
    <3> QED BY <2>1, <2>4, <2>5, <2>6, <3>1 DEF SentOK
  <2>8. \A b \in Requests \ {a} : SentOK(b)'
    BY <2>1, <2>5 DEF OutboxInv, SentOK
  <2> QED BY <2>1, <2>2, <2>3, <2>7, <2>8 DEF OutboxInv
<1>3. ASSUME NEW p \in Pollers, NEW a \in Requests, Out!SendFails(p, a) PROVE OutboxInv' /\ Rows
  <2>1. /\ a \in batch[p] /\ a \notin delivered[p] /\ thread[p] = "sending"
        /\ refused'[p] = refused[p] \cup {a}
        /\ \A q \in Pollers \ {p} : refused'[q] = refused[q]
        /\ UNCHANGED <<outbox, sent, thread, batch, delivered, crashes, dbErrors>>
    BY <1>3 DEF Out!SendFails, Out!TypeOK
  <2>2. \A q \in Pollers : BatchOK(q)'
    <3>1. BatchOK(p)'
      BY <2>1 DEF OutboxInv, BatchOK, Out!Undelivered
    <3>2. ASSUME NEW q \in Pollers \ {p} PROVE BatchOK(q)'
      BY <2>1 DEF OutboxInv, BatchOK, Out!Undelivered
    <3> QED BY <3>1, <3>2
  <2>3. Disjoint'
    BY <2>1 DEF OutboxInv, Disjoint
  <2>4. \A b \in Requests : SentOK(b)'
    BY <2>1 DEF OutboxInv, SentOK, Accepted
  <2> QED BY <2>1, <2>2, <2>3, <2>4 DEF OutboxInv
<1>4. ASSUME NEW p \in Pollers, Out!CommitBatch(p) PROVE OutboxInv' /\ Rows
  <2>1. /\ batch[p] = delivered[p] \cup refused[p]
        /\ thread'[p] = "sleeping" /\ batch'[p] = {} /\ delivered'[p] = {} /\ refused'[p] = {}
        /\ \A q \in Pollers \ {p} :
             UNCHANGED <<thread[q], batch[q], delivered[q], refused[q]>>
        /\ UNCHANGED <<sent, crashes, dbErrors>>
    BY <1>4 DEF Out!CommitBatch, Out!Release, Out!TypeOK
  <2>2. \A a \in Requests :
          /\ a \in delivered[p] => outbox'[a] = "PROCESSED"
          /\ a \in refused[p] \ delivered[p] => outbox'[a] = "FAILED"
          /\ a \notin batch[p] => outbox'[a] = outbox[a]
    <3>1. TAKE a \in Requests
    <3>2. outbox'[a] = CASE a \in delivered[p] -> "PROCESSED"
                         [] a \in refused[p]   -> "FAILED"
                         [] OTHER              -> outbox[a]
      BY <1>4 DEF Out!CommitBatch
    <3>3. CASE a \in delivered[p]
      <4>1. a \notin refused[p]
        BY <3>3 DEF OutboxInv, BatchOK
      <4> QED BY <2>1, <3>2, <3>3, <4>1
    <3>4. CASE a \in refused[p] \ delivered[p]
      BY <2>1, <3>2, <3>4
    <3>5. CASE a \notin delivered[p] \cup refused[p]
      BY <2>1, <3>2, <3>5
    <3> QED BY <3>3, <3>4, <3>5
  <2>3. \A a \in batch[p] : outbox[a] \in {"PENDING", "FAILED"}
    BY DEF OutboxInv, BatchOK, Out!Undelivered
  <2>4. Rows
    BY <2>1, <2>2, <2>3
  <2>5. \A q \in Pollers \ {p} : batch[q] \cap batch[p] = {}
    BY DEF OutboxInv, Disjoint
  <2>6. \A q \in Pollers : BatchOK(q)'
    BY <2>1, <2>2, <2>5 DEF OutboxInv, BatchOK, Out!Undelivered
  <2>7. Disjoint'
    BY <2>1 DEF OutboxInv, Disjoint
  <2>8. \A a \in Requests : Accepted(a)' <=> Accepted(a)
    BY <2>1, <2>2, <2>3 DEF Accepted
  <2>9. \A a \in Requests : SentOK(a)'
    BY <2>1, <2>4, <2>8 DEF OutboxInv, SentOK
  <2> QED BY <2>4, <2>6, <2>7, <2>9 DEF OutboxInv
<1>5. ASSUME NEW p \in Pollers, Out!WorkerRestarts(p) PROVE OutboxInv' /\ Rows
  <2>1. /\ thread[p] # "sending"
        /\ \A q \in Pollers \ {p} : thread'[q] = thread[q]
        /\ UNCHANGED <<outbox, sent, batch, delivered, refused, crashes, dbErrors>>
    BY <1>5 DEF Out!WorkerRestarts, Out!TypeOK
  <2> QED BY <2>1 DEF OutboxInv, BatchOK, Disjoint, SentOK, Accepted, Out!Undelivered
<1>6. ASSUME NEW p \in Pollers, Out!ThreadDies(p) PROVE OutboxInv' /\ Rows
  <2>1. crashes' = crashes /\ dbErrors' = dbErrors + 1 /\ crashes \in Nat /\ dbErrors \in Nat
    BY <1>6 DEF Out!ThreadDies, Out!TypeOK
  <2> QED BY <1>6, <2>1, RolledBack DEF Out!ThreadDies
<1>7. ASSUME NEW p \in Pollers, Out!WorkerCrashes(p) PROVE OutboxInv' /\ Rows
  <2>1. crashes' = crashes + 1 /\ dbErrors' = dbErrors /\ crashes \in Nat /\ dbErrors \in Nat
    BY <1>7 DEF Out!WorkerCrashes, Out!TypeOK
  <2> QED BY <1>7, <2>1, RolledBack DEF Out!WorkerCrashes
<1> QED BY <1>1, <1>2, <1>3, <1>4, <1>5, <1>6, <1>7 DEF Out!Next, Out!Live, Out!Poll

-----------------------------------------------------------------------------
(* The two together                                                        *)

(* At first there are no applications, no rows and no batches.             *)
LEMMA DeliveryInit == Init => TypeOK /\ DeliveryInv
<1> SUFFICES ASSUME Init PROVE TypeOK /\ DeliveryInv
  OBVIOUS
<1> USE DEF Init, In!Init, Out!PollersInit
<1>1. TypeOK
  BY DeliveryAssumption DEF TypeOK, In!TypeOK, Out!TypeOK, In!Steps
<1>2. IntakeInv
  BY DEF IntakeInv, TablesOK, RecordsName, OnRecord, Cached, Inserting, RequestOK, InHand,
         Truthful, Justified, In!Key
<1>3. OutboxInv
  BY DEF OutboxInv, BatchOK, Disjoint, SentOK, Accepted
<1>4. Queued
  BY DEF Queued
<1> QED BY <1>1, <1>2, <1>3, <1>4 DEF DeliveryInv

(* The intake only ever adds a row, of an application that had none.       *)
LEMMA IntakeAndOutbox ==
  ASSUME TypeOK, DeliveryInv, In!Next, UNCHANGED pollers
  PROVE  TypeOK' /\ DeliveryInv'
<1> USE DEF TypeOK, DeliveryInv, pollers
<1>1. None \notin In!Response /\ None \notin Requests
  BY DeliveryAssumption DEF In!Response
<1>2. In!TypeOK' /\ IntakeInv'
  BY <1>1, IntakeType, IntakeStep
<1>3. \/ UNCHANGED <<outbox, applications>>
      \/ \E r \in Requests : /\ outbox[r] = "none"
                             /\ outbox' = [outbox EXCEPT ![r] = "PENDING"]
                             /\ applications' = applications \cup {r}
  <2>1. ASSUME NEW r \in Requests, In!Commit(r)
        PROVE  /\ outbox[r] = "none"
               /\ outbox' = [outbox EXCEPT ![r] = "PENDING"]
               /\ applications' = applications \cup {r}
    BY <1>1, <2>1, CommitKeeps DEF In!Commit, Queued
  <2> QED BY <2>1 DEF In!Next, In!Handle, In!GetCache, In!GetRecord, In!Insert, In!GetAfterRace,
                      In!SetCache, In!LoseRequest, In!CacheExpires, In!tables
<1>4. Out!TypeOK'
  BY <1>2 DEF In!TypeOK, Out!TypeOK
<1>5. CASE UNCHANGED <<outbox, applications>>
  BY <1>2, <1>4, <1>5 DEF OutboxInv, BatchOK, Disjoint, SentOK, Accepted, Queued, Out!Undelivered
<1>6. ASSUME NEW r \in Requests, outbox[r] = "none", outbox' = [outbox EXCEPT ![r] = "PENDING"],
             applications' = applications \cup {r}
      PROVE  TypeOK' /\ DeliveryInv'
  <2>1. outbox'[r] = "PENDING" /\ \A a \in Requests \ {r} : outbox'[a] = outbox[a]
    BY <1>6 DEF Out!TypeOK
  <2>2. \A p \in Pollers : BatchOK(p)'
    BY <2>1 DEF OutboxInv, BatchOK, Out!Undelivered
  <2>3. \A a \in Requests : Accepted(a)' <=> Accepted(a)
    BY <1>6, <2>1 DEF Accepted
  <2>4. \A a \in Requests : SentOK(a)'
    BY <2>1, <2>3 DEF OutboxInv, SentOK
  <2>5. OutboxInv'
    BY <2>2, <2>4 DEF OutboxInv, Disjoint
  <2>6. Queued'
    BY <1>6, <2>1 DEF Queued
  <2> QED BY <1>2, <1>4, <2>5, <2>6
<1> QED BY <1>3, <1>5, <1>6

(* The pollers leave the intake alone, and every row in its place.         *)
LEMMA PollersAndIntake ==
  ASSUME TypeOK, DeliveryInv, Out!Next, UNCHANGED api
  PROVE  TypeOK' /\ DeliveryInv'
<1> USE DEF TypeOK, DeliveryInv, api
<1>1. Out!TypeOK'
  BY DeliveryAssumption, PollerType
<1>2. OutboxInv' /\ \A a \in Requests : outbox'[a] = "none" <=> outbox[a] = "none"
  BY OutboxStep
<1>3. In!TypeOK'
  BY <1>1 DEF In!TypeOK, Out!TypeOK
<1>4. IntakeInv'
  BY DEF IntakeInv, TablesOK, RecordsName, OnRecord, Cached, Inserting, RequestOK, InHand,
         Truthful, Justified, In!Key, In!Payload
<1>5. Queued'
  BY <1>2 DEF Queued
<1> QED BY <1>1, <1>2, <1>3, <1>4, <1>5

(* Every step of the composition keeps the types and the invariant.        *)
LEMMA DeliveryStep ==
  ASSUME TypeOK, DeliveryInv, [Next]_vars
  PROVE  TypeOK' /\ DeliveryInv'
<1>1. CASE UNCHANGED vars
  BY <1>1 DEF vars, api, pollers, TypeOK, In!TypeOK, Out!TypeOK, DeliveryInv, IntakeInv, TablesOK,
              RecordsName, OnRecord, Cached, Inserting, RequestOK, InHand, Truthful, Justified,
              In!Key, In!Payload, OutboxInv, BatchOK, Disjoint, SentOK, Accepted, Queued,
              Out!Undelivered
<1> QED BY <1>1, IntakeAndOutbox, PollersAndIntake DEF Next

(* The inductive invariant of the composition.                             *)
LEMMA DeliveryInvariant == Spec => [](TypeOK /\ DeliveryInv)
<1>1. Init => TypeOK /\ DeliveryInv
  BY DeliveryInit
<1>2. (TypeOK /\ DeliveryInv) /\ [Next]_vars => (TypeOK /\ DeliveryInv)'
  BY DeliveryStep
<1> QED BY <1>1, <1>2, PTL DEF Spec

-----------------------------------------------------------------------------
(* Theorems                                                                *)

(* Every reachable state is well-typed; in particular an answer always     *)
(* carries an application or nothing, never half a stored response.        *)
THEOREM TypeCorrect == Spec => []TypeOK
BY DeliveryInvariant, PTL

(* However many requests of a key race, retry, die or find the cache       *)
(* empty, one application is created for it: the wait on the other's       *)
(* uncommitted record and the unique key give this, not the cache.         *)
THEOREM OneApplicationPerKeyHolds == Spec => []OneApplicationPerKey
<1>1. DeliveryInv => OneApplicationPerKey
  BY DEF DeliveryInv, IntakeInv, TablesOK, OnRecord, OneApplicationPerKey,
         In!OneApplicationPerKey
<1> QED BY <1>1, DeliveryInvariant, PTL

(* A client that is told of an application finds it committed, under its   *)
(* own key and for its own payload.                                        *)
THEOREM AnswersAreTrueHolds == Spec => []AnswersAreTrue
<1>1. DeliveryInv => AnswersAreTrue
  BY DEF DeliveryInv, IntakeInv, RequestOK, Truthful, AnswersAreTrue, In!AnswersAreTrue
<1> QED BY <1>1, DeliveryInvariant, PTL

(* A 409 is given to a key that is taken for another payload, and a lost   *)
(* race is always resolved: the branch that finds no winner is dead code.  *)
THEOREM ConflictsAreRealHolds == Spec => []ConflictsAreReal
<1>1. DeliveryInv => ConflictsAreReal
  BY DEF DeliveryInv, IntakeInv, RequestOK, Justified, ConflictsAreReal, In!ConflictsAreReal
<1> QED BY <1>1, DeliveryInvariant, PTL

(* No row is sent by two pollers: a processed row has been sent, and more  *)
(* than once only as often as a worker crashed or a transaction failed.    *)
THEOREM SentOnceHolds == Spec => []SentOnce
<1>1. DeliveryInv => SentOnce
  BY DEF DeliveryInv, OutboxInv, SentOK, Accepted, SentOnce, Out!SentOnce
<1> QED BY <1>1, DeliveryInvariant, PTL

(* An application is committed exactly when its message is waiting in the  *)
(* outbox or has been sent.                                                *)
THEOREM NothingLostHolds == Spec => []NothingLost
<1>1. TypeOK /\ DeliveryInv => NothingLost
  BY DEF DeliveryInv, OutboxInv, SentOK, Accepted, Queued, NothingLost, TypeOK, Out!TypeOK
<1> QED BY <1>1, DeliveryInvariant, PTL
=============================================================================
