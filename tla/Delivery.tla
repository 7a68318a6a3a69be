------------------------------ MODULE Delivery ------------------------------
(***************************************************************************)
(* From the client's POST to the message in the broker: Intake and Outbox  *)
(* over the outbox table they share.  An application is named after the    *)
(* request that creates it.                                                *)
(***************************************************************************)
EXTENDS Naturals, FiniteSets

CONSTANTS Requests, Keys, Payloads, None,
          Pollers, Limit, MaxSendFailures, MaxCrashes, MaxDbErrors

(* None, the absent row or key, is neither a request nor a record.        *)
ASSUME DeliveryAssumption ==
  /\ None \notin Requests \cup [app : Requests, payload : Payloads]
  /\ Limit \in Nat \ {0}
  /\ MaxSendFailures \in Nat
  /\ MaxCrashes \in Nat
  /\ MaxDbErrors \in Nat

VARIABLES applications, record, inserting, outbox, cache, input, pc, entry, answer,
          sent, thread, batch, delivered, refused, sendFailures, crashes, dbErrors

In  == INSTANCE Intake
Out == INSTANCE Outbox WITH Applications <- Requests

api     == <<applications, record, inserting, cache, input, pc, entry, answer>>
pollers == <<sent, thread, batch, delivered, refused, sendFailures, crashes, dbErrors>>
vars    == <<outbox, api, pollers>>

TypeOK == In!TypeOK /\ Out!TypeOK

Init == In!Init /\ Out!PollersInit

(* The API and the pollers take turns.                                     *)
Next ==
  \/ In!Next /\ UNCHANGED pollers
  \/ Out!Next /\ UNCHANGED api

Spec == Init /\ [][Next]_vars

(* A poller thread goes on, and a crashed worker is started again; what    *)
(* follows a commit does not depend on the API going on.                   *)
Fairness ==
  \A p \in Pollers : WF_vars(Out!Live(p) /\ UNCHANGED api)

FairSpec == Spec /\ Fairness

-----------------------------------------------------------------------------
(* Properties                                                              *)

(* A key of an HTTP client stands for one application, whatever races.     *)
OneApplicationPerKey == In!OneApplicationPerKey

(* A 201 or a 200 names a committed application of that very request.      *)
AnswersAreTrue == In!AnswersAreTrue

(* A 409 is given to a payload that really differs from the stored one.    *)
ConflictsAreReal == In!ConflictsAreReal

(* PROCESSED means sent, and sent again only after a crash or an error.    *)
SentOnce == Out!SentOnce

(* No committed application is without its processing intent: it waits in  *)
(* the outbox or its message has been sent.                                *)
NothingLost ==
  \A a \in Requests :
    a \in applications <=> outbox[a] \in {"PENDING", "FAILED"} \/ sent[a] > 0

(* Committed is processed: whether its client was answered or not, the     *)
(* message of a committed application reaches the broker.                  *)
EventuallySent ==
  \A a \in Requests : a \in applications ~> sent[a] > 0
=============================================================================
