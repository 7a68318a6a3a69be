------------------------ MODULE ApplicationLifecycle ------------------------
(***************************************************************************)
(* What a reader of the loan_applications table may rely on: the status    *)
(* and the decision of an application, and how they move, with no word     *)
(* about workers, messages, locks or audit rows.  LoanProcessing           *)
(* implements it.                                                          *)
(*                                                                         *)
(* An application is begun once, decided at most once, and may at any time *)
(* be escalated to a human by a system error.  Escalation is final: no     *)
(* later step gives the application an automatic decision.                 *)
(***************************************************************************)

CONSTANTS
  Apps,       \* the loan applications
  None        \* "no decision yet" (a NULL column)

VARIABLES
  status,     \* loan_applications.status
  decision    \* loan_applications.decision

lifecycle == <<status, decision>>

Decisions == {"APPROVE", "DECLINE", "NEEDS_REVIEW"}
Statuses  == {"PENDING", "PROCESSING", "COMPLETED", "MANUAL_REVIEW"}
Terminal  == {"COMPLETED", "MANUAL_REVIEW"}

(* Only NEEDS_REVIEW leaves the automatic path.                            *)
StatusFor(d) == IF d = "NEEDS_REVIEW" THEN "MANUAL_REVIEW" ELSE "COMPLETED"

Init ==
  /\ status = [a \in Apps |-> "PENDING"]
  /\ decision = [a \in Apps |-> None]

Begin(a) ==
  /\ status[a] = "PENDING"
  /\ status' = [status EXCEPT ![a] = "PROCESSING"]
  /\ UNCHANGED decision

Decide(a, d) ==
  /\ status[a] = "PROCESSING"
  /\ status' = [status EXCEPT ![a] = StatusFor(d)]
  /\ decision' = [decision EXCEPT ![a] = d]

Escalate(a) ==
  /\ status' = [status EXCEPT ![a] = "MANUAL_REVIEW"]
  /\ decision' = [decision EXCEPT ![a] = "NEEDS_REVIEW"]

Next ==
  \E a \in Apps :
    \/ Begin(a)
    \/ \E d \in Decisions : Decide(a, d)
    \/ Escalate(a)

Spec == Init /\ [][Next]_lifecycle
=============================================================================
