------------------------------- MODULE Outbox -------------------------------
(***************************************************************************)
(* The outbox poller: one thread in every worker's main process, which     *)
(* locks a batch of undelivered rows (FOR UPDATE SKIP LOCKED), sends a     *)
(* task to the broker for each and commits the new statuses.               *)
(*                                                                         *)
(* Sending is not part of the transaction: what was sent before a crash    *)
(* stays sent, and the rows are sent again.  Which rows make a batch when  *)
(* there are more than Limit is left open (the code takes the oldest).     *)
(***************************************************************************)
EXTENDS Naturals, FiniteSets

CONSTANTS
  Applications,    \* applications that may have an outbox row
  Pollers,         \* workers, each with its poller thread
  Limit,           \* rows per batch
  MaxSendFailures, \* how often the broker refuses (a bound of the model)
  MaxCrashes,      \* how often a worker crashes (a bound of the model)
  MaxDbErrors      \* how often a poll's transaction fails (a bound of the model)

VARIABLES
  outbox,       \* the committed status of each application's row
  sent,         \* how many messages the broker has been given per application
  thread,       \* where each poller thread is
  batch,        \* the rows it has locked
  delivered,    \* those of them that send_task accepted
  refused,      \* those for which send_task raised
  sendFailures,
  crashes,
  dbErrors

poller == <<sent, thread, batch, delivered, refused, sendFailures, crashes, dbErrors>>
vars   == <<outbox, poller>>

TypeOK ==
  /\ outbox \in [Applications -> {"none", "PENDING", "FAILED", "PROCESSED"}]
  /\ sent \in [Applications -> Nat]
  /\ thread \in [Pollers -> {"sleeping", "sending", "crashed", "dead"}]
  /\ batch \in [Pollers -> SUBSET Applications]
  /\ delivered \in [Pollers -> SUBSET Applications]
  /\ refused \in [Pollers -> SUBSET Applications]
  /\ sendFailures \in 0..MaxSendFailures
  /\ crashes \in 0..MaxCrashes
  /\ dbErrors \in 0..MaxDbErrors

PollersInit ==
  /\ sent = [a \in Applications |-> 0]
  /\ thread = [p \in Pollers |-> "sleeping"]
  /\ batch = [p \in Pollers |-> {}]
  /\ delivered = [p \in Pollers |-> {}]
  /\ refused = [p \in Pollers |-> {}]
  /\ sendFailures = 0
  /\ crashes = 0
  /\ dbErrors = 0

-----------------------------------------------------------------------------
(* Helpers                                                                 *)

Undelivered == { a \in Applications : outbox[a] \in {"PENDING", "FAILED"} }

Locked == UNION { batch[p] : p \in Pollers }

LowerOf(m, n) == IF m < n THEN m ELSE n

(* The transaction of the poll ends, one way or another.                   *)
Release(p, next) ==
  /\ thread' = [thread EXCEPT ![p] = next]
  /\ batch' = [batch EXCEPT ![p] = {}]
  /\ delivered' = [delivered EXCEPT ![p] = {}]
  /\ refused' = [refused EXCEPT ![p] = {}]

-----------------------------------------------------------------------------
(* Mutant: rows another poller has locked are not skipped.                 *)
LockBatchShared(p) ==
  /\ thread[p] = "sleeping"
  /\ \E rows \in SUBSET Undelivered :
       /\ rows # {}
       /\ Cardinality(rows) = LowerOf(Limit, Cardinality(Undelivered))
       /\ batch' = [batch EXCEPT ![p] = rows]
  /\ thread' = [thread EXCEPT ![p] = "sending"]
  /\ UNCHANGED <<outbox, sent, delivered, refused, sendFailures, crashes, dbErrors>>

(* SELECT ... LIMIT FOR UPDATE SKIP LOCKED; an empty batch changes nothing.*)
LockBatch(p) ==
  /\ thread[p] = "sleeping"
  /\ \E rows \in SUBSET (Undelivered \ Locked) :
       /\ rows # {}
       /\ Cardinality(rows) = LowerOf(Limit, Cardinality(Undelivered \ Locked))
       /\ batch' = [batch EXCEPT ![p] = rows]
  /\ thread' = [thread EXCEPT ![p] = "sending"]
  /\ UNCHANGED <<outbox, sent, delivered, refused, sendFailures, crashes, dbErrors>>

SendTask(p, a) ==
  /\ thread[p] = "sending"
  /\ a \in batch[p] \ (delivered[p] \cup refused[p])
  /\ sent' = [sent EXCEPT ![a] = @ + 1]
  /\ delivered' = [delivered EXCEPT ![p] = @ \cup {a}]
  /\ UNCHANGED <<outbox, thread, batch, refused, sendFailures, crashes, dbErrors>>

(* send_task raises: the row will be FAILED, and taken again later.        *)
SendFails(p, a) ==
  /\ thread[p] = "sending"
  /\ a \in batch[p] \ (delivered[p] \cup refused[p])
  /\ sendFailures < MaxSendFailures
  /\ sendFailures' = sendFailures + 1
  /\ refused' = [refused EXCEPT ![p] = @ \cup {a}]
  /\ UNCHANGED <<outbox, sent, thread, batch, delivered, crashes, dbErrors>>

(* Mutant: the whole batch counts as processed.                            *)
CommitBatchBlindly(p) ==
  /\ thread[p] = "sending"
  /\ batch[p] = delivered[p] \cup refused[p]
  /\ outbox' = [a \in Applications |->
       IF a \in batch[p] THEN "PROCESSED" ELSE outbox[a]]
  /\ Release(p, "sleeping")
  /\ UNCHANGED <<sent, sendFailures, crashes, dbErrors>>

CommitBatch(p) ==
  /\ thread[p] = "sending"
  /\ batch[p] = delivered[p] \cup refused[p]
  /\ outbox' = [a \in Applications |->
       CASE a \in delivered[p] -> "PROCESSED"
         [] a \in refused[p]   -> "FAILED"
         [] OTHER              -> outbox[a]]
  /\ Release(p, "sleeping")
  /\ UNCHANGED <<sent, sendFailures, crashes, dbErrors>>

-----------------------------------------------------------------------------
(* A statement or the commit of the poll raises: nothing catches it, and   *)
(* the thread ends while its worker goes on.                               *)
ThreadDies(p) ==
  /\ thread[p] \in {"sleeping", "sending"}
  /\ dbErrors < MaxDbErrors
  /\ dbErrors' = dbErrors + 1
  /\ Release(p, "dead")
  /\ UNCHANGED <<outbox, sent, sendFailures, crashes>>

WorkerCrashes(p) ==
  /\ thread[p] # "crashed"
  /\ crashes < MaxCrashes
  /\ crashes' = crashes + 1
  /\ Release(p, "crashed")
  /\ UNCHANGED <<outbox, sent, sendFailures, dbErrors>>

(* Mutant: the worker comes back without its poller.                       *)
WorkerRestartsWithoutPoller(p) ==
  /\ thread[p] = "crashed"
  /\ thread' = [thread EXCEPT ![p] = "dead"]
  /\ UNCHANGED <<outbox, sent, batch, delivered, refused, sendFailures, crashes, dbErrors>>

(* worker_ready starts a new poller; only a restart does.                  *)
WorkerRestarts(p) ==
  /\ thread[p] = "crashed"
  /\ thread' = [thread EXCEPT ![p] = "sleeping"]
  /\ UNCHANGED <<outbox, sent, batch, delivered, refused, sendFailures, crashes, dbErrors>>

-----------------------------------------------------------------------------
Poll(p) ==
  \/ LockBatch(p)
  \/ \E a \in Applications : SendTask(p, a) \/ SendFails(p, a)
  \/ CommitBatch(p)

(* What goes on by itself; the two are never enabled together.             *)
Live(p) == Poll(p) \/ WorkerRestarts(p)

Next ==
  \E p \in Pollers : Live(p) \/ ThreadDies(p) \/ WorkerCrashes(p)

-----------------------------------------------------------------------------
(* Properties                                                              *)

(* A row that says PROCESSED has been sent, and as long as no worker       *)
(* crashes and no transaction fails it has been sent once: two pollers     *)
(* never send the same row.                                                *)
SentOnce ==
  \A a \in Applications :
    /\ outbox[a] = "PROCESSED" => sent[a] >= 1
    /\ sent[a] <= 1 + crashes + dbErrors
=============================================================================
