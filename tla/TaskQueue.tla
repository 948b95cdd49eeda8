------------------------------ MODULE TaskQueue ------------------------------
(***************************************************************************)
(* How a run's task message reaches a worker: the row of                   *)
(* async_outbox_event, the RabbitMQ queue isq.agent-runs.v1 and its dead   *)
(* letter queue.  There is one outbox row per run, and nothing but         *)
(* OutboxPublisher ever sends to the queue.  Messages of one run are       *)
(* interchangeable, so the queue is a count of ready messages per run; a   *)
(* delivered message is held by its consumer (AgentWorker) until it is     *)
(* acknowledged, returned or rejected.                                     *)
(***************************************************************************)
EXTENDS Integers

CONSTANTS Tasks   \* one task per agent run

VARIABLES
  outbox,  \* async_outbox_event.status; "UNSAVED" while a request that has
           \* created the run has still to save the row
  ready,   \* messages of a task that wait in the queue
  dead     \* messages of a task in the dead letter queue

queueVars == <<outbox, ready, dead>>

OutboxState == {"NONE", "UNSAVED", "PENDING", "PUBLISHED"}

QueueTypeOK ==
  /\ outbox \in [Tasks -> OutboxState]
  /\ ready \in [Tasks -> Nat]
  /\ dead \in [Tasks -> Nat]

QueueInit ==
  /\ outbox = [t \in Tasks |-> "NONE"]
  /\ ready = [t \in Tasks |-> 0]
  /\ dead = [t \in Tasks |-> 0]

SetOutbox(t, s) ==
  /\ outbox' = [outbox EXCEPT ![t] = s]
  /\ UNCHANGED <<ready, dead>>

(* OutboxPublisher: sent, confirmed, and the row marked PUBLISHED. *)
Publish(t) ==
  /\ outbox[t] = "PENDING"
  /\ outbox' = [outbox EXCEPT ![t] = "PUBLISHED"]
  /\ ready' = [ready EXCEPT ![t] = @ + 1]
  /\ UNCHANGED dead

(* The broker has the message but the row stays PENDING: the confirm came  *)
(* too late, or the process stopped before the commit.                     *)
PublishUnrecorded(t) ==
  /\ outbox[t] = "PENDING"
  /\ ready' = [ready EXCEPT ![t] = @ + 1]
  /\ UNCHANGED <<outbox, dead>>

(* Mutant: a message is delivered that the queue does not have. *)
TakeAnyway(t) ==
  /\ ready' = [ready EXCEPT ![t] = @ - 1]
  /\ UNCHANGED <<outbox, dead>>

Take(t) ==
  /\ ready[t] > 0
  /\ ready' = [ready EXCEPT ![t] = @ - 1]
  /\ UNCHANGED <<outbox, dead>>

(* Mutant: nack without requeue. *)
Discard(t) == UNCHANGED queueVars

(* nack(requeue=True), and what the broker does when a consumer is gone. *)
Requeue(t) ==
  /\ ready' = [ready EXCEPT ![t] = @ + 1]
  /\ UNCHANGED <<outbox, dead>>

(* reject(requeue=False) *)
DeadLetter(t) ==
  /\ dead' = [dead EXCEPT ![t] = @ + 1]
  /\ UNCHANGED <<outbox, ready>>
=============================================================================
