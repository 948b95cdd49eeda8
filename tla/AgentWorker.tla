----------------------------- MODULE AgentWorker -----------------------------
(***************************************************************************)
(* The execution of agent runs: the enqueuing requests, the outbox         *)
(* publisher, the broker, the Python worker coroutines (worker.execute),   *)
(* the Java transactions behind their callbacks, the lease recovery        *)
(* scheduler, and the user who cancels a run or answers its question.      *)
(*                                                                         *)
(* A slot is one delivery being executed (a worker process has as many as  *)
(* its prefetch).  The slot and the Java request that serves its callback  *)
(* are separate actors: the client may give up on a request that goes on.  *)
(*                                                                         *)
(* A step is one database transaction, one broker operation, or one        *)
(* decision of a worker.  Up to MaxOverlaps times, the transaction of a    *)
(* heartbeat or of a completion commits on an attempt row that another     *)
(* transaction has changed since it read it, as REPEATABLE READ without    *)
(* row versions lets it.  (The other transactions that read before they    *)
(* lock are stopped by the unique event sequence of the run.)              *)
(***************************************************************************)
EXTENDS AgentRuns

CONSTANTS
  Kinds,        \* run types in play
  Slots,        \* deliveries that can be executed at once
  Answers,      \* requests to POST /agent-runs/{id}/answers, one use each
  NoRun,        \* no run
  RetryLimit,   \* the attempt_no from which a failure is final (3)
  MaxCrashes,   \* bound: worker processes and Java requests that stop midway
  MaxDisconnects, \* bound: broker connections lost under a working slot
  MaxDrops,     \* bound: calls that time out, or whose reply is lost
  MaxDuplicates,  \* bound: messages the publisher sends once more
  MaxLapses,    \* bound: leases that run out although their slot is alive
  MaxOverlaps   \* bound: transactions overtaken between read and write

RunKind == {"CONVERSATION", "CANDIDATE_POOL", "TOURNAMENT_REPORT"}

ASSUME WorkerAssumption ==
  /\ NoRun \notin Runs
  /\ Kinds \subseteq RunKind
  /\ RetryLimit \in Nat \ {0}
  /\ MaxCrashes \in Nat /\ MaxDisconnects \in Nat /\ MaxDrops \in Nat
  /\ MaxDuplicates \in Nat
  /\ MaxLapses \in Nat /\ MaxOverlaps \in Nat

VARIABLES
  kind,               \* agent_run.run_type
  outbox, ready, dead,
  pc,       \* where the coroutine of a slot is
  task,     \* the run of the message a slot works on
  lease,    \* the attempt it was granted, 0 if none
  holds,    \* whether the broker still counts the message as delivered to it
  request,  \* the Java request that serves a slot's final callback
  beat,     \* the Java request that serves a slot's heartbeat
  answer,   \* the answers requests
  faults    \* faults so far

Queue == INSTANCE TaskQueue WITH Tasks <- Runs

queueVars == <<outbox, ready, dead>>
slotVars == <<pc, task, lease, holds>>
requestVars == <<request, beat>>
vars == <<runVars, kind, queueVars, slotVars, requestVars, answer, faults>>

PC == {"idle", "claiming", "running", "calling", "failing",
       "settled", "returning", "rejecting"}
Endpoint == {"complete", "waiting", "complete-candidate"}
Stage == {"none", "asserted", "recorded"}
AnswerStage == {"unused", "checked", "resumed", "over"}

Idle == [run |-> NoRun, no |-> 0]
NoRequest == [run |-> NoRun, no |-> 0, stage |-> "none", endpoint |-> "complete"]

ControlTypeOK ==
  /\ kind \in [Runs -> Kinds]
  /\ pc \in [Slots -> PC]
  /\ task \in [Slots -> Runs \cup {NoRun}]
  /\ lease \in [Slots -> 0 .. MaxAttempts]
  /\ holds \in [Slots -> BOOLEAN]
  /\ request \in [Slots -> [run: Runs \cup {NoRun}, no: 0 .. MaxAttempts,
                            stage: Stage, endpoint: Endpoint]]
  /\ beat \in [Slots -> [run: Runs \cup {NoRun}, no: 0 .. MaxAttempts]]
  /\ answer \in [Answers -> [run: Runs \cup {NoRun}, stage: AnswerStage]]

FaultTypeOK ==
  faults \in [crash: 0 .. MaxCrashes, disconnect: 0 .. MaxDisconnects,
              drop: 0 .. MaxDrops, duplicate: 0 .. MaxDuplicates,
              lapse: 0 .. MaxLapses, overlap: 0 .. MaxOverlaps]

TypeOK == RunTypeOK /\ Queue!QueueTypeOK /\ ControlTypeOK /\ FaultTypeOK

Init ==
  /\ RunInit
  /\ Queue!QueueInit
  /\ kind \in [Runs -> Kinds]
  /\ pc = [w \in Slots |-> "idle"]
  /\ task = [w \in Slots |-> NoRun]
  /\ lease = [w \in Slots |-> 0]
  /\ holds = [w \in Slots |-> FALSE]
  /\ request = [w \in Slots |-> NoRequest]
  /\ beat = [w \in Slots |-> Idle]
  /\ answer = [a \in Answers |-> [run |-> NoRun, stage |-> "unused"]]
  /\ faults = [crash |-> 0, disconnect |-> 0, drop |-> 0,
              duplicate |-> 0, lapse |-> 0, overlap |-> 0]

-----------------------------------------------------------------------------
(* Fault budgets. *)
Crashes == faults.crash < MaxCrashes /\ faults' = [faults EXCEPT !.crash = @ + 1]
Disconnects ==
  faults.disconnect < MaxDisconnects /\ faults' = [faults EXCEPT !.disconnect = @ + 1]
Drops == faults.drop < MaxDrops /\ faults' = [faults EXCEPT !.drop = @ + 1]
Duplicates ==
  faults.duplicate < MaxDuplicates /\ faults' = [faults EXCEPT !.duplicate = @ + 1]
Lapses == faults.lapse < MaxLapses /\ faults' = [faults EXCEPT !.lapse = @ + 1]
Overlaps == faults.overlap < MaxOverlaps /\ faults' = [faults EXCEPT !.overlap = @ + 1]

-----------------------------------------------------------------------------
(* Enqueuing. *)

(* Conversations and reports save message, run, event and outbox row in    *)
(* one transaction.  The candidate pool request commits the run first and  *)
(* the outbox row in a transaction of its own.                             *)
Enqueue(r) ==
  /\ CreateQueued(r)
  /\ Queue!SetOutbox(r, IF kind[r] = "CANDIDATE_POOL" THEN "UNSAVED" ELSE "PENDING")
  /\ UNCHANGED <<kind, slotVars, requestVars, answer, faults>>

SaveOutbox(r) ==
  /\ outbox[r] = "UNSAVED"
  /\ Queue!SetOutbox(r, "PENDING")
  /\ UNCHANGED <<runVars, kind, slotVars, requestVars, answer, faults>>

EnqueuerCrashes(r) ==
  /\ outbox[r] = "UNSAVED"
  /\ Queue!SetOutbox(r, "NONE")
  /\ Crashes
  /\ UNCHANGED <<runVars, kind, slotVars, requestVars, answer>>

Publish(r) ==
  /\ Queue!Publish(r)
  /\ UNCHANGED <<runVars, kind, slotVars, requestVars, answer, faults>>

PublishUnrecorded(r) ==
  /\ Queue!PublishUnrecorded(r)
  /\ Duplicates
  /\ UNCHANGED <<runVars, kind, slotVars, requestVars, answer>>

-----------------------------------------------------------------------------
(* The worker coroutine. *)

Goto(w, l) == pc' = [pc EXCEPT ![w] = l]

Deliver(w, r) ==
  /\ pc[w] = "idle"
  /\ Queue!Take(r)
  /\ Goto(w, "claiming")
  /\ task' = [task EXCEPT ![w] = r]
  /\ lease' = [lease EXCEPT ![w] = 0]
  /\ holds' = [holds EXCEPT ![w] = TRUE]
  /\ UNCHANGED <<runVars, kind, requestVars, answer, faults>>

ClaimGranted(w) ==
  /\ pc[w] = "claiming"
  /\ Claim(task[w])
  /\ Goto(w, "running")
  /\ lease' = [lease EXCEPT ![w] = last[task[w]] + 1]
  /\ UNCHANGED <<kind, queueVars, task, holds, requestVars, answer, faults>>

(* 409: another delivery has the run, or it is over.  The message will be  *)
(* acknowledged.                                                           *)
ClaimRefused(w) ==
  /\ pc[w] = "claiming"
  /\ ~Claimable(task[w])
  /\ Goto(w, "settled")
  /\ UNCHANGED <<runVars, kind, queueVars, task, lease, holds, requestVars, answer, faults>>

(* The claim is lost on its way, or granted and the reply lost. *)
ClaimLost(w) ==
  /\ pc[w] = "claiming"
  /\ Claim(task[w]) \/ UNCHANGED runVars
  /\ Goto(w, "returning")
  /\ Drops
  /\ UNCHANGED <<kind, queueVars, task, lease, holds, requestVars, answer>>

(* The graph raises, or a progress callback does. *)
WorkFails(w) ==
  /\ pc[w] = "running"
  /\ Goto(w, "failing")
  /\ UNCHANGED <<runVars, kind, queueVars, task, lease, holds, requestVars, answer, faults>>

Endpoints(k) ==
  CASE k = "CONVERSATION"      -> {"complete", "waiting"}
    [] k = "CANDIDATE_POOL"    -> {"complete-candidate"}
    [] k = "TOURNAMENT_REPORT" -> {"complete"}

(* The graph has a result and the worker calls the endpoint for it; the    *)
(* Java request passes assertLease.  (Bound: a slot's earlier request is   *)
(* over by then.)                                                          *)
Call(w, e) ==
  /\ pc[w] = "running"
  /\ request[w] = NoRequest
  /\ Valid(task[w], lease[w])
  /\ request' = [request EXCEPT ![w] =
       [run |-> task[w], no |-> lease[w], stage |-> "asserted", endpoint |-> e]]
  /\ Goto(w, "calling")
  /\ UNCHANGED <<runVars, kind, queueVars, task, lease, holds, beat, answer, faults>>

CallTimesOut(w) ==
  /\ pc[w] = "calling"
  /\ Goto(w, "failing")
  /\ Drops
  /\ UNCHANGED <<runVars, kind, queueVars, task, lease, holds, requestVars, answer>>

(* retry callback, then nack.  A refusal raises out of the handler, which  *)
(* returns the message just the same; so does a lost call.                 *)
RetryAccepted(w) ==
  /\ pc[w] = "failing"
  /\ lease[w] < RetryLimit
  /\ Retry(task[w], lease[w])
  /\ Goto(w, "returning")
  /\ UNCHANGED <<kind, queueVars, task, lease, holds, requestVars, answer, faults>>

RetryRefused(w) ==
  /\ pc[w] = "failing"
  /\ lease[w] < RetryLimit
  /\ ~Retryable(task[w], lease[w])
  /\ Goto(w, "returning")
  /\ UNCHANGED <<runVars, kind, queueVars, task, lease, holds, requestVars, answer, faults>>

FailAccepted(w) ==
  /\ pc[w] = "failing"
  /\ lease[w] >= RetryLimit
  /\ Fail(task[w], lease[w])
  /\ Goto(w, "rejecting")
  /\ UNCHANGED <<kind, queueVars, task, lease, holds, requestVars, answer, faults>>

(* Mutant: the message is rejected although Java refused the failure. *)
FailRefusedRejects(w) ==
  /\ pc[w] = "failing"
  /\ lease[w] >= RetryLimit
  /\ ~Valid(task[w], lease[w])
  /\ Goto(w, "rejecting")
  /\ UNCHANGED <<runVars, kind, queueVars, task, lease, holds, requestVars, answer, faults>>

FailRefused(w) ==
  /\ pc[w] = "failing"
  /\ lease[w] >= RetryLimit
  /\ ~Valid(task[w], lease[w])
  /\ Goto(w, "returning")
  /\ UNCHANGED <<runVars, kind, queueVars, task, lease, holds, requestVars, answer, faults>>

FailureCallLost(w) ==
  /\ pc[w] = "failing"
  /\ \/ UNCHANGED runVars
     \/ lease[w] < RetryLimit /\ Retry(task[w], lease[w])
     \/ lease[w] >= RetryLimit /\ Fail(task[w], lease[w])
  /\ Goto(w, "returning")
  /\ Drops
  /\ UNCHANGED <<kind, queueVars, task, lease, holds, requestVars, answer>>

LeaveHandler(w) ==
  /\ Goto(w, "idle")
  /\ task' = [task EXCEPT ![w] = NoRun]
  /\ lease' = [lease EXCEPT ![w] = 0]
  /\ holds' = [holds EXCEPT ![w] = FALSE]

(* On a connection that was lost the broker ignores the answer. *)
Ack(w) ==
  /\ pc[w] = "settled"
  /\ LeaveHandler(w)
  /\ UNCHANGED <<runVars, kind, queueVars, requestVars, answer, faults>>

Nack(w) ==
  /\ pc[w] = "returning"
  /\ IF holds[w] THEN Queue!Requeue(task[w]) ELSE UNCHANGED queueVars
  /\ LeaveHandler(w)
  /\ UNCHANGED <<runVars, kind, requestVars, answer, faults>>

Reject(w) ==
  /\ pc[w] = "rejecting"
  /\ IF holds[w] THEN Queue!DeadLetter(task[w]) ELSE UNCHANGED queueVars
  /\ LeaveHandler(w)
  /\ UNCHANGED <<runVars, kind, requestVars, answer, faults>>

(* The process dies: the broker requeues what was not acknowledged.  What  *)
(* Java is doing for the slot goes on.                                     *)
WorkerCrashes(w) ==
  /\ pc[w] # "idle"
  /\ IF holds[w] THEN Queue!Requeue(task[w]) ELSE UNCHANGED queueVars
  /\ LeaveHandler(w)
  /\ Crashes
  /\ UNCHANGED <<runVars, kind, requestVars, answer>>

(* The connection is lost and restored: the message is requeued while the  *)
(* coroutine goes on with it.                                              *)
ConnectionLost(w) ==
  /\ holds[w]
  /\ Queue!Requeue(task[w])
  /\ holds' = [holds EXCEPT ![w] = FALSE]
  /\ Disconnects
  /\ UNCHANGED <<runVars, kind, pc, task, lease, requestVars, answer>>

-----------------------------------------------------------------------------
(* The Java side of the final callbacks. *)

(* Free the request; its caller, if it still waits, goes to l. *)
Respond(w, l) ==
  /\ request' = [request EXCEPT ![w] = NoRequest]
  /\ pc' = IF pc[w] = "calling" THEN [pc EXCEPT ![w] = l] ELSE pc
  /\ UNCHANGED <<kind, queueVars, task, lease, holds, beat, answer>>

At(w, s, e) == request[w].stage = s /\ request[w].endpoint = e

(* complete and complete-report: one transaction. *)
CompleteCommits(w) ==
  /\ At(w, "asserted", "complete")
  /\ Complete(request[w].run, request[w].no)
  /\ IF Valid(request[w].run, request[w].no) THEN UNCHANGED faults ELSE Overlaps
  /\ Respond(w, "settled")

CompleteRollsBack(w) ==
  /\ At(w, "asserted", "complete")
  /\ ~Valid(request[w].run, request[w].no)
  /\ Respond(w, "failing")
  /\ UNCHANGED <<runVars, faults>>

Recorded(w) ==
  /\ request' = [request EXCEPT ![w].stage = "recorded"]
  /\ UNCHANGED <<kind, queueVars, slotVars, beat, answer, faults>>

(* waiting and complete-candidate record the outcome in a transaction that *)
(* knows nothing of the lease, and finish the lease in a third one.        *)
WaitingRecorded(w) ==
  /\ At(w, "asserted", "waiting")
  /\ MarkWaitingForUser(request[w].run)
  /\ Recorded(w)

CandidateRecorded(w) ==
  /\ At(w, "asserted", "complete-candidate")
  /\ CompleteRun(request[w].run)
  /\ Recorded(w)

LeaseFinished(w) ==
  /\ request[w].stage = "recorded"
  /\ FinishLease(request[w].run, request[w].no)
  /\ Respond(w, "settled")
  /\ UNCHANGED faults

LeaseLost(w) ==
  /\ request[w].stage = "recorded"
  /\ ~Valid(request[w].run, request[w].no)
  /\ Respond(w, "failing")
  /\ UNCHANGED <<runVars, faults>>

(* The request ends between two transactions: the Java process stops, or   *)
(* the next transaction is rejected.                                       *)
RequestDies(w) ==
  /\ request[w] # NoRequest
  /\ Respond(w, "failing")
  /\ Crashes
  /\ UNCHANGED runVars

-----------------------------------------------------------------------------
(* Heartbeats, the clock and the lease recovery scheduler. *)

(* A heartbeat that is not overtaken changes nothing the model sees: it    *)
(* keeps the lease from lapsing.  These are the read and the write of one  *)
(* that may be.                                                            *)
HeartbeatReads(w) ==
  /\ Overlaps
  /\ beat[w] = Idle
  /\ lease[w] # 0
  /\ Valid(task[w], lease[w])
  /\ beat' = [beat EXCEPT ![w] = [run |-> task[w], no |-> lease[w]]]
  /\ UNCHANGED <<runVars, kind, queueVars, slotVars, request, answer>>

HeartbeatWrites(w) ==
  /\ beat[w] # Idle
  /\ WriteHeartbeat(beat[w].run, beat[w].no)
  /\ beat' = [beat EXCEPT ![w] = Idle]
  /\ UNCHANGED <<kind, queueVars, slotVars, request, answer, faults>>

(* A slot still sends heartbeats for attempt n of r. *)
Pulsing(r, n) == \E w \in Slots : task[w] = r /\ lease[w] = n

(* The holder is gone and the lease runs out. *)
AbandonedLeaseLapses(r, n) ==
  /\ ~Pulsing(r, n)
  /\ LeaseLapses(r, n)
  /\ UNCHANGED <<kind, queueVars, slotVars, requestVars, answer, faults>>

(* The heartbeat task has died of an error, or is late by 30 seconds. *)
HeldLeaseLapses(r, n) ==
  /\ Pulsing(r, n)
  /\ LeaseLapses(r, n)
  /\ Lapses
  /\ UNCHANGED <<kind, queueVars, slotVars, requestVars, answer>>

Recover(r, n) ==
  /\ ExpireLease(r, n)
  /\ UNCHANGED <<kind, queueVars, slotVars, requestVars, answer, faults>>

-----------------------------------------------------------------------------
(* The user. *)

UserCancels(r) ==
  /\ Cancel(r)
  /\ UNCHANGED <<kind, queueVars, slotVars, requestVars, answer, faults>>

AnswerMoves(a, r, l) == answer' = [answer EXCEPT ![a] = [run |-> r, stage |-> l]]

(* The request finds the run waiting for an answer ... *)
AnswerChecks(a, r) ==
  /\ answer[a].stage = "unused"
  /\ status[r] = "WAITING_FOR_USER"
  /\ AnswerMoves(a, r, "checked")
  /\ UNCHANGED <<runVars, kind, queueVars, slotVars, requestVars, faults>>

(* ... stores the answer, sets the run RUNNING and calls the Agent service *)
(* itself: no attempt, no message ...                                      *)
AnswerResumes(a) ==
  /\ answer[a].stage = "checked"
  /\ Resume(answer[a].run)
  /\ AnswerMoves(a, answer[a].run, "resumed")
  /\ UNCHANGED <<kind, queueVars, slotVars, requestVars, faults>>

(* ... and completes the run when the service has answered. *)
AnswerCompletes(a) ==
  /\ answer[a].stage = "resumed"
  /\ CompleteRun(answer[a].run)
  /\ AnswerMoves(a, answer[a].run, "over")
  /\ UNCHANGED <<kind, queueVars, slotVars, requestVars, faults>>

(* Any exception ends the request where it is. *)
AnswerFails(a) ==
  /\ answer[a].stage \in {"checked", "resumed"}
  /\ AnswerMoves(a, answer[a].run, "over")
  /\ Crashes
  /\ UNCHANGED <<runVars, kind, queueVars, slotVars, requestVars>>

-----------------------------------------------------------------------------
RunStep(r) ==
  \/ Enqueue(r) \/ SaveOutbox(r) \/ EnqueuerCrashes(r)
  \/ Publish(r) \/ PublishUnrecorded(r)
  \/ UserCancels(r)

WorkerStep(w) ==
  \/ \E r \in Runs : Deliver(w, r)
  \/ ClaimGranted(w) \/ ClaimRefused(w) \/ ClaimLost(w)
  \/ WorkFails(w)
  \/ pc[w] = "running" /\ \E e \in Endpoints(kind[task[w]]) : Call(w, e)
  \/ CallTimesOut(w)
  \/ RetryAccepted(w) \/ RetryRefused(w)
  \/ FailAccepted(w) \/ FailRefused(w) \/ FailureCallLost(w)
  \/ Ack(w) \/ Nack(w) \/ Reject(w)
  \/ WorkerCrashes(w) \/ ConnectionLost(w)

RequestStep(w) ==
  \/ CompleteCommits(w) \/ CompleteRollsBack(w)
  \/ WaitingRecorded(w) \/ CandidateRecorded(w)
  \/ LeaseFinished(w) \/ LeaseLost(w)
  \/ RequestDies(w)
  \/ HeartbeatReads(w) \/ HeartbeatWrites(w)

LeaseStep(r, n) ==
  AbandonedLeaseLapses(r, n) \/ HeldLeaseLapses(r, n) \/ Recover(r, n)

AnswerStep(a) ==
  \/ \E r \in Runs : AnswerChecks(a, r)
  \/ AnswerResumes(a) \/ AnswerCompletes(a) \/ AnswerFails(a)

Next ==
  \/ \E r \in Runs : RunStep(r)
  \/ \E w \in Slots : WorkerStep(w) \/ RequestStep(w)
  \/ \E r \in Runs, n \in AttemptNo : LeaseStep(r, n)
  \/ \E a \in Answers : AnswerStep(a)

Spec == Init /\ [][Next]_vars

-----------------------------------------------------------------------------
(* Safety. *)

(* At most one attempt of a run can hold a lease, the newest one, and none *)
(* can while the run is queued or after the user has stopped it: that is   *)
(* what makes a lease token a fencing token.                               *)
LeaseDiscipline ==
  \A r \in Runs, n \in AttemptNo : RowRunning(r, n) =>
    /\ n = last[r]
    /\ status[r] \notin {"NEW", "QUEUED", "CANCELLED"}

(* A run that is RUNNING always has someone who can move it: an attempt    *)
(* the recovery scheduler will see, or an answers request at work.         *)
RunningIsRecoverable ==
  \A r \in Runs : status[r] = "RUNNING" =>
    \/ \E n \in AttemptNo : RowRunning(r, n)
    \/ \E a \in Answers : answer[a] = [run |-> r, stage |-> "resumed"]

(* A slot that executes r has its message, and will not lose it. *)
Carries(w, r) ==
  /\ task[w] = r /\ holds[w]
  /\ pc[w] \in {"claiming", "running", "calling", "failing", "returning"}

(* Somebody will bring r to a worker again. *)
HasTicket(r) ==
  \/ outbox[r] \in {"UNSAVED", "PENDING"}
  \/ ready[r] > 0
  \/ \E w \in Slots : Carries(w, r)

(* The recovery scheduler took r from the attempt that was last made. *)
TakenBack(r) == last[r] > 0 /\ attempts[r][last[r]] = "EXPIRED"

(* A retry never loses the task: a run that is queued still has its        *)
(* message, whatever its earlier attempts went through, unless it is the   *)
(* recovery scheduler that queued it, or a connection was lost: then it    *)
(* can be lost in this code, as the run lost_task shows of the first.      *)
RetryKeepsTicket ==
  faults.disconnect = 0 =>
    \A r \in Runs : status[r] = "QUEUED" /\ ~TakenBack(r) => HasTicket(r)

Happened(r, e) == \E i \in 1 .. Len(outcome[r]) : outcome[r][i] = e

(* A message is dead-lettered only for a run whose failure was published. *)
DeadLetterIsFailure ==
  \A r \in Runs : dead[r] > 0 => Happened(r, "FAILED")

(* A status that ends the event stream is the last lifecycle event. *)
EventOf(s) ==
  CASE s = "COMPLETED"        -> "RESULT"
    [] s = "WAITING_FOR_USER" -> "CLARIFICATION_REQUESTED"
    [] OTHER                  -> s

StatusIsPublished ==
  \A r \in Runs : status[r] \in Terminal \cup {"WAITING_FOR_USER"} =>
    /\ outcome[r] # <<>>
    /\ outcome[r][Len(outcome[r])] = EventOf(status[r])

-----------------------------------------------------------------------------
(* Action properties. *)

(* The runs of the kind whose callbacks are single transactions implement  *)
(* the lifecycle their control plane promises.                             *)
ReportStatus == [r \in Runs |-> IF kind[r] = "TOURNAMENT_REPORT" THEN status[r] ELSE "NEW"]
ReportOutcome == [r \in Runs |-> IF kind[r] = "TOURNAMENT_REPORT" THEN outcome[r] ELSE <<>>]
Lifecycle == INSTANCE AgentRunLifecycle WITH status <- ReportStatus, outcome <- ReportOutcome
LifecycleSpec == Lifecycle!Spec

-----------------------------------------------------------------------------
(* Fairness: a live coroutine, a Java request and the schedulers go on; a  *)
(* message at the head of the queue is delivered to a free slot; a lease   *)
(* without heartbeats runs out.  Users, crashes and lost calls owe nothing.*)
WorkerProgress(w) ==
  \/ ClaimGranted(w) \/ ClaimRefused(w)
  \/ WorkFails(w)
  \/ pc[w] = "running" /\ \E e \in Endpoints(kind[task[w]]) : Call(w, e)
  \/ RetryAccepted(w) \/ RetryRefused(w) \/ FailAccepted(w) \/ FailRefused(w)
  \/ Ack(w) \/ Nack(w) \/ Reject(w)

RequestProgress(w) ==
  \/ CompleteCommits(w) \/ CompleteRollsBack(w)
  \/ WaitingRecorded(w) \/ CandidateRecorded(w)
  \/ LeaseFinished(w) \/ LeaseLost(w)

Fairness ==
  /\ \A r \in Runs :
       /\ WF_vars(SaveOutbox(r))
       /\ WF_vars(Publish(r))
       /\ SF_vars(\E w \in Slots : Deliver(w, r))
       /\ \A n \in AttemptNo :
            WF_vars(AbandonedLeaseLapses(r, n)) /\ WF_vars(Recover(r, n))
  /\ \A w \in Slots :
       /\ WF_vars(WorkerProgress(w))
       /\ WF_vars(RequestProgress(w))
       /\ WF_vars(HeartbeatWrites(w))
  /\ \A a \in Answers : WF_vars(AnswerResumes(a)) /\ WF_vars(AnswerCompletes(a))

FairSpec == Spec /\ Fairness

(* No run stays RUNNING for ever. *)
RunningEnds == \A r \in Runs : status[r] = "RUNNING" ~> status[r] # "RUNNING"

(* No run stays in the queue for ever. *)
QueuedIsServed == \A r \in Runs : status[r] = "QUEUED" ~> status[r] # "QUEUED"
=============================================================================
