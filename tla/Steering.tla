------------------------------ MODULE Steering ------------------------------
(***************************************************************************)
(* One conversation whose runs the user steers: a message sent during a    *)
(* run waits for its end and becomes the next run, or is turned into an    *)
(* intervention, or the run is cancelled, or waits for an answer itself.   *)
(*                                                                         *)
(* A transaction that locks the agent_run row first is one step.  A        *)
(* request that reads before it locks is two, and keeps what it has read:  *)
(* the entities of its session are not read again under the lock.  What    *)
(* then stops it are the unique keys of the events and the messages, whose *)
(* numbers it computes from what it read.  The callback by which a worker  *)
(* reports its result lives on in the Java service when the lease it was   *)
(* called under ends.                                                      *)
(***************************************************************************)
EXTENDS Integers, Sequences, FiniteSets

CONSTANTS
  Keys,        \* client message ids of the messages sent during a run
  Answers,     \* answers requests, each sent once
  Attempts,    \* 3 attempts before a worker reports failure
  MaxRuns,     \* bound: runs of the conversation
  MaxFaults    \* bound: leases that lapse and restarts of the Java service

ASSUME SteeringAssumption ==
  /\ {Attempts, MaxRuns} \subseteq Nat \ {0}
  /\ MaxFaults \in Nat
  /\ 0 \notin Keys        \* 0 is None

Runs == 1 .. MaxRuns
None == 0

VARIABLES
  status,        \* agent_run.status
  followUp,      \* agent_run_follow_up by run
  intervention,  \* agent_run_intervention by run, at most one
  transcript,    \* the user's messages and the runs in conversation_message, in their order
  deleted,       \* is the conversation deleted?
  tries,         \* attempt_no of the last claim, counted up to Attempts
  work,          \* where the worker with the valid lease of a run is
  heard,         \* keys that the last attempt of a run was given
  callback,      \* the callback under way that reports a run's result; bound: one for each run
  fresh,         \* runs whose completion can still commit: as it read them are transcript and lease
  orphaned,      \* runs that the queue has no message for any more
  asked,         \* the request to intervene with a waiting message: its run, has it gone stale?
  cancelling,    \* runs that a cancel request has not dispatched yet; bound: one for each run
  cutOff,        \* runs whose cancel request a restart has ended there
  answering,     \* by answers request: its run and its next step
  faults

rows == <<status, followUp, intervention, transcript, deleted>>
worker == <<tries, work, heard, callback, fresh, orphaned>>
attempt == <<tries, work, heard, callback, orphaned>>
requests == <<asked, cancelling, cutOff, answering, faults>>
vars == <<rows, worker, requests>>

Active == {"QUEUED", "RUNNING"}
Ended == {"COMPLETED", "FAILED", "CANCELLED"}
Message == [from : {"user", "run"}, run : Runs \cup {None}, key : Keys \cup {None}]
Msg(from, run, key) == [from |-> from, run |-> run, key |-> key]

\* The rows, and where workers and requests are.
Status == {"NEW", "WAITING_FOR_USER"} \cup Active \cup Ended
FollowUp == [key : Keys \cup {None}, next : Runs \cup {None},
             state : {"NONE", "WAITING", "DISPATCHED", "INTERVENED"}]
Intervention == [key : Keys \cup {None}, state : {"NONE", "PENDING", "APPLIED"}]
Stage == {"none", "claimed", "deciding", "publishing", "calling", "failing"}
Callback == {"none", "complete", "waiting", "finish"}
Request == [run : Runs \cup {None}, stale : BOOLEAN]
Reply == [run : Runs \cup {None}, step : {"unsent", "read", "said", "resumed", "told", "done"}]

NoFollowUp == [key |-> None, state |-> "NONE", next |-> None]
NoIntervention == [key |-> None, state |-> "NONE"]
NotAsked == [run |-> None, stale |-> FALSE]

\* What a worker or a callback holds is a run that was started and does not wait in the queue.
HeldIsStarted ==
  \A r \in Runs : /\ work[r] # "none" => status[r] \notin {"NEW", "QUEUED"}
                  /\ callback[r] # "none" => status[r] # "NEW"

TypeOK ==
  /\ status \in [Runs -> Status] /\ followUp \in [Runs -> FollowUp]
  /\ intervention \in [Runs -> Intervention]
  /\ transcript \in Seq(Message) /\ deleted \in BOOLEAN
  /\ tries \in [Runs -> 0..Attempts] /\ heard \in [Runs -> SUBSET Keys] /\ fresh \subseteq Runs
  /\ work \in [Runs -> Stage] /\ callback \in [Runs -> Callback] /\ orphaned \subseteq Runs
  /\ HeldIsStarted
  /\ asked \in Request /\ cancelling \subseteq Runs /\ cutOff \subseteq Runs
  /\ answering \in [Answers -> Reply]
  /\ faults \in 0..MaxFaults

Init ==
  /\ status = [r \in Runs |-> IF r = 1 THEN "QUEUED" ELSE "NEW"]
  /\ followUp = [r \in Runs |-> NoFollowUp] /\ intervention = [r \in Runs |-> NoIntervention]
  /\ transcript = <<Msg("run", 1, None)>> /\ deleted = FALSE
  /\ tries = [r \in Runs |-> 0] /\ work = [r \in Runs |-> "none"]
  /\ heard = [r \in Runs |-> {}]
  /\ callback = [r \in Runs |-> "none"] /\ fresh = {} /\ orphaned = {}
  /\ asked = NotAsked /\ cancelling = {} /\ cutOff = {}
  /\ answering = [a \in Answers |-> [run |-> None, step |-> "unsent"]]
  /\ faults = 0

Said(k) == \E i \in DOMAIN transcript : transcript[i].from = "user" /\ transcript[i].key = k
Used == {k \in Keys : Said(k) \/ \E r \in Runs : followUp[r].key = k}

-----------------------------------------------------------------------------
(* What transactions share. *)

\* Messages are appended; every number read before is stale.
Appends(messages) ==
  /\ transcript' = transcript \o messages
  /\ fresh' = {}
  /\ asked' = IF asked.run = None THEN asked ELSE [asked EXCEPT !.stale = TRUE]

\* What the agent says, or an answer: only that it takes numbers matters.
Speaks == Appends(<<>>)

\* An event of run r is appended, and no message.
Emits(r) ==
  /\ asked' = IF asked.run = r THEN [asked EXCEPT !.stale = TRUE] ELSE asked
  /\ UNCHANGED <<transcript, fresh>>

\* conversations.enqueue throws for a deleted conversation.
DispatchThrows(r) == followUp[r].state = "WAITING" /\ deleted

NextRun == CHOOSE r \in Runs : status[r] = "NEW" /\ \A s \in Runs : s < r => status[s] # "NEW"

\* dispatch looks at the run's status.  (Mutants: it overlooks that a failed, or a stopped, run has ended.)
DispatchesUnlessFailed(r, end) == followUp[r].state = "WAITING" /\ end # "FAILED"
DispatchesUnlessStopped(r, end) == followUp[r].state = "WAITING" /\ end # "CANCELLED"
Dispatches(r, end) == followUp[r].state = "WAITING" /\ end \in Ended

\* The run ends as `end`, the agent speaking or not, and its waiting message becomes the next run.
EndsAs(r, end, speaking) ==
  IF Dispatches(r, end)
  THEN /\ status' = [status EXCEPT ![r] = end, ![NextRun] = "QUEUED"]
       /\ followUp' = [followUp EXCEPT ![r].state = "DISPATCHED", ![r].next = NextRun]
       /\ Appends(<<Msg("user", None, followUp[r].key), Msg("run", NextRun, None)>>)
  ELSE /\ status' = [status EXCEPT ![r] = end]
       /\ IF speaking THEN Speaks ELSE Emits(r)
       /\ UNCHANGED followUp

-----------------------------------------------------------------------------
(* The worker that holds the valid lease of run r. *)

\* The lease of run r ends; of the attempt only its number is left.  (Mutant: the lease lives on.)
KeepsLease(r, tried) == UNCHANGED <<tries, work>>
EndsLease(r, tried) ==
  /\ work' = [work EXCEPT ![r] = "none"] /\ tries' = [tries EXCEPT ![r] = tried]

Claim(r) ==
  /\ status[r] = "QUEUED" /\ r \notin orphaned
  /\ status' = [status EXCEPT ![r] = "RUNNING"]
  /\ tries' = [tries EXCEPT ![r] = IF @ < Attempts THEN @ + 1 ELSE @]
  /\ work' = [work EXCEPT ![r] = "claimed"] /\ heard' = [heard EXCEPT ![r] = {}]
  /\ Emits(r)
  /\ UNCHANGED <<followUp, intervention, deleted, callback, orphaned, cancelling, cutOff, answering, faults>>

\* interventionsAfter: applied ones too, for an attempt starts from 0.  (Mutant: pending ones.)
PendingOnly(r) == IF intervention[r].state = "PENDING" THEN {intervention[r].key} ELSE {}
Deliverable(r) == IF intervention[r].state # "NONE" THEN {intervention[r].key} ELSE {}

\* Before every decision the worker asks for interventions and marks them applied.
Poll(r) ==
  /\ work[r] \in {"claimed", "deciding"}
  /\ work' = [work EXCEPT ![r] = "deciding"]
  /\ heard' = [heard EXCEPT ![r] = @ \cup Deliverable(r)]
  /\ IF intervention[r].state = "PENDING"
     THEN intervention' = [intervention EXCEPT ![r].state = "APPLIED"] /\ Emits(r)
     ELSE UNCHANGED <<intervention, transcript, fresh, asked>>
  /\ UNCHANGED <<status, followUp, deleted, tries, callback, orphaned, cancelling, cutOff, answering, faults>>

\* The last decision is taken; or something raised.
Decides(r) ==
  /\ \/ work[r] = "deciding" /\ work' = [work EXCEPT ![r] = "publishing"]
     \/ work[r] \in {"claimed", "deciding", "publishing"} /\ work' = [work EXCEPT ![r] = "failing"]
  /\ UNCHANGED <<rows, tries, heard, callback, fresh, orphaned, requests>>

\* The worker reports its result and waits for the reply.
Calls(r, request) ==
  /\ work[r] = "publishing" /\ callback[r] = "none"
  /\ work' = [work EXCEPT ![r] = "calling"] /\ callback' = [callback EXCEPT ![r] = request]

\* complete asserts the lease, whereby its snapshot is taken, and then locks the run.
CompleteReads(r) ==
  /\ Calls(r, "complete") /\ fresh' = fresh \cup {r}
  /\ UNCHANGED <<rows, tries, heard, orphaned, requests>>

\* It looks neither at the run's status nor again at the attempt's, so that a cancel in between
\* does not stop it.
CompleteCommits(r) ==
  /\ callback[r] = "complete" /\ r \in fresh /\ ~DispatchThrows(r)
  /\ EndsAs(r, "COMPLETED", TRUE)
  /\ EndsLease(r, 0) /\ callback' = [callback EXCEPT ![r] = "none"]
  /\ UNCHANGED <<intervention, deleted, heard, orphaned, cancelling, cutOff, answering, faults>>

\* The result is a clarification: the first of three transactions asserts the lease,
WaitingReads(r) ==
  /\ Calls(r, "waiting")
  /\ UNCHANGED <<rows, tries, heard, fresh, orphaned, requests>>

\* the second makes the run wait, whatever has become of it,
WaitsForUser(r) ==
  /\ callback[r] = "waiting" /\ callback' = [callback EXCEPT ![r] = "finish"]
  /\ status' = [status EXCEPT ![r] = "WAITING_FOR_USER"] /\ Speaks
  /\ UNCHANGED <<followUp, intervention, deleted, tries, work, heard, orphaned, cancelling, cutOff,
                 answering, faults>>

\* and the third finishes the lease.
WaitingFinishes(r) ==
  /\ callback[r] = "finish" /\ callback' = [callback EXCEPT ![r] = "none"]
  /\ work[r] = "calling" /\ EndsLease(r, 0)
  /\ UNCHANGED <<rows, heard, fresh, orphaned, requests>>

\* A number is taken, the dispatch throws, or the lease is not valid any more: the transaction is
\* rolled back, and a worker that waits for the reply has failed.
CallbackFails(r) ==
  /\ \/ callback[r] = "complete" /\ (r \notin fresh \/ DispatchThrows(r) \/ work[r] # "calling")
     \/ callback[r] = "waiting"
     \/ callback[r] = "finish" /\ work[r] # "calling"
  /\ callback' = [callback EXCEPT ![r] = "none"] /\ fresh' = fresh \ {r}
  /\ work' = [work EXCEPT ![r] = IF @ = "calling" THEN "failing" ELSE @]
  /\ UNCHANGED <<rows, tries, heard, orphaned, requests>>

\* Only a running run is retried; its message goes back to the queue.
Retry(r) ==
  /\ work[r] = "failing" /\ tries[r] < Attempts /\ status[r] = "RUNNING"
  /\ status' = [status EXCEPT ![r] = "QUEUED"] /\ EndsLease(r, tries[r])
  /\ Emits(r)
  /\ UNCHANGED <<followUp, intervention, deleted, heard, callback, orphaned, cancelling, cutOff,
                 answering, faults>>

\* Any run is failed, unless the dispatch throws.
Fail(r) ==
  /\ work[r] = "failing" /\ tries[r] = Attempts /\ ~DispatchThrows(r)
  /\ EndsAs(r, "FAILED", FALSE)
  /\ EndsLease(r, 0)
  /\ UNCHANGED <<intervention, deleted, heard, callback, orphaned, cancelling, cutOff, answering, faults>>

\* A worker whose report of its failure is refused; it keeps its lease until it lapses.
Refused(r) ==
  work[r] = "failing" /\ IF tries[r] < Attempts THEN status[r] # "RUNNING" ELSE DispatchThrows(r)

\* expireLease, of a worker that is gone.  If its message was delivered again while the run was
\* running, the claim was refused and the message is acknowledged: nothing will claim the run.
Expires(r) ==
  /\ \/ work[r] # "none" /\ faults < MaxFaults /\ faults' = faults + 1
     \/ Refused(r) /\ UNCHANGED faults
  /\ EndsLease(r, tries[r]) /\ fresh' = fresh \ {r}
  /\ IF status[r] = "RUNNING"
     THEN /\ status' = [status EXCEPT ![r] = "QUEUED"] /\ orphaned' \in {orphaned, orphaned \cup {r}}
          /\ asked' = IF asked.run = r THEN [asked EXCEPT !.stale = TRUE] ELSE asked
     ELSE UNCHANGED <<status, orphaned, asked>>
  /\ UNCHANGED <<followUp, intervention, transcript, deleted, heard, callback, cancelling, cutOff,
                 answering>>

-----------------------------------------------------------------------------
(* The user, through the public API. *)

\* queue: a message sent while the run is active waits for its end.
Queue(r, k) ==
  /\ status[r] \in Active /\ followUp[r].state = "NONE" /\ k \notin Used /\ r < MaxRuns
  /\ followUp' = [followUp EXCEPT ![r].key = k, ![r].state = "WAITING"]
  /\ Emits(r)
  /\ UNCHANGED <<status, intervention, deleted, attempt, cancelling, cutOff, answering, faults>>

\* intervene: the message changes the run at once; the only one it takes.
Intervene(r, k) ==
  /\ status[r] \in Active /\ intervention[r].state = "NONE" /\ ~deleted /\ k \notin Used
  /\ intervention' = [intervention EXCEPT ![r] = [key |-> k, state |-> "PENDING"]]
  /\ Appends(<<Msg("user", None, k)>>)
  /\ UNCHANGED <<status, followUp, deleted, attempt, cancelling, cutOff, answering, faults>>

\* interveneWithQueuedMessage has read the run and its waiting message, without a lock.
AsksToIntervene(r) ==
  /\ status[r] \in Active /\ followUp[r].state = "WAITING" /\ asked = NotAsked
  /\ asked' = [run |-> r, stale |-> FALSE]
  /\ UNCHANGED <<rows, worker, cancelling, cutOff, answering, faults>>

\* The event and message numbers it writes are unique.  (Mutant: they are not.)
NoUniqueKeys(request) == TRUE
NumbersAreFree(request) == ~request.stale

Intervenes ==
  LET r == asked.run IN
  /\ r # None /\ NumbersAreFree(asked)
  /\ intervention[r].state = "NONE" /\ ~deleted
  /\ followUp' = [followUp EXCEPT ![r].state = "INTERVENED"]
  /\ intervention' = [intervention EXCEPT ![r] = [key |-> followUp[r].key, state |-> "PENDING"]]
  /\ transcript' = Append(transcript, Msg("user", None, followUp[r].key)) /\ fresh' = {}
  /\ asked' = NotAsked
  /\ UNCHANGED <<status, deleted, attempt, cancelling, cutOff, answering, faults>>

\* It is refused, or rolled back.
AskingFails ==
  /\ asked.run # None /\ asked' = NotAsked
  /\ UNCHANGED <<rows, worker, cancelling, cutOff, answering, faults>>

\* cancel: the first of three transactions; it leaves a run that has ended as it is, and the request
\* matters then only if a message waits.  The second marks a message of the transcript.
Cancel(r) ==
  /\ status[r] # "NEW" /\ (status[r] \in Ended => followUp[r].state = "WAITING")
  /\ r \notin cancelling /\ cancelling' = cancelling \cup {r}
  /\ IF status[r] \in Ended
     THEN UNCHANGED <<status, transcript, tries, work, fresh, asked>>
     ELSE status' = [status EXCEPT ![r] = "CANCELLED"] /\ EndsLease(r, 0) /\ Emits(r)
  /\ UNCHANGED <<followUp, intervention, deleted, heard, callback, orphaned, cutOff, answering, faults>>

\* The third dispatches the waiting message of a run that has ended.
CancelDispatches(r) ==
  /\ r \in cancelling /\ cancelling' = cancelling \ {r}
  /\ IF Dispatches(r, status[r]) /\ ~deleted
     THEN EndsAs(r, status[r], FALSE)
     ELSE UNCHANGED <<status, followUp, transcript, fresh, asked>>
  /\ UNCHANGED <<intervention, deleted, attempt, cutOff, answering, faults>>

DeleteConversation ==
  /\ ~deleted /\ deleted' = TRUE
  /\ UNCHANGED <<status, followUp, intervention, transcript, worker, requests>>

-----------------------------------------------------------------------------
(* answers: the reply to a clarification, five transactions without a lock; *)
(* the request itself runs the agent.                                       *)

Answering(a, step, next) ==
  /\ answering[a].step = step
  /\ answering' = [answering EXCEPT ![a].step = next]

AnswerReads(a, r) ==
  /\ status[r] = "WAITING_FOR_USER" /\ answering[a].step = "unsent"
  /\ answering' = [answering EXCEPT ![a] = [run |-> r, step |-> "read"]]
  /\ UNCHANGED <<rows, worker, asked, cancelling, cutOff, faults>>

AnswerSaid(a) ==
  /\ Answering(a, "read", "said") /\ ~deleted /\ Speaks
  /\ UNCHANGED <<status, followUp, intervention, deleted, attempt, cancelling, cutOff, faults>>

\* resume: whatever the run's status has become.
Resume(a) ==
  /\ Answering(a, "said", "resumed")
  /\ status' = [status EXCEPT ![answering[a].run] = "RUNNING"]
  /\ UNCHANGED <<followUp, intervention, transcript, deleted, worker, asked, cancelling, cutOff, faults>>

AnswerIsAnswered(a) ==
  /\ Answering(a, "resumed", "told") /\ Speaks
  /\ UNCHANGED <<status, followUp, intervention, deleted, attempt, cancelling, cutOff, faults>>

\* The run is completed, and nothing is dispatched.
AnswerCompletes(a) ==
  LET r == answering[a].run IN
  /\ Answering(a, "told", "done")
  /\ status' = [status EXCEPT ![r] = "COMPLETED"]
  /\ Emits(r)
  /\ UNCHANGED <<followUp, intervention, deleted, attempt, cancelling, cutOff, faults>>

AnswerFails(a) ==
  /\ answering[a].step \in {"read", "said", "resumed", "told"}
  /\ answering' = [answering EXCEPT ![a].step = "done"]
  /\ UNCHANGED <<rows, worker, asked, cancelling, cutOff, faults>>

\* The Java service restarts: every request is cut off where it is, and every callback, of which the
\* open transaction is rolled back.
Restart ==
  /\ faults < MaxFaults /\ faults' = faults + 1
  /\ asked' = NotAsked /\ cancelling' = {} /\ cutOff' = cutOff \cup cancelling
  /\ answering' = [a \in Answers |->
       IF answering[a].step = "unsent" THEN answering[a] ELSE [answering[a] EXCEPT !.step = "done"]]
  /\ callback' = [r \in Runs |-> "none"] /\ fresh' = {}
  /\ work' = [r \in Runs |-> IF work[r] = "calling" THEN "failing" ELSE work[r]]
  /\ UNCHANGED <<rows, tries, heard, orphaned>>

-----------------------------------------------------------------------------
WorkerStep(r) ==
  \/ Claim(r) \/ Poll(r) \/ Decides(r) \/ Retry(r) \/ Fail(r) \/ Expires(r)
  \/ CompleteReads(r) \/ CompleteCommits(r)
  \/ WaitingReads(r) \/ WaitsForUser(r) \/ WaitingFinishes(r) \/ CallbackFails(r)

UserStep(r) ==
  \/ \E k \in Keys : Queue(r, k) \/ Intervene(r, k)
  \/ AsksToIntervene(r) \/ Cancel(r)

AnswerStep(a) ==
  \/ \E r \in Runs : AnswerReads(a, r)
  \/ AnswerSaid(a) \/ Resume(a) \/ AnswerIsAnswered(a) \/ AnswerCompletes(a) \/ AnswerFails(a)

Next ==
  \/ \E r \in Runs : WorkerStep(r) \/ UserStep(r) \/ CancelDispatches(r)
  \/ \E a \in Answers : AnswerStep(a)
  \/ Intervenes \/ AskingFails \/ DeleteConversation \/ Restart

Spec == Init /\ [][Next]_vars

\* A queued run with a message in the queue is claimed, the worker of a run gets on with it and
\* stops polling, a callback ends, and so does a cancel request that nothing cuts off.
Proceeds(r) ==
  \/ Claim(r) \/ Decides(r) \/ Retry(r) \/ Fail(r) \/ Expires(r)
  \/ CompleteReads(r) \/ CompleteCommits(r) \/ WaitsForUser(r) \/ WaitingFinishes(r) \/ CallbackFails(r)
  \/ Poll(r) /\ work[r] = "claimed"
  \/ CancelDispatches(r)

FairSpec == Spec /\ \A r \in Runs : WF_vars(Proceeds(r))

-----------------------------------------------------------------------------
(* Correctness. *)

Positions(from, key) == {i \in DOMAIN transcript : transcript[i].from = from /\ transcript[i].key = key}
Answered(r) == \E a \in Answers : answering[a].run = r

\* A message sent during a run is used exactly once, however the request to intervene with it
\* races the end of the run: it waits and is not in the conversation yet, or it is there once,
\* right before the run it started, or as the intervention that this run was given.
UsedOnce ==
  /\ \A k \in Keys : Cardinality(Positions("user", k)) <= 1
  /\ \A r \in Runs : LET f == followUp[r] IN
       /\ f.state = "WAITING" => Positions("user", f.key) = {}
       /\ f.state = "DISPATCHED" =>
            /\ \A i \in Positions("user", f.key) : transcript[i + 1] = Msg("run", f.next, None)
            /\ Positions("user", f.key) # {} /\ intervention[r].key # f.key
       /\ f.state = "INTERVENED" => Positions("user", f.key) # {} /\ intervention[r].key = f.key

\* No ended run keeps a message waiting, unless its cancel request has yet to dispatch or was cut
\* off there, the conversation is deleted, or an answers request has ended the run.
NothingWaitsBehind ==
  \A r \in Runs : status[r] \in Ended /\ followUp[r].state = "WAITING" =>
    r \in cancelling \cup cutOff \/ deleted \/ Answered(r)

\* The attempt that completes a run, over a cancel too, has been given every intervention marked as
\* applied, also one that an earlier attempt of the run applied before it died.
AppliedWasHeard ==
  \A r \in Runs : callback[r] = "complete" /\ r \in fresh /\ intervention[r].state = "APPLIED" =>
    intervention[r].key \in heard[r]

\* A waiting message does not wait forever: its run ends and starts it, or it becomes an
\* intervention; unless the run awaits an answer or was given one, its cancel request was cut off,
\* the conversation is deleted, or the run was queued again after its message was acknowledged.
WaitingMessageMovesOn ==
  \A r \in Runs : followUp[r].state = "WAITING" ~>
    \/ followUp[r].state # "WAITING" \/ status[r] = "WAITING_FOR_USER" \/ Answered(r)
    \/ r \in cutOff \/ deleted \/ r \in orphaned
=============================================================================
