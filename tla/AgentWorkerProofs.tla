-------------------------- MODULE AgentWorkerProofs --------------------------
(***************************************************************************)
(* Theorems about AgentWorker, for every value of its constants.           *)
(***************************************************************************)
EXTENDS AgentWorker, SequenceTheorems, TLAPS

(* What the control state knows beyond its types: whoever is about to      *)
(* touch a run or an attempt has one, and a heartbeat is only ever split   *)
(* in two where transactions may be overtaken.                             *)
HoldersKnown ==
  /\ \A w \in Slots :
       /\ pc[w] = "claiming" => task[w] \in Runs
       /\ pc[w] \in {"running", "calling", "failing"} =>
            task[w] \in Runs /\ lease[w] \in AttemptNo
       /\ lease[w] # 0 => task[w] \in Runs
       /\ request[w].stage # "none" =>
            request[w].run \in Runs /\ request[w].no \in AttemptNo
       /\ beat[w] # Idle =>
            beat[w].run \in Runs /\ beat[w].no \in AttemptNo /\ MaxOverlaps > 0
  /\ \A a \in Answers :
       answer[a].stage \in {"checked", "resumed"} => answer[a].run \in Runs

TypeInv == TypeOK /\ HoldersKnown

(* The initial state is well typed. *)
LEMMA InitTypeInv == Init => TypeInv
  <1> SUFFICES ASSUME Init PROVE TypeInv
    OBVIOUS
  <1>1. RunTypeOK
    BY MaxAttemptsAssumption
    DEF Init, RunInit, RunTypeOK, Status, AttemptState, AttemptNo
  <1>2. Queue!QueueTypeOK
    BY DEF Init, Queue!QueueInit, Queue!QueueTypeOK, Queue!OutboxState
  <1>3. ControlTypeOK
    <2>1. NoRequest \in [run: Runs \cup {NoRun}, no: 0 .. MaxAttempts,
                        stage: Stage, endpoint: Endpoint]
      BY MaxAttemptsAssumption DEF NoRequest, Stage, Endpoint
    <2>2. Idle \in [run: Runs \cup {NoRun}, no: 0 .. MaxAttempts]
      BY MaxAttemptsAssumption DEF Idle
    <2> QED
      BY <2>1, <2>2, MaxAttemptsAssumption
      DEF Init, ControlTypeOK, PC, AnswerStage
  <1>4. FaultTypeOK
    BY WorkerAssumption DEF Init, FaultTypeOK
  <1>5. HoldersKnown
    BY DEF Init, HoldersKnown, Idle, NoRequest
  <1> QED
    BY <1>1, <1>2, <1>3, <1>4, <1>5 DEF TypeInv, TypeOK

(* An event appended to the log of a run leaves every log a sequence. *)
LEMMA EmitTyped ==
  ASSUME outcome \in [Runs -> Seq(OutcomeEvent)], NEW r, NEW e \in OutcomeEvent,
         Emit(r, e)
  PROVE  outcome' \in [Runs -> Seq(OutcomeEvent)]
  <1>1. outcome' = [x \in Runs |-> IF x = r THEN Append(outcome[x], e) ELSE outcome[x]]
    BY DEF Emit
  <1>2. \A s \in Seq(OutcomeEvent) : Append(s, e) \in Seq(OutcomeEvent)
    OBVIOUS
  <1> QED
    BY <1>1, <1>2

(* Every step keeps within the fault budgets. *)
LEMMA FaultStep ==
  ASSUME FaultTypeOK, Next
  PROVE  FaultTypeOK'
  <1> DEFINE Spend ==
        \/ Crashes \/ Disconnects \/ Drops \/ Duplicates \/ Lapses \/ Overlaps
        \/ UNCHANGED faults
  <1>1. Spend
    BY DEF Next, RunStep, WorkerStep, RequestStep, LeaseStep, AnswerStep,
           Enqueue, SaveOutbox, EnqueuerCrashes, Publish, PublishUnrecorded,
           UserCancels, Deliver, ClaimGranted, ClaimRefused, ClaimLost,
           WorkFails, Call, CallTimesOut, RetryAccepted, RetryRefused,
           FailAccepted, FailRefused, FailureCallLost, Ack, Nack, Reject,
           WorkerCrashes, ConnectionLost, CompleteCommits, CompleteRollsBack,
           WaitingRecorded, CandidateRecorded, LeaseFinished, LeaseLost,
           RequestDies, HeartbeatReads, HeartbeatWrites,
           AbandonedLeaseLapses, HeldLeaseLapses, Recover, AnswerChecks,
           AnswerResumes, AnswerCompletes, AnswerFails, Recorded
  <1>2. ASSUME Spend PROVE FaultTypeOK'
    <2>1. CASE Crashes
      BY <2>1, WorkerAssumption DEF Crashes, FaultTypeOK
    <2>2. CASE Disconnects
      BY <2>2, WorkerAssumption DEF Disconnects, FaultTypeOK
    <2>3. CASE Drops
      BY <2>3, WorkerAssumption DEF Drops, FaultTypeOK
    <2>4. CASE Duplicates
      BY <2>4, WorkerAssumption DEF Duplicates, FaultTypeOK
    <2>5. CASE Lapses
      BY <2>5, WorkerAssumption DEF Lapses, FaultTypeOK
    <2>6. CASE Overlaps
      BY <2>6, WorkerAssumption DEF Overlaps, FaultTypeOK
    <2>7. CASE UNCHANGED faults
      BY <2>7 DEF FaultTypeOK
    <2> QED
      BY <1>2, <2>1, <2>2, <2>3, <2>4, <2>5, <2>6, <2>7
  <1> QED
    BY <1>1, <1>2

(* The control state keeps its types over every step. *)
LEMMA ControlStep ==
  ASSUME TypeInv, Next
  PROVE  ControlTypeOK' /\ HoldersKnown'
  <1> USE MaxAttemptsAssumption
      DEF TypeInv, TypeOK, ControlTypeOK, HoldersKnown, AttemptNo, PC, Idle
  <1>1. ASSUME NEW r \in Runs, Enqueue(r) PROVE ControlTypeOK' /\ HoldersKnown'
    BY <1>1 DEF Enqueue, slotVars, requestVars
  <1>2. ASSUME NEW r \in Runs, SaveOutbox(r) PROVE ControlTypeOK' /\ HoldersKnown'
    BY <1>2 DEF SaveOutbox, slotVars, requestVars
  <1>3. ASSUME NEW r \in Runs, EnqueuerCrashes(r) PROVE ControlTypeOK' /\ HoldersKnown'
    BY <1>3 DEF EnqueuerCrashes, slotVars, requestVars
  <1>4. ASSUME NEW r \in Runs, Publish(r) PROVE ControlTypeOK' /\ HoldersKnown'
    BY <1>4 DEF Publish, slotVars, requestVars
  <1>5. ASSUME NEW r \in Runs, PublishUnrecorded(r) PROVE ControlTypeOK' /\ HoldersKnown'
    BY <1>5 DEF PublishUnrecorded, slotVars, requestVars
  <1>6. ASSUME NEW r \in Runs, UserCancels(r) PROVE ControlTypeOK' /\ HoldersKnown'
    BY <1>6 DEF UserCancels, queueVars, slotVars, requestVars
  <1>7. ASSUME NEW w \in Slots, NEW r \in Runs, Deliver(w, r) PROVE ControlTypeOK' /\ HoldersKnown'
    BY <1>7 DEF Deliver, Goto, requestVars
  <1>8. ASSUME NEW w \in Slots, ClaimGranted(w) PROVE ControlTypeOK' /\ HoldersKnown'
    BY <1>8 DEF ClaimGranted, Goto, queueVars, requestVars, Claim, SetStatus, RunTypeOK
  <1>9. ASSUME NEW w \in Slots, ClaimRefused(w) PROVE ControlTypeOK' /\ HoldersKnown'
    BY <1>9 DEF ClaimRefused, Goto, queueVars, requestVars
  <1>10. ASSUME NEW w \in Slots, ClaimLost(w) PROVE ControlTypeOK' /\ HoldersKnown'
    BY <1>10 DEF ClaimLost, Goto, queueVars, requestVars
  <1>11. ASSUME NEW w \in Slots, WorkFails(w) PROVE ControlTypeOK' /\ HoldersKnown'
    BY <1>11 DEF WorkFails, Goto, queueVars, requestVars
  <1>12. ASSUME NEW w \in Slots, NEW e \in Endpoint, Call(w, e) PROVE ControlTypeOK' /\ HoldersKnown'
    BY <1>12 DEF Call, Goto, queueVars, Stage, NoRequest, Endpoint
  <1>13. ASSUME NEW w \in Slots, CallTimesOut(w) PROVE ControlTypeOK' /\ HoldersKnown'
    BY <1>13 DEF CallTimesOut, Goto, queueVars, requestVars
  <1>14. ASSUME NEW w \in Slots, RetryAccepted(w) PROVE ControlTypeOK' /\ HoldersKnown'
    BY <1>14 DEF RetryAccepted, Goto, queueVars, requestVars
  <1>15. ASSUME NEW w \in Slots, RetryRefused(w) PROVE ControlTypeOK' /\ HoldersKnown'
    BY <1>15 DEF RetryRefused, Goto, queueVars, requestVars
  <1>16. ASSUME NEW w \in Slots, FailAccepted(w) PROVE ControlTypeOK' /\ HoldersKnown'
    BY <1>16 DEF FailAccepted, Goto, queueVars, requestVars
  <1>17. ASSUME NEW w \in Slots, FailRefused(w) PROVE ControlTypeOK' /\ HoldersKnown'
    BY <1>17 DEF FailRefused, Goto, queueVars, requestVars
  <1>18. ASSUME NEW w \in Slots, FailureCallLost(w) PROVE ControlTypeOK' /\ HoldersKnown'
    BY <1>18 DEF FailureCallLost, Goto, queueVars, requestVars
  <1>19. ASSUME NEW w \in Slots, Ack(w) PROVE ControlTypeOK' /\ HoldersKnown'
    BY <1>19 DEF Ack, LeaveHandler, queueVars, requestVars, Goto
  <1>20. ASSUME NEW w \in Slots, Nack(w) PROVE ControlTypeOK' /\ HoldersKnown'
    BY <1>20 DEF Nack, LeaveHandler, queueVars, requestVars, Goto
  <1>21. ASSUME NEW w \in Slots, Reject(w) PROVE ControlTypeOK' /\ HoldersKnown'
    BY <1>21 DEF Reject, LeaveHandler, queueVars, requestVars, Goto
  <1>22. ASSUME NEW w \in Slots, WorkerCrashes(w) PROVE ControlTypeOK' /\ HoldersKnown'
    BY <1>22 DEF WorkerCrashes, LeaveHandler, queueVars, requestVars, Goto
  <1>23. ASSUME NEW w \in Slots, ConnectionLost(w) PROVE ControlTypeOK' /\ HoldersKnown'
    BY <1>23 DEF ConnectionLost, requestVars
  <1>24. ASSUME NEW w \in Slots, CompleteCommits(w) PROVE ControlTypeOK' /\ HoldersKnown'
    BY <1>24 DEF CompleteCommits, Respond, At, queueVars, Stage, NoRequest, Endpoint
  <1>25. ASSUME NEW w \in Slots, CompleteRollsBack(w) PROVE ControlTypeOK' /\ HoldersKnown'
    BY <1>25 DEF CompleteRollsBack, Respond, At, queueVars, Stage, NoRequest, Endpoint
  <1>26. ASSUME NEW w \in Slots, WaitingRecorded(w) PROVE ControlTypeOK' /\ HoldersKnown'
    BY <1>26 DEF WaitingRecorded, Recorded, At, queueVars, slotVars, Stage, NoRequest, Endpoint
  <1>27. ASSUME NEW w \in Slots, CandidateRecorded(w) PROVE ControlTypeOK' /\ HoldersKnown'
    BY <1>27 DEF CandidateRecorded, Recorded, At, queueVars, slotVars, Stage, NoRequest, Endpoint
  <1>28. ASSUME NEW w \in Slots, LeaseFinished(w) PROVE ControlTypeOK' /\ HoldersKnown'
    BY <1>28 DEF LeaseFinished, Respond, queueVars, Stage, NoRequest, Endpoint
  <1>29. ASSUME NEW w \in Slots, LeaseLost(w) PROVE ControlTypeOK' /\ HoldersKnown'
    BY <1>29 DEF LeaseLost, Respond, queueVars, Stage, NoRequest, Endpoint
  <1>30. ASSUME NEW w \in Slots, RequestDies(w) PROVE ControlTypeOK' /\ HoldersKnown'
    BY <1>30 DEF RequestDies, Respond, queueVars, Stage, NoRequest, Endpoint
  <1>31. ASSUME NEW w \in Slots, HeartbeatReads(w) PROVE ControlTypeOK' /\ HoldersKnown'
    BY <1>31, WorkerAssumption DEF HeartbeatReads, FaultTypeOK, queueVars, slotVars, Overlaps
  <1>32. ASSUME NEW w \in Slots, HeartbeatWrites(w) PROVE ControlTypeOK' /\ HoldersKnown'
    BY <1>32 DEF HeartbeatWrites, queueVars, slotVars
  <1>33. ASSUME NEW r \in Runs, NEW n \in AttemptNo, AbandonedLeaseLapses(r, n) PROVE ControlTypeOK' /\ HoldersKnown'
    BY <1>33 DEF AbandonedLeaseLapses, queueVars, slotVars, requestVars
  <1>34. ASSUME NEW r \in Runs, NEW n \in AttemptNo, HeldLeaseLapses(r, n) PROVE ControlTypeOK' /\ HoldersKnown'
    BY <1>34 DEF HeldLeaseLapses, queueVars, slotVars, requestVars
  <1>35. ASSUME NEW r \in Runs, NEW n \in AttemptNo, Recover(r, n) PROVE ControlTypeOK' /\ HoldersKnown'
    BY <1>35 DEF Recover, queueVars, slotVars, requestVars
  <1>36. ASSUME NEW a \in Answers, NEW r \in Runs, AnswerChecks(a, r) PROVE ControlTypeOK' /\ HoldersKnown'
    BY <1>36 DEF AnswerChecks, AnswerMoves, queueVars, slotVars, requestVars, AnswerStage
  <1>37. ASSUME NEW a \in Answers, AnswerResumes(a) PROVE ControlTypeOK' /\ HoldersKnown'
    BY <1>37 DEF AnswerResumes, AnswerMoves, queueVars, slotVars, requestVars, AnswerStage
  <1>38. ASSUME NEW a \in Answers, AnswerCompletes(a) PROVE ControlTypeOK' /\ HoldersKnown'
    BY <1>38 DEF AnswerCompletes, AnswerMoves, queueVars, slotVars, requestVars, AnswerStage
  <1>39. ASSUME NEW a \in Answers, AnswerFails(a) PROVE ControlTypeOK' /\ HoldersKnown'
    BY <1>39 DEF AnswerFails, AnswerMoves, queueVars, slotVars, requestVars, AnswerStage
  <1>40. \A r \in Runs : Endpoints(kind[r]) \subseteq Endpoint
    BY WorkerAssumption DEF Endpoints, Endpoint, RunKind
  <1> QED
    BY <1>1, <1>2, <1>3, <1>4, <1>5, <1>6, <1>7, <1>8, <1>9, <1>10, <1>11, <1>12, <1>13, <1>14, <1>15, <1>16, <1>17, <1>18, <1>19, <1>20, <1>21, <1>22, <1>23, <1>24, <1>25, <1>26, <1>27, <1>28, <1>29, <1>30, <1>31, <1>32, <1>33, <1>34, <1>35, <1>36, <1>37, <1>38, <1>39, <1>40
    DEF Next, RunStep, WorkerStep, RequestStep, LeaseStep, AnswerStep

-----------------------------------------------------------------------------
(* The transactions on the rows of a run, with the request each is done    *)
(* for: what a step of the system is once everything but runVars is        *)
(* forgotten.                                                              *)
Asked(r, s, e) == \E w \in Slots : request[w].run = r /\ At(w, s, e)

Answering(r) ==
  \E a \in Answers : answer[a].run = r /\ answer[a].stage \in {"checked", "resumed"}

RunTransaction(r, n) ==
  \/ CreateQueued(r)
  \/ Claim(r)
  \/ Complete(r, n) /\ (Valid(r, n) \/ MaxOverlaps > 0)
  \/ CompleteRun(r) /\ (Answering(r) \/ Asked(r, "asserted", "complete-candidate"))
  \/ MarkWaitingForUser(r) /\ Asked(r, "asserted", "waiting")
  \/ FinishLease(r, n) /\ \E e \in Endpoint : Asked(r, "recorded", e)
  \/ Resume(r) /\ Answering(r)
  \/ Retry(r, n)
  \/ Fail(r, n)
  \/ Cancel(r)
  \/ LeaseLapses(r, n)
  \/ ExpireLease(r, n)
  \/ WriteHeartbeat(r, n) /\ MaxOverlaps > 0

(* Every step is one of them, on one run and attempt, or none. *)
LEMMA StepIsTransaction ==
  ASSUME TypeInv, Next
  PROVE  \/ UNCHANGED runVars
         \/ \E r \in Runs, n \in AttemptNo : RunTransaction(r, n)
  <1> DEFINE Goal == \/ UNCHANGED runVars
                     \/ \E r \in Runs, n \in AttemptNo : RunTransaction(r, n)
  <1>0. 1 \in AttemptNo
    BY MaxAttemptsAssumption DEF AttemptNo
  <1> USE DEF RunTransaction
  <1>1. ASSUME NEW r \in Runs, Enqueue(r) PROVE Goal
    BY <1>0, <1>1 DEF Enqueue
  <1>2. ASSUME NEW r \in Runs, UserCancels(r) PROVE Goal
    BY <1>0, <1>2 DEF UserCancels
  <1>3. ASSUME NEW w \in Slots, ClaimGranted(w) PROVE Goal
    BY <1>0, <1>3 DEF ClaimGranted, HoldersKnown, TypeInv
  <1>4. ASSUME NEW w \in Slots, ClaimLost(w) PROVE Goal
    BY <1>0, <1>4 DEF ClaimLost, HoldersKnown, TypeInv
  <1>5. ASSUME NEW w \in Slots, RetryAccepted(w) PROVE Goal
    BY <1>5 DEF RetryAccepted, HoldersKnown, TypeInv
  <1>6. ASSUME NEW w \in Slots, FailAccepted(w) PROVE Goal
    BY <1>6 DEF FailAccepted, HoldersKnown, TypeInv
  <1>7. ASSUME NEW w \in Slots, FailureCallLost(w) PROVE Goal
    BY <1>7 DEF FailureCallLost, HoldersKnown, TypeInv
  <1>8. ASSUME NEW w \in Slots, CompleteCommits(w) PROVE Goal
    BY <1>8, WorkerAssumption DEF CompleteCommits, At, Overlaps, TypeOK, FaultTypeOK, HoldersKnown, TypeInv
  <1>9. ASSUME NEW w \in Slots, WaitingRecorded(w) PROVE Goal
    BY <1>0, <1>9 DEF WaitingRecorded, Asked, At, HoldersKnown, TypeInv
  <1>10. ASSUME NEW w \in Slots, CandidateRecorded(w) PROVE Goal
    BY <1>0, <1>10 DEF CandidateRecorded, Asked, At, HoldersKnown, TypeInv
  <1>11. ASSUME NEW w \in Slots, LeaseFinished(w) PROVE Goal
    BY <1>11 DEF LeaseFinished, Asked, At, TypeOK, ControlTypeOK, HoldersKnown, TypeInv
  <1>12. ASSUME NEW w \in Slots, HeartbeatWrites(w) PROVE Goal
    BY <1>12 DEF HeartbeatWrites, HoldersKnown, TypeInv
  <1>13. ASSUME NEW r \in Runs, NEW n \in AttemptNo, LeaseStep(r, n) PROVE Goal
    BY <1>13 DEF LeaseStep, AbandonedLeaseLapses, HeldLeaseLapses, Recover
  <1>14. ASSUME NEW a \in Answers, AnswerResumes(a) PROVE Goal
    BY <1>0, <1>14 DEF AnswerResumes, Answering, HoldersKnown, TypeInv
  <1>15. ASSUME NEW a \in Answers, AnswerCompletes(a) PROVE Goal
    BY <1>0, <1>15 DEF AnswerCompletes, Answering, HoldersKnown, TypeInv
  <1> QED
    BY <1>1, <1>2, <1>3, <1>4, <1>5, <1>6, <1>7, <1>8, <1>9,
       <1>10, <1>11, <1>12, <1>13, <1>14, <1>15
    DEF Next, RunStep, WorkerStep, RequestStep, AnswerStep,
        SaveOutbox, EnqueuerCrashes, Publish, PublishUnrecorded, Deliver,
        ClaimRefused, WorkFails, Call, CallTimesOut, RetryRefused,
        FailRefused, Ack, Nack, Reject, WorkerCrashes, ConnectionLost,
        CompleteRollsBack, LeaseLost, RequestDies, HeartbeatReads,
        AnswerChecks, AnswerFails

(* What the transactions do to the types of the rows. *)
LEMMA TransactionTyped ==
  ASSUME RunTypeOK, NEW r \in Runs, NEW n \in AttemptNo, RunTransaction(r, n)
  PROVE  RunTypeOK'
  <1> USE DEF RunTypeOK, Status, Terminal, AttemptState, SetStatus, SetAttempt
  <1>e. {"RESULT", "FAILED", "CANCELLED", "CLARIFICATION_REQUESTED"} \subseteq OutcomeEvent
    BY DEF OutcomeEvent
  <1>1. CASE CreateQueued(r)
    BY <1>1 DEF CreateQueued
  <1>2. CASE Claim(r)
    BY <1>2, MaxAttemptsAssumption DEF Claim, AttemptNo
  <1>3. CASE Complete(r, n)
    BY <1>3, <1>e, EmitTyped DEF Complete
  <1>4. CASE CompleteRun(r)
    BY <1>4, <1>e, EmitTyped DEF CompleteRun
  <1>5. CASE MarkWaitingForUser(r)
    BY <1>5, <1>e, EmitTyped DEF MarkWaitingForUser
  <1>6. CASE FinishLease(r, n)
    BY <1>6 DEF FinishLease
  <1>7. CASE Resume(r)
    BY <1>7 DEF Resume
  <1>8. CASE Retry(r, n)
    BY <1>8 DEF Retry
  <1>9. CASE Fail(r, n)
    BY <1>9, <1>e, EmitTyped DEF Fail
  <1>10. CASE Cancel(r)
    BY <1>10, <1>e, EmitTyped DEF Cancel
  <1>11. CASE LeaseLapses(r, n)
    BY <1>11 DEF LeaseLapses
  <1>12. CASE ExpireLease(r, n)
    BY <1>12 DEF ExpireLease
  <1>13. CASE WriteHeartbeat(r, n)
    BY <1>13 DEF WriteHeartbeat
  <1> QED
    BY <1>1, <1>2, <1>3, <1>4, <1>5, <1>6, <1>7, <1>8, <1>9, <1>10, <1>11,
       <1>12, <1>13 DEF RunTransaction

(* The queue keeps its types. *)
LEMMA QueueStep ==
  ASSUME Queue!QueueTypeOK, Next
  PROVE  Queue!QueueTypeOK'
  <1> DEFINE Moves(r) ==
        \/ \E s \in Queue!OutboxState : Queue!SetOutbox(r, s)
        \/ Queue!Publish(r) \/ Queue!PublishUnrecorded(r)
        \/ Queue!Take(r) \/ Queue!Requeue(r) \/ Queue!DeadLetter(r)
  <1>0. {"NONE", "UNSAVED", "PENDING"} \subseteq Queue!OutboxState
    BY DEF Queue!OutboxState
  <1>1. UNCHANGED queueVars \/ \E r : Moves(r)
    BY <1>0
    DEF Next, RunStep, WorkerStep, RequestStep, LeaseStep, AnswerStep,
           Enqueue, SaveOutbox, EnqueuerCrashes, Publish, PublishUnrecorded,
           UserCancels, Deliver, ClaimGranted, ClaimRefused, ClaimLost,
           WorkFails, Call, CallTimesOut, RetryAccepted, RetryRefused,
           FailAccepted, FailRefused, FailureCallLost, Ack, Nack, Reject,
           WorkerCrashes, ConnectionLost, CompleteCommits, CompleteRollsBack,
           WaitingRecorded, CandidateRecorded, LeaseFinished, LeaseLost,
           RequestDies, HeartbeatReads, HeartbeatWrites,
           AbandonedLeaseLapses, HeldLeaseLapses, Recover, AnswerChecks,
           AnswerResumes, AnswerCompletes, AnswerFails, Recorded, Respond
  <1>2. ASSUME NEW r, Moves(r) PROVE Queue!QueueTypeOK'
    BY <1>2
    DEF Queue!QueueTypeOK, Queue!OutboxState, Queue!SetOutbox, Queue!Publish,
        Queue!PublishUnrecorded, Queue!Take, Queue!Requeue, Queue!DeadLetter
  <1>3. CASE UNCHANGED queueVars
    BY <1>3 DEF Queue!QueueTypeOK, queueVars
  <1> QED
    BY <1>1, <1>2, <1>3

(* Every step of the system keeps the types: its transaction, its queue     *)
(* operation, its control state and its fault counters each do.             *)
LEMMA NextTypeInv == TypeInv /\ [Next]_vars => TypeInv'
  <1> SUFFICES ASSUME TypeInv, [Next]_vars PROVE TypeInv'
    OBVIOUS
  <1>1. CASE Next
    <2>1. RunTypeOK'
      <3>1. CASE UNCHANGED runVars
        BY <3>1 DEF TypeInv, TypeOK, RunTypeOK, runVars
      <3> QED
        BY <1>1, <3>1, StepIsTransaction, TransactionTyped DEF TypeInv, TypeOK
    <2> QED
      BY <1>1, <2>1, QueueStep, ControlStep, FaultStep DEF TypeInv, TypeOK
  <1>2. CASE UNCHANGED vars
    BY <1>2
    DEF TypeInv, TypeOK, RunTypeOK, Queue!QueueTypeOK, ControlTypeOK, FaultTypeOK,
        HoldersKnown, vars, runVars, queueVars, slotVars, requestVars
  <1> QED
    BY <1>1, <1>2

(* The types hold in every behaviour. *)
LEMMA AlwaysTypeInv == Spec => []TypeInv
  BY InitTypeInv, NextTypeInv, PTL DEF Spec

(* The rows, the queue, the slots and the requests keep their types in     *)
(* every behaviour, however many runs, workers and faults there are.       *)
THEOREM TypeCorrect == Spec => []TypeOK
  <1>1. TypeInv => TypeOK
    BY DEF TypeInv
  <1> QED
    BY AlwaysTypeInv, <1>1, PTL

-----------------------------------------------------------------------------
(* Leases.  LeaseDiscipline is inductive together with TypeInv as long as  *)
(* no transaction is overtaken: an attempt is started only from QUEUED,    *)
(* when no other holds a lease, and whatever takes the run to QUEUED or    *)
(* CANCELLED ends the newest attempt in the same transaction.              *)
LEMMA TransactionKeepsDiscipline ==
  ASSUME RunTypeOK, LeaseDiscipline, MaxOverlaps = 0,
         NEW r \in Runs, NEW n \in AttemptNo, RunTransaction(r, n)
  PROVE  LeaseDiscipline'
  <1> USE MaxAttemptsAssumption
      DEF RunTypeOK, LeaseDiscipline, RowRunning, Valid, SetStatus, SetAttempt, AttemptNo
  <1>1. CASE CreateQueued(r)
    BY <1>1 DEF CreateQueued
  <1>2. CASE Claim(r)
    BY <1>2 DEF Claim, Claimable
  <1>3. CASE Complete(r, n)
    BY <1>3 DEF Complete
  <1>4. CASE CompleteRun(r)
    BY <1>4 DEF CompleteRun
  <1>5. CASE MarkWaitingForUser(r)
    BY <1>5 DEF MarkWaitingForUser
  <1>6. CASE FinishLease(r, n)
    BY <1>6 DEF FinishLease
  <1>7. CASE Resume(r)
    BY <1>7 DEF Resume
  <1>8. CASE Retry(r, n)
    BY <1>8 DEF Retry, Retryable
  <1>9. CASE Fail(r, n)
    BY <1>9 DEF Fail
  <1>10. CASE Cancel(r)
    BY <1>10 DEF Cancel
  <1>11. CASE LeaseLapses(r, n)
    BY <1>11 DEF LeaseLapses
  <1>12. CASE ExpireLease(r, n)
    BY <1>12 DEF ExpireLease
  <1>13. CASE WriteHeartbeat(r, n) /\ MaxOverlaps > 0
    BY <1>13
  <1> QED
    BY <1>1, <1>2, <1>3, <1>4, <1>5, <1>6, <1>7, <1>8, <1>9, <1>10, <1>11,
       <1>12, <1>13 DEF RunTransaction

(* A lease token is a fencing token: in every behaviour in which no        *)
(* transaction is overtaken, only the newest attempt of a run can hold a   *)
(* lease, and none does while the run is queued or cancelled.              *)
THEOREM LeasesAreFenced == MaxOverlaps = 0 => (Spec => []LeaseDiscipline)
  <1> SUFFICES ASSUME MaxOverlaps = 0 PROVE Spec => []LeaseDiscipline
    OBVIOUS
  <1>1. Init => LeaseDiscipline
    BY DEF Init, RunInit, LeaseDiscipline, RowRunning
  <1>2. TypeInv /\ LeaseDiscipline /\ [Next]_vars => LeaseDiscipline'
    <2> SUFFICES ASSUME TypeInv, LeaseDiscipline, [Next]_vars PROVE LeaseDiscipline'
      OBVIOUS
    <2>1. CASE UNCHANGED runVars
      BY <2>1 DEF runVars, LeaseDiscipline, RowRunning
    <2>2. CASE UNCHANGED vars
      BY <2>1, <2>2 DEF vars, runVars
    <2> QED
      BY <2>1, <2>2, StepIsTransaction, TransactionKeepsDiscipline DEF TypeInv, TypeOK
  <1> QED
    BY <1>1, <1>2, AlwaysTypeInv, PTL DEF Spec

-----------------------------------------------------------------------------
(* The event log. *)
LEMMA EmitAppends ==
  ASSUME outcome \in [Runs -> Seq(OutcomeEvent)], NEW r \in Runs, NEW e \in OutcomeEvent,
         Emit(r, e)
  PROVE  /\ outcome'[r] # <<>>
         /\ outcome'[r][Len(outcome'[r])] = e
         /\ \A x \in Runs : x # r => outcome'[x] = outcome[x]
  <1>1. outcome' = [x \in Runs |-> IF x = r THEN Append(outcome[x], e) ELSE outcome[x]]
    BY DEF Emit
  <1>2. ASSUME NEW s \in Seq(OutcomeEvent)
        PROVE  Append(s, e) # <<>> /\ Append(s, e)[Len(Append(s, e))] = e
    BY AppendProperties
  <1> QED
    BY <1>1, <1>2

(* Every transaction that ends or pauses a run announces it as its last     *)
(* event.                                                                   *)
LEMMA TransactionPublishes ==
  ASSUME RunTypeOK, StatusIsPublished,
         NEW r \in Runs, NEW n \in AttemptNo, RunTransaction(r, n)
  PROVE  StatusIsPublished'
  <1> USE DEF RunTypeOK, StatusIsPublished, Terminal, EventOf, SetStatus
  <1>e. {"RESULT", "FAILED", "CANCELLED", "CLARIFICATION_REQUESTED"} \subseteq OutcomeEvent
    BY DEF OutcomeEvent
  <1>1. CASE CreateQueued(r)
    BY <1>1 DEF CreateQueued
  <1>2. CASE Claim(r)
    BY <1>2 DEF Claim
  <1>3. CASE Complete(r, n)
    BY <1>3, <1>e, EmitAppends DEF Complete
  <1>4. CASE CompleteRun(r)
    BY <1>4, <1>e, EmitAppends DEF CompleteRun
  <1>5. CASE MarkWaitingForUser(r)
    BY <1>5, <1>e, EmitAppends DEF MarkWaitingForUser
  <1>6. CASE FinishLease(r, n)
    BY <1>6 DEF FinishLease
  <1>7. CASE Resume(r)
    BY <1>7 DEF Resume
  <1>8. CASE Retry(r, n)
    BY <1>8 DEF Retry
  <1>9. CASE Fail(r, n)
    BY <1>9, <1>e, EmitAppends DEF Fail
  <1>10. CASE Cancel(r)
    BY <1>10, <1>e, EmitAppends DEF Cancel
  <1>11. CASE LeaseLapses(r, n)
    BY <1>11 DEF LeaseLapses
  <1>12. CASE ExpireLease(r, n)
    BY <1>12 DEF ExpireLease
  <1>13. CASE WriteHeartbeat(r, n)
    BY <1>13 DEF WriteHeartbeat
  <1> QED
    BY <1>1, <1>2, <1>3, <1>4, <1>5, <1>6, <1>7, <1>8, <1>9, <1>10, <1>11,
       <1>12, <1>13 DEF RunTransaction

(* A reader of the event log who has seen its end knows how the run stands *)
(* whenever the run does not move: the last lifecycle event is the one of  *)
(* its status, under every fault of the model.                             *)
THEOREM StatusPublished == Spec => []StatusIsPublished
  <1>1. Init => StatusIsPublished
    BY DEF Init, RunInit, StatusIsPublished, Terminal
  <1>2. TypeInv /\ StatusIsPublished /\ [Next]_vars => StatusIsPublished'
    <2> SUFFICES ASSUME TypeInv, StatusIsPublished, [Next]_vars PROVE StatusIsPublished'
      OBVIOUS
    <2>1. CASE UNCHANGED runVars
      BY <2>1 DEF runVars, StatusIsPublished
    <2>2. CASE UNCHANGED vars
      BY <2>1, <2>2 DEF vars, runVars
    <2> QED
      BY <2>1, <2>2, StepIsTransaction, TransactionPublishes DEF TypeInv, TypeOK
  <1> QED
    BY <1>1, <1>2, AlwaysTypeInv, PTL DEF Spec

-----------------------------------------------------------------------------
(* Dead letters.  A message is rejected only by a slot whose failure call  *)
(* was accepted, and events are never taken back.                          *)
RejectedFailed ==
  \A w \in Slots : pc[w] = "rejecting" =>
    task[w] \in Runs /\ Happened(task[w], "FAILED")

(* Appending an event forgets none. *)
LEMMA EmitKeeps ==
  ASSUME outcome \in [Runs -> Seq(OutcomeEvent)], NEW r, NEW e \in OutcomeEvent,
         Emit(r, e), NEW x \in Runs, NEW f, Happened(x, f)
  PROVE  Happened(x, f)'
  <1>1. outcome' = [y \in Runs |-> IF y = r THEN Append(outcome[y], e) ELSE outcome[y]]
    BY DEF Emit
  <1>2. PICK i \in 1 .. Len(outcome[x]) : outcome[x][i] = f
    BY DEF Happened
  <1>3. CASE x = r
    <2>1. /\ Len(outcome'[x]) = Len(outcome[x]) + 1
          /\ outcome'[x][i] = outcome[x][i]
      BY <1>1, <1>2, <1>3, AppendProperties
    <2>2. i \in 1 .. Len(outcome'[x])
      BY <1>2, <2>1
    <2> QED
      BY <1>2, <2>1, <2>2 DEF Happened
  <1>4. CASE x # r
    BY <1>1, <1>2, <1>4 DEF Happened
  <1> QED
    BY <1>3, <1>4

(* No transaction takes back an event that happened. *)
LEMMA EventsStay ==
  ASSUME RunTypeOK, NEW r \in Runs, NEW n \in AttemptNo, RunTransaction(r, n),
         NEW x \in Runs, NEW f, Happened(x, f)
  PROVE  Happened(x, f)'
  <1>e. {"RESULT", "FAILED", "CANCELLED", "CLARIFICATION_REQUESTED"} \subseteq OutcomeEvent
    BY DEF OutcomeEvent
  <1>1. CASE UNCHANGED outcome
    BY <1>1 DEF Happened
  <1>2. ASSUME NEW e \in OutcomeEvent, Emit(r, e) PROVE Happened(x, f)'
    BY <1>2, EmitKeeps DEF RunTypeOK
  <1> QED
    BY <1>e, <1>1, <1>2
    DEF RunTransaction, CreateQueued, Claim, Complete, CompleteRun, MarkWaitingForUser,
        FinishLease, Resume, Retry, Fail, Cancel, LeaseLapses, ExpireLease, WriteHeartbeat

(* The failure transaction publishes FAILED. *)
LEMMA FailHappens ==
  ASSUME RunTypeOK, NEW r \in Runs, NEW n, Fail(r, n)
  PROVE  Happened(r, "FAILED")'
  <1>1. /\ outcome'[r] \in Seq(OutcomeEvent)
        /\ outcome'[r] # <<>>
        /\ outcome'[r][Len(outcome'[r])] = "FAILED"
    BY EmitAppends, EmitTyped DEF Fail, RunTypeOK, OutcomeEvent
  <1>2. Len(outcome'[r]) \in 1 .. Len(outcome'[r])
    BY <1>1
  <1> QED
    BY <1>1, <1>2 DEF Happened

(* What a step may do to a rejecting slot and to the dead letter queue.    *)
LEMMA RejectionStep ==
  ASSUME TypeInv, Next
  PROVE  /\ \A w \in Slots : pc'[w] = "rejecting" =>
              \/ pc[w] = "rejecting" /\ task'[w] = task[w]
              \/ FailAccepted(w)
         /\ \/ dead' = dead
            \/ \E w \in Slots : pc[w] = "rejecting" /\ Queue!DeadLetter(task[w])
  <1> USE DEF TypeInv, TypeOK, ControlTypeOK, Goto
  <1>1. ASSUME NEW r \in Runs, RunStep(r)
        PROVE  UNCHANGED <<pc, task, dead>>
    BY <1>1 DEF RunStep, Enqueue, SaveOutbox, EnqueuerCrashes, Publish, PublishUnrecorded,
         UserCancels, slotVars, queueVars, Queue!SetOutbox, Queue!Publish,
         Queue!PublishUnrecorded
  <1>2. ASSUME NEW r \in Runs, NEW n \in AttemptNo, LeaseStep(r, n)
        PROVE  UNCHANGED <<pc, task, dead>>
    BY <1>2 DEF LeaseStep, AbandonedLeaseLapses, HeldLeaseLapses, Recover, slotVars, queueVars
  <1>3. ASSUME NEW a \in Answers, AnswerStep(a)
        PROVE  UNCHANGED <<pc, task, dead>>
    BY <1>3 DEF AnswerStep, AnswerChecks, AnswerResumes, AnswerCompletes, AnswerFails,
         slotVars, queueVars
  <1>4. ASSUME NEW w \in Slots, RequestStep(w)
        PROVE  /\ UNCHANGED <<task, dead>>
               /\ pc' = pc \/ pc' = [pc EXCEPT ![w] = "failing"]
                  \/ pc' = [pc EXCEPT ![w] = "settled"]
    BY <1>4 DEF RequestStep, CompleteCommits, CompleteRollsBack, WaitingRecorded,
         CandidateRecorded, LeaseFinished, LeaseLost, RequestDies, HeartbeatReads,
         HeartbeatWrites, Respond, Recorded, slotVars, queueVars
  <1>5. ASSUME NEW w \in Slots, WorkerStep(w)
        PROVE  /\ \A v \in Slots : pc'[v] = "rejecting" =>
                    \/ pc[v] = "rejecting" /\ task'[v] = task[v]
                    \/ FailAccepted(v)
               /\ \/ dead' = dead
                  \/ pc[w] = "rejecting" /\ Queue!DeadLetter(task[w])
    <2>1. CASE FailAccepted(w)
      BY <2>1 DEF FailAccepted, queueVars
    <2>2. CASE Reject(w)
      BY <2>2 DEF Reject, LeaveHandler, queueVars
    <2>3. CASE ConnectionLost(w)
      BY <2>3 DEF ConnectionLost, Queue!Requeue
    <2>4. CASE Nack(w) \/ WorkerCrashes(w) \/ Ack(w)
      BY <2>4 DEF Nack, WorkerCrashes, Ack, LeaveHandler, Queue!Requeue, queueVars
    <2>5. CASE \E r \in Runs : Deliver(w, r)
      BY <2>5 DEF Deliver, Queue!Take
    <2>6. CASE ClaimGranted(w) \/ ClaimRefused(w) \/ ClaimLost(w) \/ WorkFails(w)
               \/ (\E e \in Endpoints(kind[task[w]]) : Call(w, e)) \/ CallTimesOut(w)
      BY <2>6 DEF ClaimGranted, ClaimRefused, ClaimLost, WorkFails, Call, CallTimesOut,
           queueVars
    <2>7. CASE RetryAccepted(w) \/ RetryRefused(w) \/ FailRefused(w) \/ FailureCallLost(w)
      BY <2>7 DEF RetryAccepted, RetryRefused, FailRefused, FailureCallLost, queueVars
    <2> QED
      BY <1>5, <2>1, <2>2, <2>3, <2>4, <2>5, <2>6, <2>7 DEF WorkerStep
  <1> QED
    BY <1>1, <1>2, <1>3, <1>4, <1>5 DEF Next

(* A message ends in the dead letter queue only for a run whose failure    *)
(* was published to its readers, under every fault of the model.           *)
THEOREM DeadLettersAreFailures == Spec => []DeadLetterIsFailure
  <1> DEFINE Inv == RejectedFailed /\ DeadLetterIsFailure
  <1>1. Init => Inv
    BY DEF Init, Queue!QueueInit, RejectedFailed, DeadLetterIsFailure
  <1>2. TypeInv /\ Inv /\ [Next]_vars => Inv'
    <2> SUFFICES ASSUME TypeInv, Inv, [Next]_vars PROVE Inv'
      OBVIOUS
    <2>1. CASE UNCHANGED vars
      BY <2>1 DEF vars, runVars, slotVars, queueVars, RejectedFailed, DeadLetterIsFailure,
           Happened
    <2>2. CASE Next
      <3>1. ASSUME NEW x \in Runs, Happened(x, "FAILED") PROVE Happened(x, "FAILED")'
        <4>1. CASE UNCHANGED runVars
          BY <3>1, <4>1 DEF runVars, Happened
        <4> QED
          BY <2>2, <3>1, <4>1, StepIsTransaction, EventsStay DEF TypeInv, TypeOK
      <3>2. RejectedFailed'
        <4> SUFFICES ASSUME NEW w \in Slots, pc'[w] = "rejecting"
                     PROVE  task'[w] \in Runs /\ Happened(task[w], "FAILED")'
          BY DEF RejectedFailed
        <4>1. CASE pc[w] = "rejecting" /\ task'[w] = task[w]
          BY <3>1, <4>1 DEF RejectedFailed, Happened
        <4>2. CASE FailAccepted(w)
          <5>1. task[w] \in Runs /\ Fail(task[w], lease[w]) /\ task' = task
            BY <4>2 DEF FailAccepted, TypeInv, HoldersKnown
          <5>2. Happened(task[w], "FAILED")'
            BY <5>1, FailHappens DEF TypeInv, TypeOK, Happened
          <5> QED
            BY <5>1, <5>2
        <4> QED
          BY <2>2, <4>1, <4>2, RejectionStep
      <3>3. DeadLetterIsFailure'
        <4> SUFFICES ASSUME NEW r \in Runs, dead'[r] > 0 PROVE Happened(r, "FAILED")'
          BY DEF DeadLetterIsFailure
        <4>1. CASE dead' = dead
          BY <3>1, <4>1 DEF DeadLetterIsFailure
        <4>2. CASE \E w \in Slots : pc[w] = "rejecting" /\ Queue!DeadLetter(task[w])
          BY <3>1, <4>2 DEF DeadLetterIsFailure, RejectedFailed, Queue!DeadLetter, TypeInv,
               TypeOK, Queue!QueueTypeOK
        <4> QED
          BY <2>2, <4>1, <4>2, RejectionStep
      <3> QED
        BY <3>2, <3>3
    <2> QED
      BY <2>1, <2>2
  <1>3. Inv => DeadLetterIsFailure
    OBVIOUS
  <1> QED
    BY <1>1, <1>2, <1>3, AlwaysTypeInv, PTL DEF Spec

-----------------------------------------------------------------------------
(* Recovery.  Without answers requests, a run that has left RUNNING for an *)
(* ending or a question does not come back to it, so the request that      *)
(* recorded the ending may finish its lease.                               *)
Over(r) == status[r] \in Terminal \cup {"WAITING_FOR_USER"}

RecordedIsOver ==
  \A w \in Slots : request[w].stage = "recorded" => Over(request[w].run)

(* Without answers requests no transaction makes a finished or waiting run  *)
(* active again.                                                            *)
LEMMA TransactionKeepsOver ==
  ASSUME RunTypeOK, Answers = {}, NEW x \in Runs, Over(x),
         NEW r \in Runs, NEW n \in AttemptNo, RunTransaction(r, n)
  PROVE  Over(x)'
  <1> USE DEF RunTypeOK, Over, Terminal, SetStatus
  <1>1. CASE CreateQueued(r)
    BY <1>1 DEF CreateQueued
  <1>2. CASE Claim(r)
    BY <1>2 DEF Claim, Claimable
  <1>3. CASE Complete(r, n)
    BY <1>3 DEF Complete
  <1>4. CASE CompleteRun(r)
    BY <1>4 DEF CompleteRun
  <1>5. CASE MarkWaitingForUser(r)
    BY <1>5 DEF MarkWaitingForUser
  <1>6. CASE FinishLease(r, n)
    BY <1>6 DEF FinishLease
  <1>7. CASE Resume(r) /\ Answering(r)
    BY <1>7 DEF Answering
  <1>8. CASE Retry(r, n)
    BY <1>8 DEF Retry, Retryable
  <1>9. CASE Fail(r, n)
    BY <1>9 DEF Fail
  <1>10. CASE Cancel(r)
    BY <1>10 DEF Cancel
  <1>11. CASE LeaseLapses(r, n)
    BY <1>11 DEF LeaseLapses
  <1>12. CASE ExpireLease(r, n)
    BY <1>12 DEF ExpireLease
  <1>13. CASE WriteHeartbeat(r, n)
    BY <1>13 DEF WriteHeartbeat
  <1> QED
    BY <1>1, <1>2, <1>3, <1>4, <1>5, <1>6, <1>7, <1>8, <1>9,
       <1>10, <1>11, <1>12, <1>13 DEF RunTransaction

(* Every transaction that leaves a run RUNNING leaves it an attempt that    *)
(* the recovery scheduler can find.                                         *)
LEMMA TransactionKeepsRecoverable ==
  ASSUME RunTypeOK, Answers = {}, RunningIsRecoverable, RecordedIsOver,
         NEW r \in Runs, NEW n \in AttemptNo, RunTransaction(r, n)
  PROVE  RunningIsRecoverable'
  <1>0. ASSUME NEW x \in Runs, status'[x] = "RUNNING",
               status[x] = "RUNNING" => \E m \in AttemptNo : RowRunning(x, m)
        PROVE  \E m \in AttemptNo : RowRunning(x, m)'
    <2> USE <1>0, MaxAttemptsAssumption
        DEF RunTypeOK, RowRunning, Valid, SetStatus, SetAttempt, AttemptNo, Terminal
    <2>1. CASE CreateQueued(r)
      BY <2>1 DEF CreateQueued
    <2>2. CASE Claim(r)
      BY <2>2 DEF Claim, Claimable
    <2>3. CASE Complete(r, n)
      BY <2>3 DEF Complete
    <2>4. CASE CompleteRun(r)
      BY <2>4 DEF CompleteRun
    <2>5. CASE MarkWaitingForUser(r)
      BY <2>5 DEF MarkWaitingForUser
    <2>6. CASE FinishLease(r, n) /\ \E e \in Endpoint : Asked(r, "recorded", e)
      BY <2>6 DEF FinishLease, RecordedIsOver, Over, Asked, At
    <2>7. CASE Resume(r) /\ Answering(r)
      BY <2>7 DEF Answering
    <2>8. CASE Retry(r, n)
      BY <2>8 DEF Retry, Retryable
    <2>9. CASE Fail(r, n)
      BY <2>9 DEF Fail
    <2>10. CASE Cancel(r)
      BY <2>10 DEF Cancel
    <2>11. CASE LeaseLapses(r, n)
      BY <2>11 DEF LeaseLapses
    <2>12. CASE ExpireLease(r, n)
      BY <2>12 DEF ExpireLease
    <2>13. CASE WriteHeartbeat(r, n)
      BY <2>13 DEF WriteHeartbeat
    <2> QED
      BY <2>1, <2>2, <2>3, <2>4, <2>5, <2>6, <2>7, <2>8, <2>9,
         <2>10, <2>11, <2>12, <2>13 DEF RunTransaction
  <1> QED
    BY <1>0 DEF RunningIsRecoverable

(* Only a request that has just recorded an ending is new at "recorded".   *)
LEMMA RecordingStep ==
  ASSUME TypeInv, Next, NEW w \in Slots, request'[w].stage = "recorded"
  PROVE  \/ request'[w] = request[w]
         \/ /\ request'[w].run = request[w].run /\ request[w].run \in Runs
            /\ MarkWaitingForUser(request[w].run) \/ CompleteRun(request[w].run)
  <1> USE DEF TypeInv, TypeOK, ControlTypeOK
  <1>1. ASSUME NEW r \in Runs, RunStep(r) PROVE request' = request
    BY <1>1 DEF RunStep, Enqueue, SaveOutbox, EnqueuerCrashes, Publish, PublishUnrecorded,
         UserCancels, requestVars
  <1>2. ASSUME NEW r \in Runs, NEW n \in AttemptNo, LeaseStep(r, n) PROVE request' = request
    BY <1>2 DEF LeaseStep, AbandonedLeaseLapses, HeldLeaseLapses, Recover, requestVars
  <1>3. ASSUME NEW a \in Answers, AnswerStep(a) PROVE request' = request
    BY <1>3 DEF AnswerStep, AnswerChecks, AnswerResumes, AnswerCompletes, AnswerFails,
         requestVars
  <1>4. ASSUME NEW v \in Slots, WorkerStep(v)
        PROVE  \/ request' = request
               \/ \E q : q.stage # "recorded" /\ request' = [request EXCEPT ![v] = q]
    BY <1>4 DEF WorkerStep, Deliver, ClaimGranted, ClaimRefused, ClaimLost, WorkFails, Call,
         CallTimesOut, RetryAccepted, RetryRefused, FailAccepted, FailRefused,
         FailureCallLost, Ack, Nack, Reject, WorkerCrashes, ConnectionLost, requestVars
  <1>5. ASSUME NEW v \in Slots, RequestStep(v)
        PROVE  \/ request' = request
               \/ request' = [request EXCEPT ![v] = NoRequest]
               \/ /\ request' = [request EXCEPT ![v].stage = "recorded"]
                  /\ request[v].run \in Runs
                  /\ MarkWaitingForUser(request[v].run) \/ CompleteRun(request[v].run)
    BY <1>5 DEF RequestStep, CompleteCommits, CompleteRollsBack, WaitingRecorded,
         CandidateRecorded, LeaseFinished, LeaseLost, RequestDies, HeartbeatReads,
         HeartbeatWrites, Respond, Recorded, At, HoldersKnown
  <1>6. ASSUME NEW v \in Slots, WorkerStep(v) PROVE request'[w] = request[w]
    BY <1>4, <1>6
  <1> QED
    BY <1>1, <1>2, <1>3, <1>5, <1>6 DEF Next, NoRequest

(* While nobody answers questions, the lease recovery scheduler can always *)
(* find a run that is RUNNING: no fault leaves one without an attempt that *)
(* is still RUNNING in the table.                                          *)
THEOREM RunningRecoverable == Answers = {} => (Spec => []RunningIsRecoverable)
  <1> SUFFICES ASSUME Answers = {} PROVE Spec => []RunningIsRecoverable
    OBVIOUS
  <1> DEFINE Inv == RecordedIsOver /\ RunningIsRecoverable
  <1>1. Init => Inv
    BY DEF Init, RunInit, RecordedIsOver, RunningIsRecoverable, NoRequest
  <1>2. TypeInv /\ Inv /\ [Next]_vars => Inv'
    <2> SUFFICES ASSUME TypeInv, Inv, [Next]_vars PROVE Inv'
      OBVIOUS
    <2>1. CASE UNCHANGED vars
      BY <2>1 DEF vars, runVars, requestVars, RecordedIsOver, RunningIsRecoverable, RowRunning,
           Over
    <2>2. CASE Next
      <3>1. RunningIsRecoverable'
        <4>1. CASE UNCHANGED runVars
          BY <4>1 DEF runVars, RunningIsRecoverable, RowRunning
        <4> QED
          BY <2>2, <4>1, StepIsTransaction, TransactionKeepsRecoverable DEF TypeInv, TypeOK
      <3>2. ASSUME NEW x \in Runs, Over(x) PROVE Over(x)'
        <4>1. CASE UNCHANGED runVars
          BY <3>2, <4>1 DEF runVars, Over
        <4> QED
          BY <2>2, <3>2, <4>1, StepIsTransaction, TransactionKeepsOver DEF TypeInv, TypeOK
      <3>3. RecordedIsOver'
        <4> SUFFICES ASSUME NEW w \in Slots, request'[w].stage = "recorded"
                     PROVE  Over(request[w].run)'
          BY DEF RecordedIsOver
        <4>1. CASE request'[w] = request[w]
          BY <3>2, <4>1 DEF RecordedIsOver, TypeInv, HoldersKnown, Over
        <4>2. CASE /\ request'[w].run = request[w].run /\ request[w].run \in Runs
                   /\ MarkWaitingForUser(request[w].run) \/ CompleteRun(request[w].run)
          BY <4>2 DEF MarkWaitingForUser, CompleteRun, SetStatus, Over, Terminal, TypeInv,
               TypeOK, RunTypeOK
        <4> QED
          BY <2>2, <4>1, <4>2, RecordingStep
      <3> QED
        BY <3>1, <3>3
    <2> QED
      BY <2>1, <2>2
  <1>3. Inv => RunningIsRecoverable
    OBVIOUS
  <1> QED
    BY <1>1, <1>2, <1>3, AlwaysTypeInv, PTL DEF Spec

-----------------------------------------------------------------------------
(* Tickets.  While no connection is lost a slot keeps the message of the   *)
(* run it works on, and the endpoint it calls is for that run; a row is    *)
(* used only once it was claimed, and only a candidate pool is ever        *)
(* created without its outbox row.                                         *)
HoldersKeepMessages ==
  faults.disconnect = 0 => \A w \in Slots :
    pc[w] # "idle" => holds[w] /\ task[w] \in Runs

CallsAreForTheTask ==
  \A w \in Slots : pc[w] = "calling" =>
    request[w].stage # "none" /\ request[w].run = task[w]

RowsAreClaimed ==
  \A r \in Runs, n \in AttemptNo : n > last[r] => attempts[r][n] = "NONE"

OnlyPoolsAreUnsaved ==
  \A r \in Runs : outbox[r] = "UNSAVED" => kind[r] = "CANDIDATE_POOL"

(* Where no transaction is overtaken, and no request stops between the     *)
(* commits of a candidate pool and of its outbox row.                      *)
NothingIsOvertaken == MaxOverlaps = 0 /\ ("CANDIDATE_POOL" \notin Kinds \/ MaxCrashes = 0)

TicketInv ==
  /\ HoldersKeepMessages /\ CallsAreForTheTask
  /\ RowsAreClaimed /\ OnlyPoolsAreUnsaved
  /\ LeaseDiscipline /\ RetryKeepsTicket

(* What the broker counted as lost stays counted. *)
LEMMA LossesStay ==
  ASSUME TypeInv, Next, faults'.disconnect = 0
  PROVE  faults.disconnect = 0
  <1> DEFINE Spend ==
        \/ Crashes \/ Disconnects \/ Drops \/ Duplicates \/ Lapses \/ Overlaps
        \/ UNCHANGED faults
  <1>1. Spend
    BY DEF Next, RunStep, WorkerStep, RequestStep, LeaseStep, AnswerStep,
           Enqueue, SaveOutbox, EnqueuerCrashes, Publish, PublishUnrecorded,
           UserCancels, Deliver, ClaimGranted, ClaimRefused, ClaimLost,
           WorkFails, Call, CallTimesOut, RetryAccepted, RetryRefused,
           FailAccepted, FailRefused, FailureCallLost, Ack, Nack, Reject,
           WorkerCrashes, ConnectionLost, CompleteCommits, CompleteRollsBack,
           WaitingRecorded, CandidateRecorded, LeaseFinished, LeaseLost,
           RequestDies, HeartbeatReads, HeartbeatWrites,
           AbandonedLeaseLapses, HeldLeaseLapses, Recover, AnswerChecks,
           AnswerResumes, AnswerCompletes, AnswerFails, Recorded
  <1>2. faults.disconnect \in Nat
    BY WorkerAssumption DEF TypeInv, TypeOK, FaultTypeOK
  <1>3. ASSUME Spend PROVE faults.disconnect = 0
    BY <1>2, <1>3 DEF TypeInv, TypeOK, FaultTypeOK, Crashes, Disconnects, Drops,
         Duplicates, Lapses, Overlaps
  <1> QED
    BY <1>1, <1>3

(* A row is written only when it was claimed, and one that the recovery    *)
(* scheduler has expired is not written again.                             *)
LEMMA TransactionClaimsRows ==
  ASSUME RunTypeOK, RowsAreClaimed, MaxOverlaps = 0,
         NEW r \in Runs, NEW n \in AttemptNo, RunTransaction(r, n)
  PROVE  /\ RowsAreClaimed'
         /\ \A x \in Runs, m \in AttemptNo :
              attempts[x][m] = "EXPIRED" => attempts'[x][m] = "EXPIRED"
         /\ \A x \in Runs : last'[x] = last[x] \/ status'[x] # "QUEUED"
  <1> USE MaxAttemptsAssumption
      DEF RunTypeOK, RowsAreClaimed, Valid, InTime, SetStatus, SetAttempt, AttemptNo
  <1>1. CASE CreateQueued(r)
    BY <1>1 DEF CreateQueued
  <1>2. CASE Claim(r)
    BY <1>2 DEF Claim
  <1>3. CASE Complete(r, n) /\ (Valid(r, n) \/ MaxOverlaps > 0)
    BY <1>3 DEF Complete
  <1>4. CASE CompleteRun(r)
    BY <1>4 DEF CompleteRun
  <1>5. CASE MarkWaitingForUser(r)
    BY <1>5 DEF MarkWaitingForUser
  <1>6. CASE FinishLease(r, n)
    BY <1>6 DEF FinishLease
  <1>7. CASE Resume(r)
    BY <1>7 DEF Resume
  <1>8. CASE Retry(r, n)
    BY <1>8 DEF Retry, Retryable
  <1>9. CASE Fail(r, n)
    BY <1>9 DEF Fail
  <1>10. CASE Cancel(r)
    BY <1>10 DEF Cancel
  <1>11. CASE LeaseLapses(r, n)
    BY <1>11 DEF LeaseLapses
  <1>12. CASE ExpireLease(r, n)
    BY <1>12 DEF ExpireLease
  <1>13. CASE WriteHeartbeat(r, n) /\ MaxOverlaps > 0
    BY <1>13
  <1> QED
    BY <1>1, <1>2, <1>3, <1>4, <1>5, <1>6, <1>7, <1>8, <1>9, <1>10, <1>11,
       <1>12, <1>13 DEF RunTransaction

(* A slot keeps its message until it hands it back, and its call is for    *)
(* the run of that message.                                                *)
LEMMA HoldingStep ==
  ASSUME TypeInv, HoldersKeepMessages, CallsAreForTheTask, Next
  PROVE  HoldersKeepMessages' /\ CallsAreForTheTask'
  <1> DEFINE Goal == HoldersKeepMessages' /\ CallsAreForTheTask'
  <1>0. faults'.disconnect = 0 => faults.disconnect = 0
    BY LossesStay
  <1> USE <1>0 DEF TypeInv, TypeOK, ControlTypeOK, HoldersKeepMessages, CallsAreForTheTask, Goto
  <1>1. CASE UNCHANGED <<pc, task, holds, request>>
    BY <1>1
  <1>2. ASSUME NEW w \in Slots, NEW r \in Runs, Deliver(w, r) PROVE Goal
    BY <1>2 DEF Deliver, requestVars
  <1>3. ASSUME NEW w \in Slots, NEW l \in PC \ {"calling"}, pc[w] # "idle", Goto(w, l),
               UNCHANGED <<task, holds, request>>
        PROVE  Goal
    BY <1>3
  <1>4. ASSUME NEW w \in Slots, NEW e \in Endpoint, Call(w, e) PROVE Goal
    BY <1>4 DEF Call
  <1>5. ASSUME NEW w \in Slots, LeaveHandler(w), UNCHANGED request PROVE Goal
    BY <1>5 DEF LeaveHandler
  <1>6. ASSUME NEW w \in Slots, ConnectionLost(w) PROVE Goal
    <2>1. faults'.disconnect # 0
      BY <1>6, WorkerAssumption DEF ConnectionLost, Disconnects, FaultTypeOK
    <2> QED
      BY <1>6, <2>1 DEF ConnectionLost, requestVars
  <1>7. ASSUME NEW w \in Slots, NEW l \in PC \ {"calling", "idle"}, Respond(w, l) PROVE Goal
    BY <1>7 DEF Respond
  <1>8. ASSUME NEW w \in Slots, Recorded(w) PROVE Goal
    BY <1>8 DEF Recorded, slotVars
  <1>9. ASSUME NEW r \in Runs, RunStep(r) PROVE UNCHANGED <<pc, task, holds, request>>
    BY <1>9 DEF RunStep, Enqueue, SaveOutbox, EnqueuerCrashes, Publish, PublishUnrecorded,
         UserCancels, slotVars, requestVars
  <1>10. ASSUME NEW r \in Runs, NEW n \in AttemptNo, LeaseStep(r, n)
         PROVE  UNCHANGED <<pc, task, holds, request>>
    BY <1>10 DEF LeaseStep, AbandonedLeaseLapses, HeldLeaseLapses, Recover, slotVars,
         requestVars
  <1>11. ASSUME NEW a \in Answers, AnswerStep(a) PROVE UNCHANGED <<pc, task, holds, request>>
    BY <1>11 DEF AnswerStep, AnswerChecks, AnswerResumes, AnswerCompletes, AnswerFails,
         slotVars, requestVars
  <1>12. ASSUME NEW w \in Slots, RequestStep(w) PROVE Goal
    <2>1. CASE HeartbeatReads(w) \/ HeartbeatWrites(w)
      BY <1>1, <2>1 DEF HeartbeatReads, HeartbeatWrites, slotVars
    <2>2. CASE WaitingRecorded(w) \/ CandidateRecorded(w)
      BY <1>8, <2>2 DEF WaitingRecorded, CandidateRecorded
    <2>3. CASE \/ CompleteCommits(w) \/ CompleteRollsBack(w) \/ LeaseFinished(w)
               \/ LeaseLost(w) \/ RequestDies(w)
      <3>1. {"settled", "failing"} \subseteq PC \ {"calling", "idle"}
        BY DEF PC
      <3> QED
        BY <1>7, <2>3, <3>1 DEF CompleteCommits, CompleteRollsBack, LeaseFinished, LeaseLost,
             RequestDies
    <2> QED
      BY <1>12, <2>1, <2>2, <2>3 DEF RequestStep
  <1>13. ASSUME NEW w \in Slots, WorkerStep(w) PROVE Goal
    <2>1. CASE \E r \in Runs : Deliver(w, r)
      BY <1>2, <2>1
    <2>2. CASE \E e \in Endpoints(kind[task[w]]) : pc[w] = "running" /\ Call(w, e)
      <3>1. Endpoints(kind[task[w]]) \subseteq Endpoint
        BY <2>2, WorkerAssumption DEF Endpoints, Endpoint, RunKind, HoldersKnown
      <3> QED
        BY <1>4, <2>2, <3>1
    <2>3. CASE Ack(w) \/ Nack(w) \/ Reject(w) \/ WorkerCrashes(w)
      BY <1>5, <2>3 DEF Ack, Nack, Reject, WorkerCrashes, requestVars
    <2>4. CASE ConnectionLost(w)
      BY <1>6, <2>4
    <2>5. CASE \/ ClaimGranted(w) \/ ClaimRefused(w) \/ ClaimLost(w) \/ WorkFails(w)
               \/ CallTimesOut(w) \/ RetryAccepted(w) \/ RetryRefused(w)
               \/ FailAccepted(w) \/ FailRefused(w) \/ FailureCallLost(w)
      <3>1. {"running", "settled", "returning", "failing", "rejecting"} \subseteq PC \ {"calling"}
        BY DEF PC
      <3> QED
        BY <1>3, <2>5, <3>1 DEF ClaimGranted, ClaimRefused, ClaimLost, WorkFails, CallTimesOut,
             RetryAccepted, RetryRefused, FailAccepted, FailRefused, FailureCallLost, requestVars
    <2> QED
      BY <1>13, <2>1, <2>2, <2>3, <2>4, <2>5 DEF WorkerStep
  <1> QED
    BY <1>1, <1>9, <1>10, <1>11, <1>12, <1>13 DEF Next

(* Only the request for a candidate pool leaves the outbox row for later.  *)
LEMMA UnsavedStep ==
  ASSUME TypeInv, OnlyPoolsAreUnsaved, Next
  PROVE  OnlyPoolsAreUnsaved' /\ kind' = kind
  <1> DEFINE Goal == OnlyPoolsAreUnsaved' /\ kind' = kind
  <1> USE DEF TypeInv, TypeOK, Queue!QueueTypeOK, OnlyPoolsAreUnsaved
  <1>1. CASE UNCHANGED <<outbox, kind>>
    BY <1>1
  <1>2. ASSUME NEW r \in Runs, RunStep(r) PROVE Goal
    BY <1>2 DEF RunStep, Enqueue, SaveOutbox, EnqueuerCrashes, Publish, PublishUnrecorded,
         UserCancels, queueVars, Queue!SetOutbox, Queue!Publish, Queue!PublishUnrecorded
  <1>3. ASSUME NEW r \in Runs, NEW n \in AttemptNo, LeaseStep(r, n) PROVE Goal
    BY <1>1, <1>3 DEF LeaseStep, AbandonedLeaseLapses, HeldLeaseLapses, Recover, queueVars
  <1>4. ASSUME NEW a \in Answers, AnswerStep(a) PROVE Goal
    BY <1>1, <1>4 DEF AnswerStep, AnswerChecks, AnswerResumes, AnswerCompletes, AnswerFails,
         queueVars
  <1>5. ASSUME NEW w \in Slots, RequestStep(w) PROVE Goal
    BY <1>1, <1>5 DEF RequestStep, CompleteCommits, CompleteRollsBack, WaitingRecorded,
         CandidateRecorded, LeaseFinished, LeaseLost, RequestDies, HeartbeatReads,
         HeartbeatWrites, Respond, Recorded, queueVars
  <1>6. ASSUME NEW w \in Slots, WorkerStep(w) PROVE Goal
    BY <1>1, <1>6 DEF WorkerStep, Deliver, ClaimGranted, ClaimRefused, ClaimLost, WorkFails,
         Call, CallTimesOut, RetryAccepted, RetryRefused, FailAccepted, FailRefused,
         FailureCallLost, Ack, Nack, Reject, WorkerCrashes, ConnectionLost, queueVars,
         Queue!Take, Queue!Requeue, Queue!DeadLetter
  <1> QED
    BY <1>2, <1>3, <1>4, <1>5, <1>6 DEF Next

(* A run that waits in the queue, and was not put there by the recovery    *)
(* scheduler.                                                              *)
Waits(r) == status[r] = "QUEUED" /\ ~TakenBack(r)

(* The step of a run, a lease or an answers request: the message of a run  *)
(* that waits is where it was, or was just put there.                      *)
LEMMA RunKeepsTicket ==
  ASSUME TypeInv, TicketInv, NothingIsOvertaken, faults.disconnect = 0,
         NEW x \in Runs, Waits(x)', Waits(x) \/ status[x] # "QUEUED",
         \/ \E r \in Runs : RunStep(r)
         \/ \E r \in Runs, n \in AttemptNo : LeaseStep(r, n)
         \/ \E a \in Answers : AnswerStep(a)
  PROVE  HasTicket(x)'
  <1> USE DEF TypeInv, TypeOK, RunTypeOK, Queue!QueueTypeOK, Waits, TakenBack
  <1>1. UNCHANGED slotVars
    BY DEF RunStep, LeaseStep, AnswerStep, Enqueue, SaveOutbox, EnqueuerCrashes, Publish,
         PublishUnrecorded, UserCancels, AbandonedLeaseLapses, HeldLeaseLapses, Recover,
         AnswerChecks, AnswerResumes, AnswerCompletes, AnswerFails
  <1>2. Waits(x) => HasTicket(x)
    BY DEF TicketInv, RetryKeepsTicket
  <1>3. CASE Waits(x) /\ UNCHANGED queueVars
    BY <1>1, <1>2, <1>3 DEF HasTicket, Carries, slotVars, queueVars
  <1>4. ASSUME NEW r \in Runs, RunStep(r) PROVE HasTicket(x)'
    <2>1. CASE Enqueue(r)
      <3>1. CASE x = r
        BY <2>1, <3>1 DEF Enqueue, Queue!SetOutbox, HasTicket
      <3>2. CASE x # r
        <4>1. Waits(x) /\ outbox'[x] = outbox[x] /\ ready'[x] = ready[x]
          BY <2>1, <3>2 DEF Enqueue, CreateQueued, SetStatus, Queue!SetOutbox
        <4> QED
          BY <1>1, <1>2, <4>1 DEF HasTicket, Carries, slotVars
      <3> QED
        BY <3>1, <3>2
    <2>2. CASE SaveOutbox(r)
      <3>1. Waits(x) /\ (outbox'[x] = "PENDING" \/ outbox'[x] = outbox[x]) /\ ready'[x] = ready[x]
        BY <2>2 DEF SaveOutbox, runVars, Queue!SetOutbox
      <3> QED
        BY <1>1, <1>2, <3>1 DEF HasTicket, Carries, slotVars
    <2>3. CASE EnqueuerCrashes(r)
      BY <2>3, WorkerAssumption DEF EnqueuerCrashes, Crashes, NothingIsOvertaken, TicketInv,
           OnlyPoolsAreUnsaved, ControlTypeOK, FaultTypeOK
    <2>4. CASE Publish(r)
      <3>0. ready[x] \in Nat
        OBVIOUS
      <3>1. Waits(x)
        BY <2>4 DEF Publish, runVars
      <3>2. CASE x = r
        <4>1. ready'[x] = ready[x] + 1
          BY <2>4, <3>2 DEF Publish, Queue!Publish
        <4> QED
          BY <3>0, <4>1 DEF HasTicket
      <3>3. CASE x # r
        <4>1. outbox'[x] = outbox[x] /\ ready'[x] = ready[x]
          BY <2>4, <3>3 DEF Publish, Queue!Publish
        <4> QED
          BY <1>1, <1>2, <3>1, <4>1 DEF HasTicket, Carries, slotVars
      <3> QED
        BY <3>2, <3>3
    <2>5. CASE PublishUnrecorded(r)
      <3>0. ready[x] \in Nat
        OBVIOUS
      <3>1. Waits(x)
        BY <2>5 DEF PublishUnrecorded, runVars
      <3>2. CASE x = r
        <4>1. ready'[x] = ready[x] + 1
          BY <2>5, <3>2 DEF PublishUnrecorded, Queue!PublishUnrecorded
        <4> QED
          BY <3>0, <4>1 DEF HasTicket
      <3>3. CASE x # r
        <4>1. outbox'[x] = outbox[x] /\ ready'[x] = ready[x]
          BY <2>5, <3>3 DEF PublishUnrecorded, Queue!PublishUnrecorded
        <4> QED
          BY <1>1, <1>2, <3>1, <4>1 DEF HasTicket, Carries, slotVars
      <3> QED
        BY <3>2, <3>3
    <2>6. CASE UserCancels(r)
      BY <1>3, <2>6 DEF UserCancels, Cancel, SetStatus
    <2> QED
      BY <1>4, <2>1, <2>2, <2>3, <2>4, <2>5, <2>6 DEF RunStep
  <1>5. ASSUME NEW r \in Runs, NEW n \in AttemptNo, LeaseStep(r, n) PROVE HasTicket(x)'
    <2>1. UNCHANGED queueVars
      BY <1>5 DEF LeaseStep, AbandonedLeaseLapses, HeldLeaseLapses, Recover
    <2>2. CASE LeaseLapses(r, n)
      <3>1. status' = status /\ last' = last
        BY <2>2 DEF LeaseLapses
      <3>2. TakenBack(x) => TakenBack(x)'
        BY <2>2, <3>1, MaxAttemptsAssumption DEF LeaseLapses, SetAttempt, AttemptNo
      <3> QED
        BY <1>3, <2>1, <3>1, <3>2
    <2>3. CASE ExpireLease(r, n)
      <3>1. n = last[r] /\ last' = last /\ n > 0
        BY <2>3, MaxAttemptsAssumption
        DEF ExpireLease, TicketInv, LeaseDiscipline, RowRunning, AttemptNo
      <3>2. attempts'[r][n] = "EXPIRED"
        BY <2>3 DEF ExpireLease, SetAttempt
      <3>3. x # r
        BY <3>1, <3>2
      <3>4. status'[x] = status[x] /\ attempts'[x] = attempts[x]
        BY <2>3, <3>3 DEF ExpireLease, SetStatus, SetAttempt
      <3> QED
        BY <1>3, <2>1, <3>1, <3>4
    <2> QED
      BY <1>5, <2>2, <2>3 DEF LeaseStep, AbandonedLeaseLapses, HeldLeaseLapses, Recover
  <1>6. ASSUME NEW a \in Answers, AnswerStep(a) PROVE HasTicket(x)'
    BY <1>3, <1>6 DEF AnswerStep, AnswerChecks, AnswerResumes, AnswerCompletes, AnswerFails,
         Resume, CompleteRun, SetStatus, runVars
  <1> QED
    BY <1>4, <1>5, <1>6

(* The step of a Java request: a caller that is told its work is settled   *)
(* has a run that is over, or one whose lease it has just finished.        *)
LEMMA RequestKeepsTicket ==
  ASSUME TypeInv, TicketInv, NothingIsOvertaken, faults.disconnect = 0,
         NEW x \in Runs, Waits(x)', Waits(x) \/ status[x] # "QUEUED",
         NEW w \in Slots, RequestStep(w)
  PROVE  HasTicket(x)'
  <1> USE DEF TypeInv, TypeOK, RunTypeOK, ControlTypeOK, Waits, TakenBack
  <1>1. Waits(x) => HasTicket(x)
    BY DEF TicketInv, RetryKeepsTicket
  <1>2. CASE Waits(x) /\ UNCHANGED queueVars /\ UNCHANGED slotVars
    BY <1>1, <1>2 DEF HasTicket, Carries, slotVars, queueVars
  <1>3. ASSUME NEW l \in {"settled", "failing"}, Waits(x), Respond(w, l),
               pc[w] = "calling" /\ l = "settled" => task[w] # x
        PROVE  HasTicket(x)'
    <2>1. \A v \in Slots : Carries(v, x) => Carries(v, x)'
      BY <1>3 DEF Respond, Carries
    <2>2. outbox' = outbox /\ ready' = ready
      BY <1>3 DEF Respond, queueVars
    <2> QED
      BY <1>1, <1>3, <2>1, <2>2 DEF HasTicket
  <1>4. pc[w] = "calling" => request[w].run = task[w] /\ request[w].stage # "none"
    BY DEF TicketInv, CallsAreForTheTask
  <1>5. CASE CompleteCommits(w)
    BY <1>3, <1>4, <1>5 DEF CompleteCommits, Complete, SetStatus
  <1>6. CASE CompleteRollsBack(w) \/ LeaseLost(w) \/ RequestDies(w)
    BY <1>3, <1>6 DEF CompleteRollsBack, LeaseLost, RequestDies, runVars
  <1>7. CASE LeaseFinished(w)
    <2>1. request[w].run \in Runs /\ request[w].no \in AttemptNo
      BY <1>7 DEF LeaseFinished, HoldersKnown
    <2>2. status[request[w].run] # "QUEUED"
      BY <1>7, <2>1 DEF LeaseFinished, FinishLease, Valid, TicketInv, LeaseDiscipline, RowRunning
    <2> QED
      BY <1>3, <1>4, <1>7, <2>2 DEF LeaseFinished, FinishLease
  <1>8. CASE WaitingRecorded(w) \/ CandidateRecorded(w)
    BY <1>2, <1>8 DEF WaitingRecorded, CandidateRecorded, MarkWaitingForUser, CompleteRun,
         SetStatus, Recorded
  <1>9. CASE HeartbeatReads(w) \/ HeartbeatWrites(w)
    BY <1>2, <1>9 DEF HeartbeatReads, HeartbeatWrites, WriteHeartbeat, runVars
  <1> QED
    BY <1>5, <1>6, <1>7, <1>8, <1>9 DEF RequestStep

(* The step of a slot: it lets go of a message only when it returns it, or *)
(* when the run does not wait.                                             *)
LEMMA WorkerKeepsTicket ==
  ASSUME TypeInv, TicketInv, NothingIsOvertaken, faults'.disconnect = 0,
         faults.disconnect = 0,
         NEW x \in Runs, Waits(x)', Waits(x) \/ status[x] # "QUEUED",
         NEW w \in Slots, WorkerStep(w)
  PROVE  HasTicket(x)'
  <1> USE DEF TypeInv, TypeOK, RunTypeOK, Queue!QueueTypeOK, ControlTypeOK, Waits, TakenBack, Goto
  <1>1. Waits(x) => HasTicket(x)
    BY DEF TicketInv, RetryKeepsTicket
  <1>2. pc[w] # "idle" => holds[w] /\ task[w] \in Runs
    BY DEF TicketInv, HoldersKeepMessages
  <1>3. ASSUME Waits(x), NEW l \in {"running", "calling", "failing", "returning"},
               pc[w] # "idle", Goto(w, l), UNCHANGED <<task, holds, queueVars>>
        PROVE  HasTicket(x)'
    <2>1. \A v \in Slots : Carries(v, x) => Carries(v, x)'
      BY <1>3 DEF Carries
    <2> QED
      BY <1>1, <1>3, <2>1 DEF HasTicket, queueVars
  <1>4. ASSUME Waits(x), task[w] # x, NEW l, Goto(w, l), UNCHANGED <<task, holds, queueVars>>
        PROVE  HasTicket(x)'
    <2>1. \A v \in Slots : Carries(v, x) => Carries(v, x)'
      BY <1>4 DEF Carries
    <2> QED
      BY <1>1, <1>4, <2>1 DEF HasTicket, queueVars
  <1>5. ASSUME Waits(x), LeaveHandler(w), outbox' = outbox,
               IF pc[w] \in {"settled", "rejecting"} \/ task[w] # x
               THEN ready'[x] \in {ready[x], ready[x] + 1} ELSE ready'[x] = ready[x] + 1
        PROVE  HasTicket(x)'
    <2>1. ready[x] \in Nat
      OBVIOUS
    <2>2. \A v \in Slots : v # w /\ Carries(v, x) => Carries(v, x)'
      BY <1>5 DEF Carries, LeaveHandler
    <2>3. Carries(w, x) => ready'[x] > 0
      BY <1>5, <2>1 DEF Carries
    <2>4. ready[x] > 0 => ready'[x] > 0
      BY <1>5, <2>1
    <2> QED
      BY <1>1, <1>5, <2>2, <2>3, <2>4 DEF HasTicket
  <1>6. ASSUME NEW r \in Runs, Deliver(w, r) PROVE HasTicket(x)'
    <2>1. CASE x = r
      BY <1>6, <2>1 DEF Deliver, HasTicket, Carries
    <2>2. CASE x # r
      <3>1. outbox' = outbox /\ ready'[x] = ready[x] /\ Waits(x)
        BY <1>6, <2>2 DEF Deliver, Queue!Take, runVars
      <3>2. \A v \in Slots : Carries(v, x) => Carries(v, x)'
        BY <1>6 DEF Deliver, Carries
      <3> QED
        BY <1>1, <3>1, <3>2 DEF HasTicket
    <2> QED
      BY <2>1, <2>2
  <1>7. CASE ClaimGranted(w)
    BY <1>2, <1>3, <1>7 DEF ClaimGranted, Claim, SetStatus
  <1>8. CASE ClaimRefused(w)
    BY <1>4, <1>8 DEF ClaimRefused, Claimable, runVars
  <1>9. CASE ClaimLost(w)
    BY <1>2, <1>3, <1>9 DEF ClaimLost, Claim, SetStatus, runVars
  <1>10. CASE WorkFails(w) \/ CallTimesOut(w) \/ RetryRefused(w) \/ FailRefused(w)
    BY <1>3, <1>10 DEF WorkFails, CallTimesOut, RetryRefused, FailRefused, runVars
  <1>11. CASE \E e \in Endpoints(kind[task[w]]) : Call(w, e)
    BY <1>3, <1>11 DEF Call, runVars
  <1>12. ASSUME Retry(task[w], lease[w]) \/ Fail(task[w], lease[w]) \/ UNCHANGED runVars,
                pc[w] = "failing", Goto(w, "returning"), UNCHANGED <<task, holds, queueVars>>
         PROVE  HasTicket(x)'
    <2>1. CASE task[w] = x
      BY <1>2, <1>12, <2>1 DEF HasTicket, Carries
    <2>2. CASE task[w] # x
      <3>1. Waits(x)
        BY <1>12, <2>2 DEF Retry, Fail, SetStatus, runVars
      <3> QED
        BY <1>3, <1>12, <3>1
    <2> QED
      BY <2>1, <2>2
  <1>13. CASE RetryAccepted(w) \/ FailureCallLost(w)
    BY <1>12, <1>13 DEF RetryAccepted, FailureCallLost
  <1>14. CASE FailAccepted(w)
    BY <1>2, <1>4, <1>14 DEF FailAccepted, Fail, SetStatus
  <1>15. CASE Ack(w)
    BY <1>5, <1>15 DEF Ack, runVars, queueVars
  <1>16. CASE Nack(w) \/ WorkerCrashes(w)
    BY <1>2, <1>5, <1>16 DEF Nack, WorkerCrashes, Queue!Requeue, runVars
  <1>17. CASE Reject(w)
    BY <1>2, <1>5, <1>17 DEF Reject, Queue!DeadLetter, runVars
  <1>18. CASE ConnectionLost(w)
    BY <1>18, WorkerAssumption DEF ConnectionLost, Disconnects, FaultTypeOK
  <1> QED
    BY <1>6, <1>7, <1>8, <1>9, <1>10, <1>11, <1>13, <1>14, <1>15, <1>16, <1>17, <1>18
    DEF WorkerStep

(* A retry never loses the task.  Where no transaction is overtaken, every *)
(* run is created with its outbox row and no connection is lost, a queued  *)
(* run has its message: in the outbox, in the queue, or in the hands of    *)
(* the worker that is about to return it.  Not so a run that the recovery  *)
(* scheduler queued after its last attempt expired; one that was claimed   *)
(* again since counts like any other.                                      *)
THEOREM RetriesKeepTickets == NothingIsOvertaken => (Spec => []RetryKeepsTicket)
  <1> SUFFICES ASSUME NothingIsOvertaken PROVE Spec => []RetryKeepsTicket
    OBVIOUS
  <1>1. Init => TicketInv
    BY MaxAttemptsAssumption
    DEF Init, RunInit, Queue!QueueInit, TicketInv, HoldersKeepMessages, CallsAreForTheTask,
        RowsAreClaimed, OnlyPoolsAreUnsaved, LeaseDiscipline, RowRunning, RetryKeepsTicket
  <1>2. TypeInv /\ TicketInv /\ [Next]_vars => TicketInv'
    <2> SUFFICES ASSUME TypeInv, TicketInv, [Next]_vars PROVE TicketInv'
      OBVIOUS
    <2>1. CASE UNCHANGED vars
      BY <2>1
      DEF vars, runVars, queueVars, slotVars, requestVars, TicketInv, HoldersKeepMessages,
          CallsAreForTheTask, RowsAreClaimed, OnlyPoolsAreUnsaved, LeaseDiscipline, RowRunning,
          RetryKeepsTicket, TakenBack, HasTicket, Carries
    <2>2. CASE Next
      <3>1. HoldersKeepMessages' /\ CallsAreForTheTask' /\ OnlyPoolsAreUnsaved'
        BY <2>2, HoldingStep, UnsavedStep DEF TicketInv
      <3>2. /\ RowsAreClaimed'
            /\ \A r \in Runs, n \in AttemptNo :
                 attempts[r][n] = "EXPIRED" => attempts'[r][n] = "EXPIRED"
            /\ \A r \in Runs : last'[r] = last[r] \/ status'[r] # "QUEUED"
        <4>1. CASE UNCHANGED runVars
          BY <4>1 DEF TicketInv, RowsAreClaimed, runVars
        <4> QED
          BY <2>2, <4>1, StepIsTransaction, TransactionClaimsRows
          DEF TicketInv, TypeInv, TypeOK, NothingIsOvertaken
      <3>3. LeaseDiscipline'
        <4>1. CASE UNCHANGED runVars
          BY <4>1 DEF TicketInv, LeaseDiscipline, RowRunning, runVars
        <4> QED
          BY <2>2, <4>1, StepIsTransaction, TransactionKeepsDiscipline
          DEF TicketInv, TypeInv, TypeOK, NothingIsOvertaken
      <3>4. RetryKeepsTicket'
        <4> SUFFICES ASSUME faults'.disconnect = 0, NEW x \in Runs, Waits(x)'
                     PROVE  HasTicket(x)'
          BY DEF RetryKeepsTicket, Waits
        <4>1. faults.disconnect = 0
          BY <2>2, LossesStay
        <4>2. Waits(x) \/ status[x] # "QUEUED"
          <5>1. last[x] \in 0 .. MaxAttempts /\ last'[x] = last[x]
            BY <3>2 DEF Waits, TypeInv, TypeOK, RunTypeOK
          <5>2. last[x] > 0 => last[x] \in AttemptNo
            BY <5>1, MaxAttemptsAssumption DEF AttemptNo
          <5> QED
            BY <3>2, <5>1, <5>2 DEF Waits, TakenBack
        <4> QED
          BY <2>2, <4>1, <4>2, RunKeepsTicket, RequestKeepsTicket, WorkerKeepsTicket DEF Next
      <3> QED
        BY <3>1, <3>2, <3>3, <3>4 DEF TicketInv
    <2> QED
      BY <2>1, <2>2
  <1>3. TicketInv => RetryKeepsTicket
    BY DEF TicketInv
  <1> QED
    BY <1>1, <1>2, <1>3, AlwaysTypeInv, PTL DEF Spec

-----------------------------------------------------------------------------
(* Refinement.  A report is completed in one transaction, so its run never *)
(* is in an ending while one of its attempts still holds a lease, and no   *)
(* question is ever asked of its user, whatever the other runs do.         *)
IsReport(r) == kind[r] = "TOURNAMENT_REPORT"

RequestsComplete ==
  \A r \in Runs, w \in Slots : IsReport(r) /\ request[w].run = r =>
    request[w].stage = "none" \/ At(w, "asserted", "complete")

LeaseMeansRunning ==
  \A r \in Runs, n \in AttemptNo : IsReport(r) /\ RowRunning(r, n) =>
    n = last[r] /\ status[r] = "RUNNING"

NoQuestions == \A r \in Runs : IsReport(r) => status[r] # "WAITING_FOR_USER"

NoAnswers == \A r \in Runs, a \in Answers : IsReport(r) => answer[a].run # r

ReportInv == RequestsComplete /\ LeaseMeansRunning /\ NoQuestions /\ NoAnswers

(* A run never changes its kind.                                           *)
LEMMA KindStays ==
  ASSUME Next
  PROVE  kind' = kind
  <1>1. ASSUME NEW r \in Runs, RunStep(r) PROVE kind' = kind
    BY <1>1 DEF RunStep, Enqueue, SaveOutbox, EnqueuerCrashes, Publish, PublishUnrecorded,
         UserCancels
  <1>2. ASSUME NEW r \in Runs, NEW n \in AttemptNo, LeaseStep(r, n) PROVE kind' = kind
    BY <1>2 DEF LeaseStep, AbandonedLeaseLapses, HeldLeaseLapses, Recover
  <1>3. ASSUME NEW a \in Answers, AnswerStep(a) PROVE kind' = kind
    BY <1>3 DEF AnswerStep, AnswerChecks, AnswerResumes, AnswerCompletes, AnswerFails
  <1>4. ASSUME NEW w \in Slots, RequestStep(w) PROVE kind' = kind
    BY <1>4 DEF RequestStep, CompleteCommits, CompleteRollsBack, WaitingRecorded,
         CandidateRecorded, LeaseFinished, LeaseLost, RequestDies, HeartbeatReads,
         HeartbeatWrites, Respond, Recorded
  <1>5. ASSUME NEW w \in Slots, WorkerStep(w) PROVE kind' = kind
    BY <1>5 DEF WorkerStep, Deliver, ClaimGranted, ClaimRefused, ClaimLost, WorkFails,
         Call, CallTimesOut, RetryAccepted, RetryRefused, FailAccepted, FailRefused,
         FailureCallLost, Ack, Nack, Reject, WorkerCrashes, ConnectionLost
  <1> QED
    BY <1>1, <1>2, <1>3, <1>4, <1>5 DEF Next

(* A request of a report run is for the single-transaction endpoint.       *)
LEMMA RequestsStayComplete ==
  ASSUME TypeInv, RequestsComplete, Next
  PROVE  RequestsComplete'
  <1> USE KindStays
      DEF TypeInv, TypeOK, ControlTypeOK, RequestsComplete, IsReport, At
  <1>1. ASSUME NEW r \in Runs, RunStep(r) PROVE request' = request
    BY <1>1 DEF RunStep, Enqueue, SaveOutbox, EnqueuerCrashes, Publish, PublishUnrecorded,
         UserCancels, requestVars
  <1>2. ASSUME NEW r \in Runs, NEW n \in AttemptNo, LeaseStep(r, n) PROVE request' = request
    BY <1>2 DEF LeaseStep, AbandonedLeaseLapses, HeldLeaseLapses, Recover, requestVars
  <1>3. ASSUME NEW v \in Slots, WorkerStep(v) PROVE RequestsComplete'
    <2>1. CASE pc[v] = "running" /\ \E e \in Endpoints(kind[task[v]]) : Call(v, e)
      <3>1. PICK e \in Endpoints(kind[task[v]]) : Call(v, e)
        BY <2>1
      <3>2. IsReport(task[v]) => e = "complete"
        BY <3>1 DEF Endpoints
      <3> QED
        BY <3>1, <3>2 DEF Call
    <2>2. CASE request' = request
      BY <2>2
    <2> QED
      BY <1>3, <2>1, <2>2
      DEF WorkerStep, Deliver, ClaimGranted, ClaimRefused, ClaimLost, WorkFails,
          CallTimesOut, RetryAccepted, RetryRefused, FailAccepted, FailRefused,
          FailureCallLost, Ack, Nack, Reject, WorkerCrashes, ConnectionLost, requestVars
  <1>4. ASSUME NEW v \in Slots, RequestStep(v) PROVE RequestsComplete'
    <2>0. CASE request' = request
      BY <2>0
    <2>1. CASE request' = [request EXCEPT ![v] = NoRequest]
      <3>1. request'[v].stage = "none" /\ \A w \in Slots : w # v => request'[w] = request[w]
        BY <2>1 DEF NoRequest
      <3> QED
        BY <3>1
    <2>2. CASE At(v, "asserted", "waiting") /\ Recorded(v)
      BY <2>2 DEF Recorded
    <2>3. CASE At(v, "asserted", "complete-candidate") /\ Recorded(v)
      BY <2>3 DEF Recorded
    <2> QED
      BY <1>4, <2>0, <2>1, <2>2, <2>3
      DEF RequestStep, CompleteCommits, CompleteRollsBack, WaitingRecorded,
          CandidateRecorded, LeaseFinished, LeaseLost, RequestDies, HeartbeatReads,
          HeartbeatWrites, Respond
  <1>5. ASSUME NEW a \in Answers, AnswerStep(a) PROVE request' = request
    BY <1>5 DEF AnswerStep, AnswerChecks, AnswerResumes, AnswerCompletes, AnswerFails,
         requestVars
  <1> QED
    BY <1>1, <1>2, <1>3, <1>4, <1>5 DEF Next

(* A report run that asks nothing is answered nothing.                     *)
LEMMA AnswersStayAway ==
  ASSUME TypeInv, NoQuestions, NoAnswers, Next
  PROVE  NoAnswers'
  <1> USE KindStays DEF TypeInv, TypeOK, ControlTypeOK, NoQuestions, NoAnswers, IsReport
  <1>1. ASSUME NEW r \in Runs, RunStep(r) PROVE answer' = answer
    BY <1>1 DEF RunStep, Enqueue, SaveOutbox, EnqueuerCrashes, Publish, PublishUnrecorded,
         UserCancels
  <1>2. ASSUME NEW r \in Runs, NEW n \in AttemptNo, LeaseStep(r, n) PROVE answer' = answer
    BY <1>2 DEF LeaseStep, AbandonedLeaseLapses, HeldLeaseLapses, Recover
  <1>3. ASSUME NEW w \in Slots, WorkerStep(w) PROVE answer' = answer
    BY <1>3 DEF WorkerStep, Deliver, ClaimGranted, ClaimRefused, ClaimLost, WorkFails,
         Call, CallTimesOut, RetryAccepted, RetryRefused, FailAccepted, FailRefused,
         FailureCallLost, Ack, Nack, Reject, WorkerCrashes, ConnectionLost
  <1>4. ASSUME NEW w \in Slots, RequestStep(w) PROVE answer' = answer
    BY <1>4 DEF RequestStep, CompleteCommits, CompleteRollsBack, WaitingRecorded,
         CandidateRecorded, LeaseFinished, LeaseLost, RequestDies, HeartbeatReads,
         HeartbeatWrites, Respond, Recorded
  <1>5. ASSUME NEW a \in Answers, AnswerStep(a) PROVE NoAnswers'
    <2>1. ASSUME NEW r \in Runs, AnswerChecks(a, r) PROVE NoAnswers'
      BY <2>1 DEF AnswerChecks, AnswerMoves
    <2>2. ASSUME NEW l, AnswerMoves(a, answer[a].run, l) PROVE NoAnswers'
      BY <2>2 DEF AnswerMoves
    <2> QED
      BY <1>5, <2>1, <2>2 DEF AnswerStep, AnswerResumes, AnswerCompletes, AnswerFails
  <1> QED
    BY <1>1, <1>2, <1>3, <1>4, <1>5 DEF Next

(* A transaction writes the rows of its own run only.                      *)
LEMMA TransactionIsLocal ==
  ASSUME RunTypeOK, NEW r \in Runs, NEW n \in AttemptNo, RunTransaction(r, n),
         NEW x \in Runs, x # r
  PROVE  /\ status'[x] = status[x] /\ outcome'[x] = outcome[x]
         /\ attempts'[x] = attempts[x] /\ last'[x] = last[x]
  BY DEF RunTypeOK, RunTransaction, SetStatus, SetAttempt, Emit, CreateQueued, Claim,
     Complete, CompleteRun, MarkWaitingForUser, FinishLease, Resume, Retry, Fail, Cancel,
     LeaseLapses, ExpireLease, WriteHeartbeat

(* What is done to the row of a report run, the lifecycle sees done.       *)
LEMMA ReportIsSeen ==
  ASSUME RunTypeOK, kind' = kind, NEW r \in Runs, IsReport(r)
  PROVE  /\ ReportStatus[r] = status[r]
         /\ \A s : SetStatus(r, s) => ReportStatus' = [ReportStatus EXCEPT ![r] = s]
         /\ \A e : Emit(r, e) => Lifecycle!Announce(r, e)
         /\ status' = status => ReportStatus' = ReportStatus
         /\ outcome' = outcome => ReportOutcome' = ReportOutcome
  <1> USE DEF RunTypeOK, IsReport
  <1>1. ReportStatus[r] = status[r]
    BY DEF ReportStatus
  <1>2. ASSUME NEW s, SetStatus(r, s) PROVE ReportStatus' = [ReportStatus EXCEPT ![r] = s]
    BY <1>2 DEF SetStatus, ReportStatus
  <1>3. ASSUME NEW e, Emit(r, e) PROVE Lifecycle!Announce(r, e)
    BY <1>3 DEF Emit, ReportOutcome, Lifecycle!Announce
  <1>4. status' = status => ReportStatus' = ReportStatus
    BY DEF ReportStatus
  <1>5. outcome' = outcome => ReportOutcome' = ReportOutcome
    BY DEF ReportOutcome
  <1> QED
    BY <1>1, <1>2, <1>3, <1>4, <1>5

(* A transaction of a report run is a step of the lifecycle, or changes    *)
(* nothing that it can see.                                                *)
LEMMA ReportTransactionRefines ==
  ASSUME RunTypeOK, MaxOverlaps = 0, ReportInv, kind' = kind,
         NEW r \in Runs, NEW n \in AttemptNo, RunTransaction(r, n), IsReport(r)
  PROVE  /\ \A m \in AttemptNo : RowRunning(r, m)' => m = last'[r] /\ status'[r] = "RUNNING"
         /\ status'[r] # "WAITING_FOR_USER"
         /\ [Lifecycle!Next]_<<ReportStatus, ReportOutcome>>
  <1>0. \/ CreateQueued(r)
        \/ Claim(r)
        \/ Complete(r, n) /\ Valid(r, n)
        \/ Retry(r, n)
        \/ Fail(r, n)
        \/ Cancel(r)
        \/ LeaseLapses(r, n)
        \/ ExpireLease(r, n)
    BY DEF ReportInv, RunTransaction, RequestsComplete, NoAnswers, Answering, Asked, At
  <1> DEFINE Step == [Lifecycle!Next]_<<ReportStatus, ReportOutcome>>
             Kept == /\ \A m \in AttemptNo :
                          RowRunning(r, m)' => m = last'[r] /\ status'[r] = "RUNNING"
                     /\ status'[r] # "WAITING_FOR_USER"
  <1>a. Lifecycle!Enqueue(r) \/ Lifecycle!Start(r) \/ Lifecycle!Requeue(r)
          \/ Lifecycle!Succeed(r) \/ Lifecycle!GiveUp(r) \/ Lifecycle!Stop(r) => Step
    BY DEF Lifecycle!Next
  <1>b. /\ ReportStatus[r] = status[r]
        /\ \A s : SetStatus(r, s) => ReportStatus' = [ReportStatus EXCEPT ![r] = s]
        /\ \A e : Emit(r, e) => Lifecycle!Announce(r, e)
        /\ status' = status => ReportStatus' = ReportStatus
        /\ outcome' = outcome => ReportOutcome' = ReportOutcome
    BY ReportIsSeen
  <1>c. /\ \A m \in AttemptNo : RowRunning(r, m) => m = last[r] /\ status[r] = "RUNNING"
        /\ status[r] # "WAITING_FOR_USER"
        /\ status[r] \in Status
    BY DEF ReportInv, LeaseMeansRunning, NoQuestions, RunTypeOK
  <1>1. CASE CreateQueued(r)
    <2>1. Lifecycle!Enqueue(r)
      BY <1>1, <1>b DEF CreateQueued, Lifecycle!Enqueue, Lifecycle!Move
    <2>2. Kept
      BY <1>1, <1>c DEF CreateQueued, RunTypeOK, RowRunning, SetStatus
    <2> QED
      BY <1>a, <2>1, <2>2
  <1>2. CASE Claim(r)
    <2>1. Lifecycle!Start(r)
      BY <1>2, <1>b DEF Claim, Claimable, Lifecycle!Start, Lifecycle!Move
    <2>2. Kept
      BY <1>2, <1>c, MaxAttemptsAssumption
      DEF Claim, Claimable, RunTypeOK, RowRunning, SetStatus, SetAttempt, AttemptNo
    <2> QED
      BY <1>a, <2>1, <2>2
  <1>3. CASE Complete(r, n) /\ Valid(r, n)
    <2>0. n = last[r] /\ status[r] = "RUNNING"
      BY <1>3, <1>c DEF Valid, RowRunning
    <2>1. Lifecycle!Succeed(r)
      BY <1>3, <1>b, <2>0 DEF Complete, Lifecycle!Succeed, Lifecycle!Move
    <2>2. Kept
      BY <1>3, <1>c, <2>0 DEF Complete, RunTypeOK, RowRunning, SetStatus, SetAttempt
    <2> QED
      BY <1>a, <2>1, <2>2
  <1>4. CASE Retry(r, n)
    <2>0. n = last[r] /\ status[r] = "RUNNING"
      BY <1>4, <1>c DEF Retry, Retryable, Valid, RowRunning
    <2>1. Lifecycle!Requeue(r)
      BY <1>4, <1>b, <2>0 DEF Retry, Lifecycle!Requeue, Lifecycle!Move
    <2>2. Kept
      BY <1>4, <1>c, <2>0 DEF Retry, RunTypeOK, RowRunning, SetStatus, SetAttempt
    <2> QED
      BY <1>a, <2>1, <2>2
  <1>5. CASE Fail(r, n)
    <2>0. n = last[r] /\ status[r] = "RUNNING"
      BY <1>5, <1>c DEF Fail, Valid, RowRunning
    <2>1. Lifecycle!GiveUp(r)
      BY <1>5, <1>b, <2>0 DEF Fail, Lifecycle!GiveUp, Lifecycle!Move
    <2>2. Kept
      BY <1>5, <1>c, <2>0 DEF Fail, RunTypeOK, RowRunning, SetStatus, SetAttempt
    <2> QED
      BY <1>a, <2>1, <2>2
  <1>6. CASE Cancel(r)
    <2>1. Lifecycle!Stop(r)
      BY <1>6, <1>b, <1>c DEF Cancel, Status, Terminal, Lifecycle!Stop, Lifecycle!Move
    <2>2. Kept
      BY <1>6, <1>c DEF Cancel, RunTypeOK, RowRunning, SetStatus
    <2> QED
      BY <1>a, <2>1, <2>2
  <1>7. CASE LeaseLapses(r, n)
    <2>1. Kept
      BY <1>7, <1>c DEF LeaseLapses, RunTypeOK, RowRunning, SetAttempt
    <2> QED
      BY <1>7, <1>b, <2>1 DEF LeaseLapses
  <1>8. CASE ExpireLease(r, n)
    <2>0. n = last[r] /\ status[r] = "RUNNING"
      BY <1>8, <1>c DEF ExpireLease, RowRunning
    <2>1. Lifecycle!Requeue(r)
      BY <1>8, <1>b, <2>0 DEF ExpireLease, Lifecycle!Requeue, Lifecycle!Move
    <2>2. Kept
      BY <1>8, <1>c, <2>0 DEF ExpireLease, RunTypeOK, RowRunning, SetStatus, SetAttempt
    <2> QED
      BY <1>a, <2>1, <2>2
  <1> QED
    BY <1>0, <1>1, <1>2, <1>3, <1>4, <1>5, <1>6, <1>7, <1>8

(* The lifecycle sees nothing of the other runs.                           *)
LEMMA TransactionRefines ==
  ASSUME RunTypeOK, MaxOverlaps = 0, ReportInv, kind' = kind,
         NEW r \in Runs, NEW n \in AttemptNo, RunTransaction(r, n)
  PROVE  /\ LeaseMeansRunning' /\ NoQuestions'
         /\ [Lifecycle!Next]_<<ReportStatus, ReportOutcome>>
  <1>1. ASSUME NEW x \in Runs, IsReport(x)
        PROVE  /\ \A m \in AttemptNo :
                    RowRunning(x, m)' => m = last'[x] /\ status'[x] = "RUNNING"
               /\ status'[x] # "WAITING_FOR_USER"
    <2>1. CASE x = r
      BY <1>1, <2>1, ReportTransactionRefines
    <2>2. CASE x # r
      BY <1>1, <2>2, TransactionIsLocal
      DEF ReportInv, LeaseMeansRunning, NoQuestions, RowRunning
    <2> QED
      BY <2>1, <2>2
  <1>2. LeaseMeansRunning' /\ NoQuestions'
    BY <1>1 DEF LeaseMeansRunning, NoQuestions, IsReport
  <1>3. CASE IsReport(r)
    BY <1>2, <1>3, ReportTransactionRefines
  <1>4. CASE ~IsReport(r)
    <2>1. ReportStatus' = ReportStatus /\ ReportOutcome' = ReportOutcome
      BY <1>4, TransactionIsLocal DEF ReportStatus, ReportOutcome, IsReport
    <2> QED
      BY <1>2, <2>1
  <1> QED
    BY <1>3, <1>4

(* The whole execution machinery of a report run (queue, leases, retries,  *)
(* recovery, crashes, lost and late calls) implements the status machine   *)
(* the control plane promises, whatever the runs of other kinds and the    *)
(* answers to them do beside it: terminal states are final and each ending *)
(* is announced once.  It needs that no transaction is overtaken.          *)
THEOREM ReportRunsFollowLifecycle == MaxOverlaps = 0 => (Spec => LifecycleSpec)
  <1> SUFFICES ASSUME MaxOverlaps = 0 PROVE Spec => LifecycleSpec
    OBVIOUS
  <1>1. Init => ReportInv /\ Lifecycle!Init
    <2> SUFFICES ASSUME Init PROVE ReportInv /\ Lifecycle!Init
      OBVIOUS
    <2>1. RequestsComplete /\ LeaseMeansRunning /\ NoQuestions
      BY DEF Init, RunInit, RequestsComplete, LeaseMeansRunning, NoQuestions, RowRunning,
         NoRequest, At
    <2>2. NoAnswers
      BY WorkerAssumption DEF Init, NoAnswers
    <2>3. Lifecycle!Init
      BY DEF Init, RunInit, Lifecycle!Init, ReportStatus, ReportOutcome
    <2> QED
      BY <2>1, <2>2, <2>3 DEF ReportInv
  <1>2. TypeInv /\ ReportInv /\ [Next]_vars
          => ReportInv' /\ [Lifecycle!Next]_<<ReportStatus, ReportOutcome>>
    <2> SUFFICES ASSUME TypeInv, ReportInv, [Next]_vars
                 PROVE  ReportInv' /\ [Lifecycle!Next]_<<ReportStatus, ReportOutcome>>
      OBVIOUS
    <2>1. CASE UNCHANGED vars
      BY <2>1 DEF vars, runVars, requestVars, ReportInv, RequestsComplete, At,
           LeaseMeansRunning, NoQuestions, NoAnswers, RowRunning, IsReport, ReportStatus,
           ReportOutcome
    <2>2. CASE Next
      <3>1. RequestsComplete' /\ NoAnswers'
        BY <2>2, RequestsStayComplete, AnswersStayAway DEF ReportInv
      <3>2. /\ LeaseMeansRunning' /\ NoQuestions'
            /\ [Lifecycle!Next]_<<ReportStatus, ReportOutcome>>
        <4>1. CASE UNCHANGED runVars
          BY <2>2, <4>1, KindStays
          DEF runVars, ReportInv, LeaseMeansRunning, NoQuestions, RowRunning, IsReport,
              ReportStatus, ReportOutcome
        <4>2. kind' = kind
          BY <2>2, KindStays
        <4> QED
          BY <2>2, <4>1, <4>2, StepIsTransaction, TransactionRefines DEF TypeInv, TypeOK
      <3> QED
        BY <3>1, <3>2 DEF ReportInv
    <2> QED
      BY <2>1, <2>2
  <1> QED
    BY <1>1, <1>2, AlwaysTypeInv, PTL DEF Spec, LifecycleSpec, Lifecycle!Spec,
       Lifecycle!lifecycleVars
=============================================================================
