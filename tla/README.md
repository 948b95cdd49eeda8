# IndieSoundQuest in TLA+

TLA+ models of IndieSoundQuest, the TLC configurations that check them on small
instances, and TLAPS proofs of their main invariants for every value of the
constants. Paths below are relative to `src/`; `JAVA` stands for
`java-service/src/main/java/com/indiesoundquest`.

## 1. The system

A React client (`web/`) talks to a Spring Boot control plane (`java-service/`),
which owns MySQL, Redis and RabbitMQ. Long work is an *agent run*: Java stores
the run and an outbox row, a publisher sends the task to RabbitMQ, and a Python
worker (`agent-service/app/worker.py`) claims the run over HTTP, executes a
LangGraph graph, reports progress events, and calls a completion endpoint. The
client follows the durable event log of the run over SSE or by polling.

| Component | State it keeps | Operations | Talks to |
|---|---|---|---|
| Agent run control plane (`JAVA/agent/application/AgentRunApplicationService.java`) | `agent_run`, `agent_run_attempt`, `agent_run_event` | create, claim, heartbeat, complete, wait, resume, fail, retry, cancel, expire | worker callbacks, web requests, scheduler |
| Outbox and queue (`JAVA/async/*`) | `async_outbox_event`, `isq.agent-runs.v1`, its DLQ | save, publish, confirm, deliver, ack, nack, reject | control plane, worker |
| Worker (`agent-service/app/worker.py`) | one coroutine and one heartbeat task per delivery | claim, run graph, callback, ack | control plane, broker |
| Event stream (`JAVA/agent/web/AgentRunController.java`, `web/src/agentRunStream.ts`) | cursor of a connection, cursor of a client | read batch, read status, reconnect, poll | event log |
| Steering (`JAVA/agent/application/AgentRunFollowUpApplicationService.java`) | `agent_run_follow_up`, `agent_run_intervention` | queue, intervene, apply, dispatch | run, conversation, outbox |
| Conversation (`JAVA/conversation/*`) | messages with a sequence, status, memory summary | enqueue, complete, answer, compress, rename, archive, delete | run, outbox, Agent service |
| Tournament (`JAVA/tournament/*`) | tournament, matches, votes, Redis idempotency and state caches | create, vote, replay, read | Redis, profile, report |
| Preference report | `tournament_preference_report` | enqueue, start, complete, fail | run, outbox |
| Candidate pool contract | none (pure) | validate the Agent's candidate pool | worker callback |
| Agent graphs (`agent-service/app/*_graph.py`, `graph.py`, `runtime.py`) | graph state, budgets | decide, call tools, finish | LLM and providers |
| Rate limits, identity, catalogue import, listening assets | Redis counters, rows | | web requests |

### What makes it hard

* The worker, the broker and Java fail independently. A message is delivered at
  least once; a callback may be given up by its client and go on in Java.
* The tables have no row versions (except `tournament` and `tournament_match`),
  the isolation level is MySQL's REPEATABLE READ, and several transactions read before they lock.
* Some endpoints are one transaction, others are two or three.
* The client reads two things that change together (events and status) in two
  statements.

`PROJECT.json` lists every hazard at its line.

### What makes each component correct

* Control plane: one attempt at a time may write; every RUNNING run can be found
  by the recovery scheduler; every ending is announced once; statuses move along
  the lifecycle of `Specs/03-技术架构/16-异步AgentRun、Worker与可恢复事件流规格.md`.
* Queue and worker: a task that is not finished has a message or a live holder; a
  dead letter is a failure the user was told of.
* Event stream: numbers without gaps; a reader that goes on from its cursor skips
  nothing; a reader that is told the end has what led to it.
* Tournament: the bracket fills with the winners, a match has one vote, nothing is
  taken back, and an accepted vote is in the table.
* Conversation and steering: messages in one order; a queued message is used
  exactly once; an ended run hands over to it.
* Graphs: each loop spends a budget; what a graph hands over was found by research
  and passed the gate or the critic as it is; a direction shown as applied was used.
* Report row (Java): it ends when its run does. Not modelled.

## 2. Modules

Agent runs

* `AgentRuns`: the rows of a run. One operator per transaction of
  `AgentRunApplicationService`. An attempt is RUNNING, LAPSED (row RUNNING, lease
  over), COMPLETED, FAILED (ended in time) or EXPIRED (ended after its lease), so
  time is reduced to the one thing the code asks of it. `outcome` is the
  sub-sequence of `agent_run_event` that announces endings and questions.
* `TaskQueue`: the outbox row, the ready messages and the dead letters of a task.
* `AgentWorker`: composes both with worker slots (`pc`, `task`, `lease`,
  `holds`), the Java request that serves a slot's final callback (`request`,
  which outlives a client that gives up), an overtaken heartbeat (`beat`), the
  answers requests (`answer`) and the fault budgets (`faults`).
* `AgentRunLifecycle`: the abstract specification, a status machine and its
  announcements. `AgentWorker!LifecycleSpec` is the claim that the execution
  machinery implements it for report runs; a run of another kind, whose completion is
  several transactions, is mapped to a run that never moves (`ReportStatus`).
* `MCAgentWorker`: TLC instance. `AgentWorkerProofs`: theorems.

Steering

* `Steering`: one conversation, its transcript, the runs it starts one after the
  other and what the user may do meanwhile: queue a message, intervene, turn the
  queued message into an intervention, cancel, answer, delete. A transaction that
  locks `agent_run` first is one step. `interveneWithQueuedMessage` and `complete`
  read before they lock and are two steps that keep what they read (Hibernate does
  not refresh the entities of a session, and no row has a version); what stops a
  stale one are the unique keys of `agent_run_event` and `conversation_message`,
  whose numbers it computed from what it read (`NumbersAreFree`, `fresh`). The worker
  is reduced to the one with the valid lease of a run; slots and queue are
  `AgentWorker`'s. The callback that reports a result (`callback`) lives in Java and
  goes on when the lease it was called under ends: `complete` reads, then commits,
  whatever became of the run in between (`CompleteReads`, `CompleteCommits`); `waiting`
  is three transactions (`WaitingReads`, `WaitsForUser`, `WaitingFinishes`), as is
  `cancel`; `answers` is five. A run that is queued again after its only message was
  acknowledged is `orphaned`: it is never claimed, as `lost_task` shows. Of what the
  agent says and of an answer the transcript keeps only that they take numbers
  (`Speaks`), for the message of the user and the run it starts are what the properties
  are about.
* `MCSteering`: TLC instance. `SteeringProofs`: theorems.

Agent graphs

* `ConversationGraph`: a turn of the music agent, the graph of
  `conversation_graph.py`: sixteen overrides of the model's proposal in the order of
  `decide` (`Override`), the search, reading and iteration budgets, the mailbox of
  directions, the checkpoint thread that a retry finds in the same process, and
  LangGraph's recursion limit. A message is the set of what the code's regular
  expressions find in it (`Traits`). What an analysis needs evidence for (`needs`) is
  fixed with its workspace by `initialize`: a later direction is added to its question
  only, never to its dimensions.
* `MusicCards`: what that turn puts on its cards, over several turns:
  `recommend_music` with exclusion, resolution, the supplement of a named artist and
  the order of variety, and `analyze_music` with inherited pages, claims and review.
* `CandidateGraph`: the graph of `graph.py` that gathers a candidate pool: eight
  rules that replace a proposal one after the other (`Decision`), searches, hints,
  resolution, ranking, the quality gate and the three results. The supervisor may
  choose `understand_preference` again after the artists are resolved; the policy is
  then the model's once more (`reformed`), with the ids of the request put back.
* `ReportGraph`: the graph of `report_graph.py`: eligibility, duplicates, gates and
  the budget of rounds (`Decision`), drafts, critique and submission, with the choice
  trajectory computed from the champion's bracket.
* In `CandidateGraph` and `ReportGraph` one round of supervisor and executor is one
  step (nothing runs between the two nodes); in `ConversationGraph` they are two, for
  the user adds directions in between. The model's answers, providers and the passing of the
  deadline are nondeterministic.
* `MCConversationGraph`, `MCMusicCards`, `MCCandidateGraph`, `MCReportGraph`: TLC
  instances. `ConversationGraphProofs`, `MusicCardsProofs`, `CandidateGraphProofs`,
  `ReportGraphProofs`: theorems.

Event stream

* `RunEvents`: the event log of one run and the transactions that append to it,
  each with its own order of *read the run*, *lock it*, *take the number*,
  *commit*. A transaction that starts with the lock (`complete`, `claim`,
  `retry`, `cancel`, `appendEvent`) cannot overlap another writer; `fail` and
  `markWaitingForUser` read first, and `resume` never locks. The unique key
  (run, sequence) rolls back the transaction that would reuse a number
  (`RollsBack`). Here a transaction is several steps, in `AgentRuns` it is one:
  this module is the one that looks into it.
* `EventStream`: adds the server side of a connection (batch, status, sleep, 900
  turns), the client of `agentRunStream.ts` (cursor, reconnects, fallback to
  polling) and the polling response, which reads status and events in the order
  of the code.
* `MCEventStream`, `EventStreamProofs`.

Tournament

* `Bracket`: the planned bracket, from the number of matches per round.
* `Tournament`: `prepare` and `vote` as transactions with a read step, a step
  that writes the idempotency key to Redis and a commit; versions and unique
  keys decide the commit; a stale version goes back to the start of `vote` with
  one try less, as the `tournamentVote` retry does outside the transaction. A
  *client* is a vote with its key, a *handler* a request thread. Rows only fill
  up, so comparing the row read with the row now is the version check. A match
  that waits for its second side takes votes too: the page does not offer it
  (`TournamentController.java:96`), `complete` does not ask (`TournamentMatch.java:8`).
* `MCTournament`, `TournamentProofs`.

## 3. Runs

| Run | Question | Instance |
|---|---|---|
| `faults` | Is a dead letter a published failure, does the last event tell the status? | 1 run of any kind, 2 slots, an answers request, one crash, lost call and overtaken transaction |
| `recovers` | Does only the newest attempt hold a lease, does a retry keep its message, can the scheduler see and does it end every RUNNING run, does a report run implement `AgentRunLifecycle`? | 1 conversation or report run, 2 slots, one crash, lost connection, duplicated message and lapse |
| `steering` | Is a message sent during a run used exactly once, is none left behind by an ended run, was an applied intervention heard by the attempt that completes? | 2 messages, 2 runs, an answers request, 2 attempts, 1 lapse or restart |
| `turn` | Does a turn end, within its budgets, with an answer that heeds every applied direction? | 2 pages, 1 direction, 6 messages, 2 attempts, the same or another process |
| `cards` | Does every page on a card come from research, is the list of songs varied? | 2 turns, 3 pages, 3 songs of 2 artists, 5 drafted titles |
| `pool` | Is an offered pool playable and within a lock by ids, does giving up come last? | 4 recordings of 2 artists, a half of one |
| `report` | Was what is delivered reviewed as it is, do the choice cards tell both sides, does the loop end? | brackets of 16 and 32, 2 pages |
| `stream` | No gap, nothing skipped, no ending overwritten unseen, a polled result is complete, the client is told the end | 2 writers of 6 kinds, 3 events, 1 reconnect, 1 broken connection |
| `tournament` | Winners in their slots, one story in all tables, always a match to play, votes final | 8 entries, 2 clients, 2 handlers, crashes |
| `lost_task` | (violated) one worker crash loses the task | 1 report run |
| `retry_old_answer` | (violated) a retry answers what was asked before a direction it has marked applied | 1 direction, one failed callback |
| `vote_lost` | (violated) a vote is answered as accepted and is in no table | 4 entries, 2 clients, no fault |

The three violated runs are disagreements between the code and what it, or a
document, says; `findings` in `PROJECT.json` quotes both sides. `RetryKeepsDirections`
is the formula `AnswerHeedsDirections` under a specification in which the completion
callback itself may fail (`FaultySpec`); `turn` lets everything before it fail.

### Bounds

Agent runs. `MaxAttempts` bounds the attempts of a run (the code has no bound);
it exceeds what the retry limit and the fault budgets can use. Two slots are
enough for every race between an old holder and a new one; a third would be a
second new holder, which needs two more faults. `RetryLimit` is 3 in `worker.py`;
where a run uses 2 it only shortens the retry ladder. Each fault budget is one
because the code keeps no memory of past faults other than the rows the model
has; which faults meet in one run is divided between `faults` and `recovers` to keep
both within minutes.

Steering. A queued message can start one more run, and a second message meets the
rows as the first left them, so two keys and two runs show every race of one end;
the keys are interchangeable, so one of them is always used first (`FirstKeyFirst`);
`queue` is not offered in the last run (`MaxRuns`). One lapse makes a completion
stale and one restart cuts off a request; a second fault would do it again, and they
share a budget (`MaxFaults`) to keep the run within minutes. Two attempts instead of
three; one callback and one cancel request at a time for each run.

Conversation. The budgets of 11 and 7 decisions, 5 and 3 searches and 24 supersteps
are scaled to 4 and 3, 2 and 2, and 10, which keeps the order of what is used up
first: a superstep for `initialize` and two for each decision exceed the limit
exactly when an analysis uses its whole budget, as `1 + 2*12 > 24` does. Two sources
of two sites, one of which covers the dimensions of the question.

Cards. Seven visible songs become three, a card carries one song instead of four, and
the drafts, searches and verdicts are a handful chosen so that a title has two
spellings, an artist has two songs, a draft is unknown to the catalogue, and a claim
cites a page that is not there.

Pool. 32 and 32 recordings become one and one, five rounds two, 47 decisions six;
`CheckedUntil` and `StagnationLimit` keep their order. Four recordings hold two
versions of one song, a second song and another artist.

Report. Five to seven songs become two to three, eight free rounds four, ten calls of
subagents seven; brackets and choice cards have their real sizes, because the length
of the champion's path is what matters. The tool budget is folded into a search that
finds nothing.

Event stream. Two writers overlap in every order; three events are enough for one
writer to be overtaken and for a reader to stand before, between and behind. The
kinds `append` and `retry` are left out of the run, not of the proofs: they lock
and write as `claim` and `complete` do. The client reconnects once instead of
twice before it polls. A connection may end after any turn, where the code ends
it after 900.

Tournament. Eight entries give a round that is fed and feeds. To keep the run
within minutes everybody prefers the left entry, except in one match of the first
round where either may win, and of the matches that wait for their second side only
the final gets votes (`Preferences`): its row is the one that a semifinal still has
to write. Requests die as often as they like. Two handlers overlap in every order; a
third vote meets the rows as the two before left them.

### Fairness

Weak fairness of a live coroutine, of a Java request, of the publisher, of the
scheduler and of the clock for an abandoned lease: each is a loop or a thread
that nothing in the code suspends. Strong fairness of the delivery of a run's
message, because the queue is first in, first out. In `Steering`, weak fairness of
what makes a run proceed (`Proceeds`): the claim of a queued run as long as the queue
has a message for it (an `orphaned` run owes nothing, and `WaitingMessageMovesOn`
excludes it), the worker, which stops polling and decides (`ConversationGraph` shows
that it does), a callback, the expiry of a lease whose worker was refused and is gone,
and the dispatch of a cancel request that no restart cut off. In
`ConversationGraph`, of the graph and the worker, not of the user. Weak fairness of
the steps of the stream's server and client, which are timers and loops. Users,
answers requests, crashes, restarts, lost calls, broken connections and lapses of
held leases owe nothing. The tournament has no liveness property: nobody need vote.
That pool and report graphs end is a bound on their rounds (`WithinBudget`,
`EndsInTime`), which needs no fairness.

## 4. Proofs

All for every value of the constants that satisfies the named assumptions. Every
invariant and action property that a passing run checks is stated by a theorem; every
inductive invariant below was checked by TLC, on the instance of its module's run,
before it was proved.

`AgentWorkerProofs`. `StepIsTransaction` splits every step of `Next` into one
transaction of `AgentRuns` or none, so that an invariant of the rows is proved
once per transaction and an invariant of the slots once per action.
`TypeCorrect` needs that a slot past its claim names a run and an attempt that
exist (`HoldersKnown`). `LeasesAreFenced` is inductive as it stands when no
transaction is overtaken (`MaxOverlaps = 0`). `DeadLettersAreFailures` needs that
the slot about to reject has been told of the failure (`RejectedFailed`),
`RunningRecoverable` that a finished request leaves an ended attempt
(`RecordedIsOver`; without answers requests, `Answers = {}`), `StatusPublished`
nothing more. `ReportRunsFollowLifecycle` is the refinement: initial state to
initial state and every step to a step of the abstract machine or a stutter, with runs
of every kind and answers requests beside the reports, as long as no transaction is
overtaken. It rests on report callbacks being one transaction (`RequestsComplete`), on
the lease of a report meaning RUNNING (`LeaseMeansRunning`), on reports asking no
question (`NoQuestions`) and so getting no answers (`NoAnswers`), and on a transaction
writing the rows of its own run only (`TransactionIsLocal`).

`RetriesKeepTickets` is about the queue. A run that is QUEUED again after a retry has its
message because the slot that asked for the retry holds it until it hands it back. The
invariant (`TicketInv`) says so slot by slot: while no connection is lost a slot that is
not idle holds the message of the run it works on (`HoldersKeepMessages`), the request it
waits for serves that run (`CallsAreForTheTask`), an attempt's row is written only once it
is claimed (`RowsAreClaimed`), and the newest changes only as the run leaves the queue;
only a candidate pool is created without its outbox row
(`OnlyPoolsAreUnsaved`), and only the newest attempt holds a lease (`LeaseDiscipline`). Its
hypothesis `NothingIsOvertaken` has two parts, each a known limit of the code (section 5):
an overtaken heartbeat sets an expired row RUNNING again, and a request that dies between
the commits of a candidate pool leaves a run that nothing sends. The run `recovers` has the
same instance: no overlap and no candidate pool.
The property itself leaves out a history with a lost connection, and a run whose newest
attempt expired (`TakenBack`), which the recovery scheduler queues without a message:
`lost_task` shows that the latter can be lost. Once such a run is claimed again it counts
like any other.

`EventStreamProofs`. `EventsHaveNoGaps` needs that no transaction holds a number
beyond the next one (`LogIsWhole`), so that the unique key lets in only the next
(`FreeNumberIsNext`). `EndingsAreNotOverwritten` keeps, per open transaction, that
the status it has read is still the status or its number is taken (`EndingInv`).
`ClientSeesAll` and `PollingFindsResult` add what a batch and a response hold
(`StreamInv`, `ResultInv`). `StreamTyped`, the type invariant, is a part of the same
invariant: a cursor stays within the numbers because there are no gaps.

`TournamentProofs`. The invariant joins the two properties `SlotsHoldWinners` and
`ResultFollowsVotes`, which need each other (a slot about to be filled is empty
because the match that feeds it has no winner, and it has none because it has no
vote), with: a draft has no rows (`DraftIsEmpty`), a tournament that has left it has
both entries in every match of its first round (`FirstRoundIsFull`), nobody votes for
nothing (`VotesName`), and what a handler has read stays true until it commits
(`ReadsLast`). The bracket lemmas (`NextIsMatch`, `FeedersDiffer`) follow from the
sizes of the rounds halving. `VotesFinal` is the action property, from the same
invariant. `CanGoOn` takes a match without a winner in the earliest round that has one
(`WFMin`, in place of an induction over the rounds): both matches that feed it have
winners, which `SlotsHoldWinners` has put into its slots; in the first round
`FirstRoundIsFull` has.

`SteeringProofs`. The invariant has two halves. `RunsInv` is about the rows: the runs
form a chain in which each was started by the message that waited for the one before
(`Chained`), a run that an answers request has read was started (`AnsweredHasStarted`), a
completion that can still commit is of a run that no later attempt has taken over
(`FreshHolds`), and it, like a worker that has decided, has heard what is marked applied
(`DecidedHasHeard`).
`Placed` is about the transcript: a key names one message (`KeysNameOne`), each row's
message is where its state says (`FollowUpIsPlaced`, `InterventionIsSaid`), and a request
to intervene whose numbers are still free has read a message that still waits
(`FreshRequestWaits`). The last part is what makes the unguarded
read-then-write of `interveneWithQueuedMessage` safe: whatever moves the waiting message
also takes a number the request computed, and the unique key refuses it.
`MessagesUsedOnce`, `NoMessageLeftBehind` and `AppliedWasGiven` follow.

`ConversationGraphProofs`. `HearsWhatIsMarked` says where in a pass over the graph
*polled*, *applied* and *heard* agree, and that no worker's thread keeps a result while
one works; that is what `FaultySpec` breaks. `CountsSteps` relates supersteps to decisions
and says that a turn that is not prolonged answers in the decision after its budget.
`SearchesWereDecided` carries the reason for a search from the supervisor to the step
that searches, from which `SearchesStayInBudget`, an action property, follows. Most of the
work is that merged and ranked lists are lists of sources again.

`MusicCardsProofs`. The invariant extends the two properties to what produces them: the
sources of the turn stand on known pages (`On`), every stored card is good
(`GoodCards`). Along the construction of a card the lemmas say what each stage keeps:
filters, first occurrences, resolution and supplements keep the pages known; first
occurrences and the supplement keep songs distinct; the order of variety makes them
varied and a prefix of such a list is (`Varied`).

`CandidateGraphProofs`. `UnderstandsFirst` (nothing is done before the policy is
formed), `HeedsTheWords` (only the text locks), `InTime` (a run that goes on has a
decision left) and `OfferIsAllowed` (what is offered passes the filter of the policy in
force), together with `GivesUpLast` and `OpenPoolIsBroadened`, which are inductive
beside them. `NamesTheResolved` ties the names of a lock without ids to the artists that
were resolved; it, and with it the last part of `PoolIsPlayable`, ends where the policy
is formed anew after that (section 5). The assumption `CheckedUntil <= MaxIterations` holds in the code (9 and 47): the gate
sends nothing back after the last decision.

`ReportGraphProofs`. The invariant is the three properties with the types and with
`CardsAreTold`, which says that every drafted report carries the trajectory of its
bracket: an action either keeps what the critic was shown or shows it
to the critic again. `CardsTellBothSides` is a lemma about `ChoiceTrajectory` for
brackets of every size: the latest n of a finite set are n (`LatestCount`), and room for
three cards (`2 < MaxCards`; the code has five) leaves one for a choice between others.

`MusicCards` and `ConversationGraph` describe a filtered list by the ranks of the places
that stay (`Kept`, `Beyond`), which a proof can count (`Ranks`), where `SelectSeq` is
recursive and cannot be expanded. Bounds and types of inputs are named assumptions, which
TLC evaluates in every run.

Only model-checked: `RunningEnds`, `FollowerSettles`, `TurnEnds` and
`WaitingMessageMovesOn` (liveness under fairness is out of the prover's reach).

Neither checked nor proved, because the program does not have it (section 5):
`RetryKeepsTicket` where a heartbeat is overtaken or a request dies between the commits
of a pool, `LeaseDiscipline` and the refinement where a transaction is overtaken,
`RunningIsRecoverable` with answers requests. The hypotheses of the theorems name these
cases, and the runs leave them out by the same constants.

## 5. Known limits of the program

Found while modelling. The three violated runs report three of them; these are the
others, described here and excluded by name from the properties they would break.

Agent runs and event stream

* A heartbeat reads the attempt row without a lock and writes it back without a
  version. Overtaken by the retry of its own attempt it sets the failed row
  RUNNING again, and two attempts hold valid leases for up to 30 seconds.
* `complete-candidate` is several transactions. A request that is delayed past
  its lease can record a second RESULT.
* `complete` asserts the lease before it locks the run, and then looks at no status: a
  run cancelled in between ends COMPLETED, with RESULT after CANCELLED, and its waiting
  message is dispatched (`AgentWorkerInternalController.java:28`; spec 16 line 81 has
  Java check every transition). `Steering` has these steps, and its properties hold
  over them. In `AgentWorker` and `RunEvents` they are an overtaken transaction:
  `EndingsAreNotOverwritten` forbids an ending to be overwritten by one who has not seen
  it, not by one who reads CANCELLED under the lock and goes on, and the refinement is
  stated without overtaken transactions.
* `waiting` is three transactions, and `markWaitingForUser` looks at no status: a run
  cancelled after the first becomes WAITING_FOR_USER
  (`AgentWorkerInternalController.java:29`).
* `answers` resumes the run before it calls the Agent service; when that fails the
  run stays RUNNING without an attempt, no scheduler sees it, and the retry the user
  is asked for is refused (`AgentRunController.java:114`).
* `enqueueCandidate` commits the run and its outbox row separately; when Java dies
  in between the run is QUEUED and nothing sends it.
* `resume` reads without a lock and writes the whole row: a cancel committed in
  between is undone and the event counter is set back.
* The limit of three attempts is known to the worker only: a last attempt whose
  lease lapses is requeued and followed by a fourth.
* A retry whose connection is lost before the nack can lose its message
  (`RetryKeepsTicket` is stated without lost connections).
* `streamEvents` reads a batch, then the status, and closes on an ending: a client
  may be told COMPLETED without the RESULT committed in between
  (`AgentRunController.java:59`).
* Narration restarts its revisions at 1 after a retry, and a plan of equal revision is
  replaced in place.
* `AgentRunStatus.EXPIRED` is never assigned.

Steering

* A conversation deleted while a message waits makes the dispatch throw, and with it
  `complete` and `fail` roll back each time: the run is executed again and again.
* A delete that commits while a completion is under way is undone when the completion
  writes the whole conversation row (`ConversationApplicationService.java:233`). Not
  modelled: here a deleted conversation stays deleted.
* A run that is queued again after its message was acknowledged (`lost_task`) keeps its
  waiting message for ever, too.
* `cancel` is three transactions where spec 21 (lines 33 and 100) wants one; a restart
  before the third leaves the message WAITING behind an ended run (`cutOff`).
* A run that ends through `answers` never dispatches its waiting message.
* `queue` accepts a message after an intervention, and a run takes one intervention at
  most; one that comes after the last poll stays PENDING for ever.
* Two answers requests that find the run waiting both append their answer and call the
  Agent service. `answers` completes the run even if the agent asks again.

Conversation and cards

* The `result` channel survives a failed attempt in the same process
  (`retry_old_answer`).
* `1 + 2*12` supersteps exceed the recursion limit of 24: an analysis that uses its
  whole budget, or a turn whose budget a direction restarts, is cut off with
  `GraphRecursionError` (`OnlyProlongedTurnsAreCutOff` bounds this).
* `read_source_refs` are positions, which a later search shifts; a page found again
  loses its mark as inherited; `read_source` outside an analysis raises; an analysis
  may be written without reading (spec 19 lines 369 and 392).
* A recommendation without search gain, or with two knowledge searches, ends in
  `respond`; one or two verified songs of a named artist are never filled to three.
* The exclusion of earlier songs compares the title of the draft, before the catalogue
  resolves it and before the supplement: another set may repeat a song
  (`conversation_graph.py:1380`; spec 15 line 19).
* A claim may cite S1 to S16, a card lists eight pages; a factual claim the review
  passes over keeps the confidence of its draft; the fallback claim cites pages in the
  order of their names as strings (S1, S10).
* A message that refuses a tournament but asks to launch one counts as a request for a
  pool.

Candidate pool and report

* Submission takes the ranking as it is: a pool that was ranked before it was full is
  refused as too small (`graph.py:191`, `graph.py:825`; specification
  `Specs/04-功能规格/歌曲世界杯/16-在线优先候选发现与意图澄清.md` line 63).
* The model may choose `understand_preference` again after the artists of a lock were
  found or confirmed. The policy is replaced (`graph.py:250`), and `infer_intent` puts
  back the ids of the request only (`llm.py:141-149`): the names are the model's, and the
  lock that `graph.py:274-277` narrowed to the confirmed artists is lost. A pool locked to
  one confirmed artist can then be offered with songs of another, which lines 46 and 81 of
  `Specs/04-功能规格/歌曲世界杯/16-在线优先候选发现与意图澄清.md` forbid. TLC finds it in
  seven steps; `PoolIsPlayable` promises the resolved artists only while the policy is not
  formed anew (`~reformed`), and the request's ids always.
* The model may propose `finish_insufficient` with a full pool, or a clarification
  without a question; a failed resolution drops every hint of its batch; recordings
  are counted by id and deduplicated by version; `excludeRecordingIds` is read by
  `search_catalog` only.
* Songs found on the web replace the songs of a report without the schema's minimum of
  five being checked (`report_graph.py:366`); Java then refuses the report.
* Repeated drafts use up the ten subagent calls, and the eleventh raises; a failed
  critique followed by a submission fails although the fallback report would pass.

Tournament

* The optimistic-lock retry of `vote` never casts a vote (`vote_lost`); a stale
  first write is therefore always answered as success.
* A vote on a final that waits for its second side is accepted and completes the
  tournament with a semifinal open (`TournamentMatch.java:8`); no page sends one.
* `TournamentStatus.ABANDONED` is never assigned.

## 6. Not modelled

The research sidecars, infrastructure, demos, styles and pages decide nothing the
models ask about. Calls to models and providers are replaced by any answer.
Migrations are read for keys and columns only. The legacy stream endpoint of a
conversation (`reply`) creates runs that are RUNNING from the start, outside the
queue. Narration (`public_stream.py`) repeats a result that is final. In the
tournament, creation with its own idempotency keys, the view that `GET` keeps in
Redis, and the preference profile that the final refreshes are left out; the
transactions of votes do not read them. The Java side of the report
(`PreferenceReportApplicationService`) keeps a row beside its run, whose callbacks
are those of `AgentRuns`; that a cancelled run leaves it PENDING is a hazard no
property covers. Of a conversation, titles, archiving, cards and memory compression.
Rate limits, guest identity, catalogue import and listening assets are rows and
counters that one transaction each writes.

## 7. Plan

1. *Proofs*: `QueuedIsServed` and `AcceptedIsKept` fail and need no proof. Worth proving
   next is what the present theorems leave to hypotheses: `LeaseDiscipline` with overtaken
   transactions other than heartbeats, and a lifecycle with questions and answers that
   conversation runs implement.
2. *Tournament, second part*: creation and its keys, the view cache and its stale
   writes, the profile two finals overwrite.
3. *Preference report in Java*: the row beside its run. Abstract specification: report
   and run end together.
4. *Catalogue import, listening assets, rate limits*.
