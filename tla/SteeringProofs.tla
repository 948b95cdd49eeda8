--------------------------- MODULE SteeringProofs ----------------------------
(***************************************************************************)
(* Proofs about the messages that steer a conversation, for any number of  *)
(* messages, answers, attempts, runs, lapsed leases and restarts.          *)
(***************************************************************************)
EXTENDS Steering, FiniteSetTheorems, TLAPS

(* What the assumptions say of the constants, one by one.                  *)
LEMMA Bounds ==
  /\ Attempts \in Nat \ {0} /\ MaxRuns \in Nat \ {0}
  /\ MaxFaults \in Nat /\ None \notin Keys
  BY SteeringAssumption DEF None

USE Bounds

-----------------------------------------------------------------------------
(* The inductive invariant *)

(* The runs are started one after the other, each by the message that      *)
(* waited for the run before it.                                           *)
Chained ==
  /\ \A r, s \in Runs : s < r /\ status[r] # "NEW" =>
       status[s] # "NEW" /\ followUp[s].state = "DISPATCHED"
  /\ \A r \in Runs :
       /\ status[r] = "NEW" => followUp[r].state = "NONE"
       /\ followUp[r].state = "WAITING" => r < MaxRuns

(* What has no key is not there.                                           *)
AllHaveKeys ==
  \A r \in Runs :
    /\ followUp[r].key = None <=> followUp[r].state = "NONE"
    /\ intervention[r].key = None <=> intervention[r].state = "NONE"

(* A run that an answers request has read was started.                     *)
AnsweredHasStarted ==
  \A a \in Answers :
    /\ answering[a].run = None <=> answering[a].step = "unsent"
    /\ answering[a].run # None => status[answering[a].run] # "NEW"

(* A completion that can still commit is under way, of a run that no later *)
(* attempt has taken over.                                                 *)
FreshHolds ==
  \A r \in fresh :
    callback[r] = "complete" /\ work[r] \in {"none", "calling"} /\ status[r] \notin {"NEW", "QUEUED"}

(* A worker that has decided, and a completion that can still commit, have *)
(* been given what was marked as applied.                                  *)
DecidedHasHeard ==
  \A r \in Runs :
    (work[r] \in {"deciding", "publishing"} \/ r \in fresh) /\ intervention[r].state = "APPLIED" =>
      intervention[r].key \in heard[r]

(* A key names one message, which is in the conversation at most once.     *)
KeysDiffer(T) ==
  \A i, j \in DOMAIN T : T[i].from = "user" /\ T[j].from = "user" /\ T[i].key = T[j].key => i = j

KeysNameOne ==
  /\ KeysDiffer(transcript)
  /\ \A r, s \in Runs : followUp[r].key = followUp[s].key /\ followUp[r].key # None => r = s

(* The conversation T holds a message of the user with this key.           *)
SaidIn(T, key) == \E i \in DOMAIN T : T[i].from = "user" /\ T[i].key = key

(* Where the message of follow-up f is in T, of a run whose intervention   *)
(* has the key given.                                                      *)
PlacedIn(T, f, given) ==
  /\ f.state = "WAITING" => ~SaidIn(T, f.key)
  /\ f.state = "DISPATCHED" =>
       /\ SaidIn(T, f.key) /\ given # f.key
       /\ \A i \in DOMAIN T : T[i].from = "user" /\ T[i].key = f.key =>
            i + 1 \in DOMAIN T /\ T[i + 1] = Msg("run", f.next, None)
  /\ f.state = "INTERVENED" => SaidIn(T, f.key) /\ given = f.key

FollowUpIsPlaced ==
  \A r \in Runs : PlacedIn(transcript, followUp[r], intervention[r].key)

(* An intervention is in the conversation from the start.                  *)
InterventionIsSaid ==
  \A r \in Runs : intervention[r].state # "NONE" => SaidIn(transcript, intervention[r].key)

(* A request whose numbers are still free has read a message that waits.   *)
FreshRequestWaits ==
  asked.run # None /\ ~asked.stale => followUp[asked.run].state = "WAITING"

Placed == KeysNameOne /\ FollowUpIsPlaced /\ InterventionIsSaid /\ FreshRequestWaits

RunsInv ==
  /\ TypeOK /\ Chained /\ AllHaveKeys /\ AnsweredHasStarted /\ FreshHolds /\ DecidedHasHeard
  /\ NothingWaitsBehind

Inv == RunsInv /\ Placed

(* The invariant holds in every initial state.                             *)
LEMMA InitInv == Init => Inv
  <1> SUFFICES ASSUME Init PROVE Inv
    OBVIOUS
  <1> USE DEF Init, Runs, None
  <1>1. TypeOK
    <2>1. status \in [Runs -> Status]
      BY DEF Status, Active
    <2>2. Msg("run", 1, None) \in Message /\ transcript \in Seq(Message)
      BY DEF Msg, Message
    <2>3. work \in [Runs -> Stage]
      BY DEF Stage
    <2>4. answering \in [Answers -> Reply]
      BY DEF Reply
    <2>5. /\ followUp \in [Runs -> FollowUp]
          /\ intervention \in [Runs -> Intervention]
      BY DEF NoFollowUp, NoIntervention, FollowUp, Intervention
    <2>6. /\ tries \in [Runs -> 0..Attempts]
          /\ faults \in 0..MaxFaults /\ orphaned \subseteq Runs
      OBVIOUS
    <2>8. heard \in [Runs -> SUBSET Keys]
      OBVIOUS
    <2>9. /\ deleted \in BOOLEAN /\ fresh \subseteq Runs
          /\ cancelling \subseteq Runs /\ cutOff \subseteq Runs
          /\ callback \in [Runs -> Callback] /\ HeldIsStarted
      BY DEF Callback, HeldIsStarted
    <2>7. asked \in Request
      BY DEF NotAsked, Request
    <2> QED BY <2>1, <2>2, <2>3, <2>4, <2>5, <2>6, <2>7, <2>8, <2>9 DEF TypeOK
  <1>2. /\ Chained /\ AllHaveKeys /\ AnsweredHasStarted /\ FreshHolds /\ DecidedHasHeard
        /\ NothingWaitsBehind
    BY DEF Chained, AllHaveKeys, AnsweredHasStarted, FreshHolds, DecidedHasHeard,
           NothingWaitsBehind, NoFollowUp, NoIntervention
  <1>3. Placed
    BY DEF Placed, KeysNameOne, KeysDiffer, FollowUpIsPlaced, PlacedIn, SaidIn, InterventionIsSaid,
           FreshRequestWaits, NoFollowUp, NoIntervention, NotAsked, Msg
  <1> QED BY <1>1, <1>2, <1>3 DEF Inv, RunsInv

-----------------------------------------------------------------------------
(* What the transactions share *)

(* Messages are put behind those there are.                                *)
LEMMA Appending ==
  ASSUME NEW T \in Seq(Message), NEW M \in Seq(Message)
  PROVE  /\ T \o M \in Seq(Message)
         /\ DOMAIN T \subseteq DOMAIN (T \o M)
         /\ \A i \in DOMAIN T : (T \o M)[i] = T[i]
         /\ \A i \in DOMAIN (T \o M) : i \in DOMAIN T \/ \E j \in DOMAIN M : i = Len(T) + j
         /\ \A j \in DOMAIN M : Len(T) + j \in DOMAIN (T \o M) /\ (T \o M)[Len(T) + j] = M[j]
  <1>1. T \o M \in Seq(Message) /\ Len(T \o M) = Len(T) + Len(M)
    OBVIOUS
  <1>2. DOMAIN T = 1 .. Len(T) /\ DOMAIN M = 1 .. Len(M) /\ DOMAIN (T \o M) = 1 .. Len(T) + Len(M)
    BY <1>1
  <1>3. Len(T) \in Nat /\ Len(M) \in Nat
    OBVIOUS
  <1>4. \A i \in DOMAIN T : (T \o M)[i] = T[i]
    OBVIOUS
  <1>5. \A i \in DOMAIN (T \o M) : i \in DOMAIN T \/ \E j \in DOMAIN M : i = Len(T) + j
    <2> TAKE i \in DOMAIN (T \o M)
    <2>1. CASE i <= Len(T)
      BY <1>2, <1>3, <2>1
    <2>2. CASE i > Len(T)
      <3>1. i - Len(T) \in DOMAIN M /\ i = Len(T) + (i - Len(T))
        BY <1>2, <1>3, <2>2
      <3> QED BY <3>1
    <2> QED BY <1>2, <1>3, <2>1, <2>2
  <1>6. \A j \in DOMAIN M : Len(T) + j \in DOMAIN (T \o M) /\ (T \o M)[Len(T) + j] = M[j]
    BY <1>2, <1>3
  <1> QED BY <1>1, <1>2, <1>3, <1>4, <1>5, <1>6

(* Appending to the transcript keeps it a list of messages.                *)
LEMMA AppendsTyped ==
  ASSUME TypeOK, NEW M \in Seq(Message), Appends(M)
  PROVE  /\ transcript' \in Seq(Message) /\ fresh' = {}
         /\ asked' \in Request
  BY Appending DEF TypeOK, Appends, Request

(* What the agent says leaves the transcript as it is.                     *)
LEMMA SpeaksTyped ==
  ASSUME TypeOK, Speaks
  PROVE  /\ transcript' = transcript /\ transcript' \in Seq(Message) /\ fresh' = {}
         /\ asked' \in Request
  <1>1. <<>> \in Seq(Message) /\ transcript' = transcript \o <<>> /\ transcript \in Seq(Message)
    BY DEF TypeOK, Speaks, Appends
  <1>2. transcript' = transcript
    BY <1>1
  <1>3. Appends(<<>>)
    BY DEF Speaks
  <1> QED BY <1>1, <1>2, <1>3, AppendsTyped

(* Publishing an event leaves transcript and requests well typed.          *)
LEMMA EmitsTyped ==
  ASSUME TypeOK, NEW r \in Runs, Emits(r)
  PROVE  /\ transcript' = transcript /\ transcript' \in Seq(Message) /\ fresh' = fresh
         /\ asked' \in Request
  BY DEF TypeOK, Emits, Request

(* The run that a waiting message becomes is the one after its own.        *)
LEMMA NextRunFollows ==
  ASSUME TypeOK, Chained, NEW r \in Runs, followUp[r].state = "WAITING"
  PROVE  r + 1 \in Runs /\ NextRun = r + 1 /\ status[r] # "NEW" /\ status[r + 1] = "NEW"
  <1>1. r + 1 \in Runs /\ status[r] # "NEW"
    BY DEF Chained, Runs
  <1>2. status[r + 1] = "NEW"
    BY <1>1 DEF Chained, Runs
  <1>3. \A s \in Runs : s < r + 1 => status[s] # "NEW"
    BY <1>1 DEF Chained, Runs
  <1>4. ASSUME NEW n \in Runs, status[n] = "NEW", \A s \in Runs : s < n => status[s] # "NEW"
        PROVE  n = r + 1
    BY <1>1, <1>2, <1>3, <1>4 DEF Runs
  <1> QED BY <1>1, <1>2, <1>3, <1>4 DEF NextRun

(* The lease of a run ends.                                                *)
LEMMA EndsLeaseTyped ==
  ASSUME TypeOK, NEW r \in Runs, NEW n \in 0..Attempts, EndsLease(r, n)
  PROVE  /\ work' \in [Runs -> Stage] /\ tries' \in [Runs -> 0..Attempts]
         /\ work'[r] = "none" /\ \A s \in Runs : s # r => work'[s] = work[s]
  BY DEF TypeOK, EndsLease, Stage

(* A run ends, and its waiting message may become the next.                *)
LEMMA EndsAsRuns ==
  ASSUME RunsInv, NEW r \in Runs, NEW end \in Ended, NEW speaking,
         status[r] # "NEW", EndsAs(r, end, speaking)
  PROVE  /\ status' \in [Runs -> Status]
         /\ followUp' \in [Runs -> FollowUp]
         /\ transcript' \in Seq(Message) /\ fresh' \subseteq fresh /\ (speaking => fresh' = {})
         /\ asked' \in Request
         /\ Chained'
         /\ status'[r] = end /\ followUp'[r].state # "WAITING"
         /\ followUp'[r].key = None <=> followUp'[r].state = "NONE"
         /\ \A s \in Runs : s # r =>
              /\ status'[s] = status[s] \/ (status[s] = "NEW" /\ status'[s] = "QUEUED")
              /\ followUp'[s] = followUp[s]
  <1> USE DEF RunsInv
  <1>1. CASE Dispatches(r, end)
    <2>1. followUp[r].state = "WAITING" /\ r # r + 1
      BY <1>1 DEF Dispatches, Runs
    <2>2. r + 1 \in Runs /\ NextRun = r + 1 /\ status[r + 1] = "NEW"
      BY <2>1, NextRunFollows
    <2>3. /\ status' = [status EXCEPT ![r] = end, ![r + 1] = "QUEUED"]
          /\ followUp' = [followUp EXCEPT ![r].state = "DISPATCHED", ![r].next = r + 1]
          /\ Appends(<<Msg("user", None, followUp[r].key), Msg("run", r + 1, None)>>)
      BY <1>1, <2>2 DEF EndsAs
    <2>4. /\ status' \in [Runs -> Status]
          /\ status'[r] = end /\ status'[r + 1] = "QUEUED"
          /\ \A s \in Runs \ {r, r + 1} : status'[s] = status[s]
      BY <2>1, <2>2, <2>3 DEF TypeOK, Status, Active, Ended
    <2>5. /\ followUp' \in [Runs -> FollowUp]
          /\ followUp'[r].state = "DISPATCHED" /\ followUp'[r].key # None
          /\ \A s \in Runs : s # r => followUp'[s] = followUp[s]
      <3>1. followUp[r] \in FollowUp /\ followUp[r].key # None
        BY <2>1 DEF TypeOK, AllHaveKeys
      <3>2. /\ followUp' = [followUp EXCEPT ![r] = followUp'[r]]
            /\ followUp'[r] = [followUp[r] EXCEPT !.state = "DISPATCHED", !.next = r + 1]
        BY <2>3 DEF TypeOK
      <3>3. /\ followUp'[r] \in FollowUp
            /\ followUp'[r].state = "DISPATCHED" /\ followUp'[r].key # None
        BY <2>2, <3>1, <3>2 DEF FollowUp
      <3> QED BY <3>2, <3>3 DEF TypeOK
    <2>6. <<Msg("user", None, followUp[r].key), Msg("run", r + 1, None)>> \in Seq(Message)
      <3>1. Msg("user", None, followUp[r].key) \in Message /\ Msg("run", r + 1, None) \in Message
        BY <2>2 DEF TypeOK, FollowUp, Msg, Message
      <3> QED BY <3>1
    <2>7. /\ transcript' \in Seq(Message) /\ fresh' = {}
          /\ asked' \in Request
      BY <2>3, <2>6, AppendsTyped
    <2>8. Chained'
      <3>1. ASSUME NEW t \in Runs, NEW s \in Runs, s < t, status'[t] # "NEW"
            PROVE  status'[s] # "NEW" /\ followUp'[s].state = "DISPATCHED"
        <4>1. status[r] # "NEW" /\ end # "NEW"
          BY DEF Ended
        <4>2. CASE t = r + 1
          <5>1. s = r \/ s < r
            BY <3>1, <4>2 DEF Runs
          <5>2. s < r => s \in Runs \ {r, r + 1}
            BY DEF Runs
          <5> QED BY <2>4, <2>5, <4>1, <5>1, <5>2 DEF Chained
        <4>3. CASE t # r + 1
          <5>1. status[t] # "NEW"
            BY <2>4, <3>1, <4>1, <4>3
          <5>2. status[s] # "NEW" /\ followUp[s].state = "DISPATCHED"
            BY <3>1, <5>1 DEF Chained
          <5>3. s \in Runs \ {r, r + 1}
            BY <2>1, <2>2, <5>2
          <5> QED BY <2>4, <2>5, <5>2, <5>3
        <4> QED BY <4>2, <4>3
      <3>2. ASSUME NEW s \in Runs
            PROVE  /\ status'[s] = "NEW" => followUp'[s].state = "NONE"
                   /\ followUp'[s].state = "WAITING" => s < MaxRuns
        <4>1. end # "NEW"
          BY DEF Ended
        <4> QED BY <2>1, <2>2, <2>4, <2>5, <4>1 DEF Chained
      <3> QED BY <3>1, <3>2 DEF Chained
    <2> QED BY <2>2, <2>4, <2>5, <2>7, <2>8
  <1>2. CASE ~Dispatches(r, end)
    <2>1. /\ status' = [status EXCEPT ![r] = end] /\ followUp' = followUp
          /\ IF speaking THEN Speaks ELSE Emits(r)
      BY <1>2 DEF EndsAs
    <2>2. /\ transcript' \in Seq(Message) /\ fresh' \subseteq fresh /\ (speaking => fresh' = {})
          /\ asked' \in Request
      BY <2>1, SpeaksTyped, EmitsTyped
    <2>3. status' \in [Runs -> Status] /\ status'[r] = end
      BY <2>1 DEF TypeOK, Status
    <2>4. Chained'
      BY <2>1 DEF Chained, TypeOK, Ended
    <2>5. followUp'[r].state # "WAITING"
      BY <1>2, <2>1 DEF Dispatches
    <2> QED BY <2>1, <2>2, <2>3, <2>4, <2>5 DEF TypeOK, AllHaveKeys
  <1> QED BY <1>1, <1>2

(* Claim keeps the invariant of the runs.                                  *)
LEMMA ClaimRuns ==
  ASSUME RunsInv, NEW r \in Runs, Claim(r)
  PROVE  RunsInv'
  <1> USE DEF RunsInv
  <1>1. /\ status' \in [Runs -> Status] /\ followUp' \in [Runs -> FollowUp]
        /\ intervention' \in [Runs -> Intervention] /\ work' \in [Runs -> Stage]
        /\ callback' \in [Runs -> Callback] /\ HeldIsStarted'
    BY DEF TypeOK, HeldIsStarted, FreshHolds, Callback, AnsweredHasStarted, Status, Active, Ended,
           FollowUp, Intervention, Stage, Claim, Emits
  <1>2. transcript' \in Seq(Message) /\ asked' \in Request /\ answering' \in [Answers -> Reply]
    BY DEF TypeOK, Request, Reply, Claim, Emits
  <1>3. /\ tries' \in [Runs -> 0..Attempts] /\ heard' \in [Runs -> SUBSET Keys]
        /\ deleted' \in BOOLEAN /\ fresh' \subseteq Runs /\ orphaned' \subseteq Runs
        /\ cancelling' \subseteq Runs /\ cutOff' \subseteq Runs /\ faults' \in 0..MaxFaults
    BY DEF TypeOK, Intervention, AllHaveKeys, Claim, Emits
  <1>4. Chained' /\ AllHaveKeys'
    BY DEF TypeOK, Chained, AllHaveKeys, AnsweredHasStarted, FollowUp, Intervention, Claim, Emits
  <1>5. AnsweredHasStarted' /\ FreshHolds' /\ DecidedHasHeard'
    BY DEF TypeOK, AnsweredHasStarted, FreshHolds, HeldIsStarted, DecidedHasHeard, Reply, Claim,
           Emits
  <1>6. NothingWaitsBehind'
    BY DEF TypeOK, NothingWaitsBehind, Answered, AnsweredHasStarted, Reply, Ended, Claim, Emits
  <1> QED BY <1>1, <1>2, <1>3, <1>4, <1>5, <1>6 DEF TypeOK

(* Poll keeps the invariant of the runs.                                   *)
LEMMA PollRuns ==
  ASSUME RunsInv, NEW r \in Runs, Poll(r)
  PROVE  RunsInv'
  <1> USE DEF RunsInv
  <1>0. /\ intervention' = [intervention EXCEPT ![r] = intervention'[r]]
        /\ intervention'[r] \in Intervention /\ intervention'[r].key = intervention[r].key
        /\ intervention'[r].state = "NONE" <=> intervention[r].state = "NONE"
        /\ \A s \in Runs : s # r => intervention'[s] = intervention[s]
    <2>1. CASE intervention[r].state = "PENDING"
      <3>1. /\ intervention' = [intervention EXCEPT ![r] = intervention'[r]]
            /\ intervention'[r] = [intervention[r] EXCEPT !.state = "APPLIED"]
            /\ intervention[r] \in Intervention
        BY <2>1 DEF TypeOK, Poll
      <3>2. /\ intervention'[r] \in Intervention /\ intervention'[r].key = intervention[r].key
            /\ intervention'[r].state = "APPLIED"
        BY <3>1 DEF Intervention
      <3>3. \A s \in Runs : s # r => intervention'[s] = intervention[s]
        BY <3>1 DEF TypeOK
      <3> QED BY <2>1, <3>1, <3>2, <3>3
    <2>2. CASE intervention[r].state # "PENDING"
      BY <2>2 DEF TypeOK, Poll
    <2> QED BY <2>1, <2>2
  <1>1. /\ status' \in [Runs -> Status] /\ followUp' \in [Runs -> FollowUp]
        /\ intervention' \in [Runs -> Intervention] /\ work' \in [Runs -> Stage]
        /\ callback' \in [Runs -> Callback] /\ HeldIsStarted'
    <2>1. intervention' \in [Runs -> Intervention]
      BY <1>0 DEF TypeOK
    <2>2. /\ work' \in [Runs -> Stage]
          /\ callback' \in [Runs -> Callback] /\ HeldIsStarted'
      BY DEF TypeOK, HeldIsStarted, Stage, Poll
    <2> QED BY <2>1, <2>2 DEF TypeOK, Poll
  <1>2. transcript' \in Seq(Message) /\ asked' \in Request /\ answering' \in [Answers -> Reply]
    BY DEF TypeOK, Request, Reply, Poll, Emits, Deliverable
  <1>3. /\ tries' \in [Runs -> 0..Attempts] /\ heard' \in [Runs -> SUBSET Keys]
        /\ deleted' \in BOOLEAN /\ fresh' \subseteq Runs /\ orphaned' \subseteq Runs
        /\ cancelling' \subseteq Runs /\ cutOff' \subseteq Runs /\ faults' \in 0..MaxFaults
    BY DEF TypeOK, Intervention, AllHaveKeys, Poll, Emits, Deliverable
  <1>4. Chained' /\ AllHaveKeys'
    <2>1. \A s \in Runs : /\ intervention'[s].key = intervention[s].key
                          /\ intervention'[s].state = "NONE" <=> intervention[s].state = "NONE"
      BY <1>0
    <2> QED BY <2>1 DEF Chained, AllHaveKeys, Poll
  <1>5. AnsweredHasStarted' /\ FreshHolds' /\ DecidedHasHeard'
    <2>1. AnsweredHasStarted'
      BY DEF TypeOK, AnsweredHasStarted, Reply, Poll
    <2>2. ASSUME NEW s \in Runs, work'[s] \in {"deciding", "publishing"} \/ s \in fresh',
                 intervention'[s].state = "APPLIED"
          PROVE  intervention'[s].key \in heard'[s]
      <3>1. CASE s = r
        <4>1. intervention'[r].key = intervention[r].key /\ intervention[r].state # "NONE"
          BY <2>2, <3>1 DEF TypeOK, Intervention, Poll
        <4> QED BY <3>1, <4>1 DEF TypeOK, Poll, Deliverable
      <3>2. CASE s # r
        BY <2>2, <3>2 DEF TypeOK, DecidedHasHeard, Poll, Emits
      <3> QED BY <3>1, <3>2
    <2>3. FreshHolds'
      BY DEF TypeOK, FreshHolds, Poll, Emits
    <2> QED BY <2>1, <2>2, <2>3 DEF DecidedHasHeard
  <1>6. NothingWaitsBehind'
    BY DEF TypeOK, NothingWaitsBehind, Answered, AnsweredHasStarted, Reply, Ended, Poll, Emits,
           Deliverable
  <1> QED BY <1>1, <1>2, <1>3, <1>4, <1>5, <1>6 DEF TypeOK

(* Decides keeps the invariant of the runs.                                *)
LEMMA DecidesRuns ==
  ASSUME RunsInv, NEW r \in Runs, Decides(r)
  PROVE  RunsInv'
  <1> USE DEF RunsInv
  <1>1. /\ status' \in [Runs -> Status] /\ followUp' \in [Runs -> FollowUp]
        /\ intervention' \in [Runs -> Intervention] /\ work' \in [Runs -> Stage]
        /\ callback' \in [Runs -> Callback] /\ HeldIsStarted'
    BY DEF TypeOK, HeldIsStarted, FreshHolds, Callback, Stage, Decides, rows, requests
  <1>2. transcript' \in Seq(Message) /\ asked' \in Request /\ answering' \in [Answers -> Reply]
    BY DEF TypeOK, Request, Reply, Decides, rows, requests
  <1>3. /\ tries' \in [Runs -> 0..Attempts] /\ heard' \in [Runs -> SUBSET Keys]
        /\ deleted' \in BOOLEAN /\ fresh' \subseteq Runs /\ orphaned' \subseteq Runs
        /\ cancelling' \subseteq Runs /\ cutOff' \subseteq Runs /\ faults' \in 0..MaxFaults
    BY DEF TypeOK, Intervention, AllHaveKeys, Decides, rows, requests
  <1>4. Chained' /\ AllHaveKeys'
    BY DEF TypeOK, Chained, AllHaveKeys, AnsweredHasStarted, FollowUp, Intervention, Decides, rows,
           requests
  <1>5. AnsweredHasStarted' /\ FreshHolds' /\ DecidedHasHeard'
    BY DEF TypeOK, AnsweredHasStarted, FreshHolds, HeldIsStarted, DecidedHasHeard, Reply, Decides,
           rows, requests
  <1>6. NothingWaitsBehind'
    BY DEF TypeOK, NothingWaitsBehind, Answered, AnsweredHasStarted, Reply, Ended, Decides, rows,
           requests
  <1> QED BY <1>1, <1>2, <1>3, <1>4, <1>5, <1>6 DEF TypeOK

(* CompleteReads keeps the invariant of the runs.                          *)
LEMMA CompleteReadsRuns ==
  ASSUME RunsInv, NEW r \in Runs, CompleteReads(r)
  PROVE  RunsInv'
  <1> USE DEF RunsInv
  <1>1. /\ status' \in [Runs -> Status] /\ followUp' \in [Runs -> FollowUp]
        /\ intervention' \in [Runs -> Intervention] /\ work' \in [Runs -> Stage]
        /\ callback' \in [Runs -> Callback] /\ HeldIsStarted'
    BY DEF TypeOK, HeldIsStarted, FreshHolds, Callback, Status, Active, Ended, FollowUp,
           Intervention, Stage, Calls, CompleteReads, rows, requests
  <1>2. transcript' \in Seq(Message) /\ asked' \in Request /\ answering' \in [Answers -> Reply]
    BY DEF TypeOK, Request, Reply, Calls, CompleteReads, rows, requests
  <1>3. /\ tries' \in [Runs -> 0..Attempts] /\ heard' \in [Runs -> SUBSET Keys]
        /\ deleted' \in BOOLEAN /\ fresh' \subseteq Runs /\ orphaned' \subseteq Runs
        /\ cancelling' \subseteq Runs /\ cutOff' \subseteq Runs /\ faults' \in 0..MaxFaults
    BY DEF TypeOK, Calls, CompleteReads, rows, requests
  <1>4. Chained' /\ AllHaveKeys'
    BY DEF TypeOK, Chained, AllHaveKeys, Calls, CompleteReads, rows, requests
  <1>5. AnsweredHasStarted' /\ FreshHolds' /\ DecidedHasHeard'
    BY DEF TypeOK, AnsweredHasStarted, FreshHolds, HeldIsStarted, DecidedHasHeard, Reply,
           Calls, CompleteReads, rows, requests
  <1>6. NothingWaitsBehind'
    BY DEF TypeOK, NothingWaitsBehind, Answered, Ended, Calls, CompleteReads, rows, requests
  <1> QED BY <1>1, <1>2, <1>3, <1>4, <1>5, <1>6 DEF TypeOK

(* WaitingReads keeps the invariant of the runs.                           *)
LEMMA WaitingReadsRuns ==
  ASSUME RunsInv, NEW r \in Runs, WaitingReads(r)
  PROVE  RunsInv'
  <1> USE DEF RunsInv
  <1>1. /\ status' \in [Runs -> Status] /\ followUp' \in [Runs -> FollowUp]
        /\ intervention' \in [Runs -> Intervention] /\ work' \in [Runs -> Stage]
        /\ callback' \in [Runs -> Callback] /\ HeldIsStarted'
    BY DEF TypeOK, HeldIsStarted, FreshHolds, Callback, Status, Active, Ended, FollowUp,
           Intervention, Stage, Calls, WaitingReads, rows, requests
  <1>2. transcript' \in Seq(Message) /\ asked' \in Request /\ answering' \in [Answers -> Reply]
    BY DEF TypeOK, Request, Reply, Calls, WaitingReads, rows, requests
  <1>3. /\ tries' \in [Runs -> 0..Attempts] /\ heard' \in [Runs -> SUBSET Keys]
        /\ deleted' \in BOOLEAN /\ fresh' \subseteq Runs /\ orphaned' \subseteq Runs
        /\ cancelling' \subseteq Runs /\ cutOff' \subseteq Runs /\ faults' \in 0..MaxFaults
    BY DEF TypeOK, Calls, WaitingReads, rows, requests
  <1>4. Chained' /\ AllHaveKeys'
    BY DEF TypeOK, Chained, AllHaveKeys, Calls, WaitingReads, rows, requests
  <1>5. AnsweredHasStarted' /\ FreshHolds' /\ DecidedHasHeard'
    BY DEF TypeOK, AnsweredHasStarted, FreshHolds, HeldIsStarted, DecidedHasHeard, Reply,
           Calls, WaitingReads, rows, requests
  <1>6. NothingWaitsBehind'
    BY DEF TypeOK, NothingWaitsBehind, Answered, Ended, Calls, WaitingReads, rows, requests
  <1> QED BY <1>1, <1>2, <1>3, <1>4, <1>5, <1>6 DEF TypeOK

(* WaitsForUser keeps the invariant of the runs.                           *)
LEMMA WaitsForUserRuns ==
  ASSUME RunsInv, NEW r \in Runs, WaitsForUser(r)
  PROVE  RunsInv'
  <1> USE DEF RunsInv
  <1>1. /\ status' \in [Runs -> Status] /\ followUp' \in [Runs -> FollowUp]
        /\ intervention' \in [Runs -> Intervention] /\ work' \in [Runs -> Stage]
        /\ callback' \in [Runs -> Callback] /\ HeldIsStarted'
    BY DEF TypeOK, HeldIsStarted, FreshHolds, Callback, Status, Active, Ended, FollowUp,
           Intervention, Stage, WaitsForUser
  <1>2. transcript' \in Seq(Message) /\ asked' \in Request /\ answering' \in [Answers -> Reply]
    BY SpeaksTyped DEF TypeOK, WaitsForUser
  <1>3. /\ tries' \in [Runs -> 0..Attempts] /\ heard' \in [Runs -> SUBSET Keys]
        /\ deleted' \in BOOLEAN /\ fresh' \subseteq Runs /\ orphaned' \subseteq Runs
        /\ cancelling' \subseteq Runs /\ cutOff' \subseteq Runs /\ faults' \in 0..MaxFaults
    BY SpeaksTyped DEF TypeOK, WaitsForUser
  <1>4. Chained' /\ AllHaveKeys'
    <2>1. \A s \in Runs : status'[s] = "NEW" <=> status[s] = "NEW"
      BY DEF TypeOK, HeldIsStarted, WaitsForUser
    <2> QED BY <2>1 DEF Chained, AllHaveKeys, WaitsForUser
  <1>5. AnsweredHasStarted' /\ FreshHolds' /\ DecidedHasHeard'
    BY SpeaksTyped DEF TypeOK, AnsweredHasStarted, FreshHolds, HeldIsStarted, DecidedHasHeard,
       Reply, WaitsForUser
  <1>6. NothingWaitsBehind'
    BY DEF TypeOK, NothingWaitsBehind, Answered, Ended, WaitsForUser
  <1> QED BY <1>1, <1>2, <1>3, <1>4, <1>5, <1>6 DEF TypeOK

(* WaitingFinishes keeps the invariant of the runs.                        *)
LEMMA WaitingFinishesRuns ==
  ASSUME RunsInv, NEW r \in Runs, WaitingFinishes(r)
  PROVE  RunsInv'
  <1> USE DEF RunsInv
  <1>1. /\ status' \in [Runs -> Status] /\ followUp' \in [Runs -> FollowUp]
        /\ intervention' \in [Runs -> Intervention] /\ work' \in [Runs -> Stage]
        /\ callback' \in [Runs -> Callback] /\ HeldIsStarted'
    BY DEF TypeOK, HeldIsStarted, FreshHolds, Callback, Status, Active, Ended, FollowUp,
           Intervention, Stage, WaitingFinishes, EndsLease, rows, requests
  <1>2. transcript' \in Seq(Message) /\ asked' \in Request /\ answering' \in [Answers -> Reply]
    BY DEF TypeOK, Request, Reply, WaitingFinishes, EndsLease, rows, requests
  <1>3. /\ tries' \in [Runs -> 0..Attempts] /\ heard' \in [Runs -> SUBSET Keys]
        /\ deleted' \in BOOLEAN /\ fresh' \subseteq Runs /\ orphaned' \subseteq Runs
        /\ cancelling' \subseteq Runs /\ cutOff' \subseteq Runs /\ faults' \in 0..MaxFaults
    BY DEF TypeOK, WaitingFinishes, EndsLease, rows, requests
  <1>4. Chained' /\ AllHaveKeys'
    BY DEF TypeOK, Chained, AllHaveKeys, WaitingFinishes, EndsLease, rows, requests
  <1>5. AnsweredHasStarted' /\ FreshHolds' /\ DecidedHasHeard'
    BY DEF TypeOK, AnsweredHasStarted, FreshHolds, HeldIsStarted, DecidedHasHeard, Reply,
           WaitingFinishes, EndsLease, rows, requests
  <1>6. NothingWaitsBehind'
    BY DEF TypeOK, NothingWaitsBehind, Answered, Ended, WaitingFinishes, EndsLease, rows, requests
  <1> QED BY <1>1, <1>2, <1>3, <1>4, <1>5, <1>6 DEF TypeOK

(* CallbackFails keeps the invariant of the runs.                          *)
LEMMA CallbackFailsRuns ==
  ASSUME RunsInv, NEW r \in Runs, CallbackFails(r)
  PROVE  RunsInv'
  <1> USE DEF RunsInv
  <1>1. /\ status' \in [Runs -> Status] /\ followUp' \in [Runs -> FollowUp]
        /\ intervention' \in [Runs -> Intervention] /\ work' \in [Runs -> Stage]
        /\ callback' \in [Runs -> Callback] /\ HeldIsStarted'
    BY DEF TypeOK, HeldIsStarted, FreshHolds, Callback, Status, Active, Ended, FollowUp,
           Intervention, Stage, CallbackFails, rows, requests
  <1>2. transcript' \in Seq(Message) /\ asked' \in Request /\ answering' \in [Answers -> Reply]
    BY DEF TypeOK, Request, Reply, CallbackFails, rows, requests
  <1>3. /\ tries' \in [Runs -> 0..Attempts] /\ heard' \in [Runs -> SUBSET Keys]
        /\ deleted' \in BOOLEAN /\ fresh' \subseteq Runs /\ orphaned' \subseteq Runs
        /\ cancelling' \subseteq Runs /\ cutOff' \subseteq Runs /\ faults' \in 0..MaxFaults
    BY DEF TypeOK, CallbackFails, rows, requests
  <1>4. Chained' /\ AllHaveKeys'
    BY DEF TypeOK, Chained, AllHaveKeys, CallbackFails, rows, requests
  <1>5. AnsweredHasStarted' /\ FreshHolds' /\ DecidedHasHeard'
    BY DEF TypeOK, AnsweredHasStarted, FreshHolds, HeldIsStarted, DecidedHasHeard, Reply,
           CallbackFails, rows, requests
  <1>6. NothingWaitsBehind'
    BY DEF TypeOK, NothingWaitsBehind, Answered, Ended, CallbackFails, rows, requests
  <1> QED BY <1>1, <1>2, <1>3, <1>4, <1>5, <1>6 DEF TypeOK

(* Retry keeps the invariant of the runs.                                  *)
LEMMA RetryRuns ==
  ASSUME RunsInv, NEW r \in Runs, Retry(r)
  PROVE  RunsInv'
  <1> USE DEF RunsInv
  <1>1. /\ status' \in [Runs -> Status] /\ followUp' \in [Runs -> FollowUp]
        /\ intervention' \in [Runs -> Intervention] /\ work' \in [Runs -> Stage]
        /\ callback' \in [Runs -> Callback] /\ HeldIsStarted'
    BY DEF TypeOK, HeldIsStarted, FreshHolds, Callback, Status, Active, Ended, FollowUp,
           Intervention, Stage, Retry, EndsLease, Emits
  <1>2. transcript' \in Seq(Message) /\ asked' \in Request /\ answering' \in [Answers -> Reply]
    BY DEF TypeOK, Request, Reply, Retry, EndsLease, Emits
  <1>3. /\ tries' \in [Runs -> 0..Attempts] /\ heard' \in [Runs -> SUBSET Keys]
        /\ deleted' \in BOOLEAN /\ fresh' \subseteq Runs /\ orphaned' \subseteq Runs
        /\ cancelling' \subseteq Runs /\ cutOff' \subseteq Runs /\ faults' \in 0..MaxFaults
    BY DEF TypeOK, Retry, EndsLease, Emits
  <1>4. Chained' /\ AllHaveKeys'
    <2>1. \A s \in Runs : status'[s] = "NEW" <=> status[s] = "NEW"
      BY DEF TypeOK, Retry
    <2> QED BY <2>1 DEF Chained, AllHaveKeys, Retry
  <1>5. AnsweredHasStarted' /\ FreshHolds' /\ DecidedHasHeard'
    BY DEF TypeOK, AnsweredHasStarted, FreshHolds, HeldIsStarted, DecidedHasHeard, Reply,
           Retry, EndsLease, Emits
  <1>6. NothingWaitsBehind'
    BY DEF TypeOK, NothingWaitsBehind, Answered, Ended, Retry, EndsLease, Emits
  <1> QED BY <1>1, <1>2, <1>3, <1>4, <1>5, <1>6 DEF TypeOK

(* Expires keeps the invariant of the runs.                                *)
LEMMA ExpiresRuns ==
  ASSUME RunsInv, NEW r \in Runs, Expires(r)
  PROVE  RunsInv'
  <1> USE DEF RunsInv
  <1>1. /\ status' \in [Runs -> Status] /\ followUp' \in [Runs -> FollowUp]
        /\ intervention' \in [Runs -> Intervention] /\ work' \in [Runs -> Stage]
        /\ callback' \in [Runs -> Callback] /\ HeldIsStarted'
    BY DEF TypeOK, HeldIsStarted, FreshHolds, Callback, Status, Active, Ended, FollowUp,
           Intervention, Stage, Expires, EndsLease
  <1>2. transcript' \in Seq(Message) /\ asked' \in Request /\ answering' \in [Answers -> Reply]
    <2>1. asked' \in Request
      BY DEF TypeOK, Request, Expires
    <2> QED BY <2>1 DEF TypeOK, Expires
  <1>3. /\ tries' \in [Runs -> 0..Attempts] /\ heard' \in [Runs -> SUBSET Keys]
        /\ deleted' \in BOOLEAN /\ fresh' \subseteq Runs /\ orphaned' \subseteq Runs
        /\ cancelling' \subseteq Runs /\ cutOff' \subseteq Runs /\ faults' \in 0..MaxFaults
    BY DEF TypeOK, Expires, EndsLease
  <1>4. Chained' /\ AllHaveKeys'
    <2>1. \A s \in Runs : status'[s] = "NEW" <=> status[s] = "NEW"
      BY DEF TypeOK, Expires
    <2> QED BY <2>1 DEF Chained, AllHaveKeys, Expires
  <1>5. AnsweredHasStarted' /\ FreshHolds' /\ DecidedHasHeard'
    BY DEF TypeOK, AnsweredHasStarted, FreshHolds, HeldIsStarted, DecidedHasHeard, Reply,
           Expires, EndsLease
  <1>6. NothingWaitsBehind'
    BY DEF TypeOK, NothingWaitsBehind, Answered, Ended, Expires, EndsLease
  <1> QED BY <1>1, <1>2, <1>3, <1>4, <1>5, <1>6 DEF TypeOK

(* Queue keeps the invariant of the runs.                                  *)
LEMMA QueueRuns ==
  ASSUME RunsInv, NEW r \in Runs, NEW k \in Keys, Queue(r, k)
  PROVE  RunsInv'
  <1> USE DEF RunsInv
  <1>1. /\ status' \in [Runs -> Status] /\ followUp' \in [Runs -> FollowUp]
        /\ intervention' \in [Runs -> Intervention] /\ work' \in [Runs -> Stage]
        /\ callback' \in [Runs -> Callback] /\ HeldIsStarted'
    BY DEF TypeOK, HeldIsStarted, FreshHolds, Callback, AnsweredHasStarted, Status, Active, Ended,
           FollowUp, Intervention, Stage, Queue, Emits, attempt
  <1>2. transcript' \in Seq(Message) /\ asked' \in Request /\ answering' \in [Answers -> Reply]
    BY DEF TypeOK, Request, Reply, Queue, Emits, Active, attempt
  <1>3. /\ tries' \in [Runs -> 0..Attempts] /\ heard' \in [Runs -> SUBSET Keys]
        /\ deleted' \in BOOLEAN /\ fresh' \subseteq Runs /\ orphaned' \subseteq Runs
        /\ cancelling' \subseteq Runs /\ cutOff' \subseteq Runs /\ faults' \in 0..MaxFaults
    BY DEF TypeOK, Intervention, AllHaveKeys, Queue, Emits, Active, attempt
  <1>4. Chained' /\ AllHaveKeys'
    BY DEF TypeOK, Chained, AllHaveKeys, AnsweredHasStarted, FollowUp, Intervention, Queue, Emits,
           Active, attempt
  <1>5. AnsweredHasStarted' /\ FreshHolds' /\ DecidedHasHeard'
    BY DEF TypeOK, AnsweredHasStarted, FreshHolds, HeldIsStarted, DecidedHasHeard, Reply, Queue,
           Emits, Active, attempt
  <1>6. NothingWaitsBehind'
    BY DEF TypeOK, NothingWaitsBehind, Answered, AnsweredHasStarted, Reply, Ended, Queue, Emits,
           Active, attempt
  <1> QED BY <1>1, <1>2, <1>3, <1>4, <1>5, <1>6 DEF TypeOK

(* Intervene keeps the invariant of the runs.                              *)
LEMMA InterveneRuns ==
  ASSUME RunsInv, NEW r \in Runs, NEW k \in Keys, Intervene(r, k)
  PROVE  RunsInv'
  <1> USE DEF RunsInv
  <1>1. /\ status' \in [Runs -> Status] /\ followUp' \in [Runs -> FollowUp]
        /\ intervention' \in [Runs -> Intervention] /\ work' \in [Runs -> Stage]
        /\ callback' \in [Runs -> Callback] /\ HeldIsStarted'
    BY DEF TypeOK, HeldIsStarted, FreshHolds, Callback, AnsweredHasStarted, Status, Active, Ended,
           FollowUp, Intervention, Stage, Intervene, Appends, attempt
  <1>2. transcript' \in Seq(Message) /\ asked' \in Request /\ answering' \in [Answers -> Reply]
    <2>1. Msg("user", None, k) \in Message
      BY DEF TypeOK, Reply, Msg, Message
    <2>2. Appends(<<Msg("user", None, k)>>)
      BY DEF Intervene
    <2>3. <<Msg("user", None, k)>> \in Seq(Message)
      BY <2>1
    <2>4. answering' \in [Answers -> Reply]
      BY DEF TypeOK, Reply, Intervene
    <2> QED BY <2>2, <2>3, <2>4, AppendsTyped
  <1>3. /\ tries' \in [Runs -> 0..Attempts] /\ heard' \in [Runs -> SUBSET Keys]
        /\ deleted' \in BOOLEAN /\ fresh' \subseteq Runs /\ orphaned' \subseteq Runs
        /\ cancelling' \subseteq Runs /\ cutOff' \subseteq Runs /\ faults' \in 0..MaxFaults
    BY DEF TypeOK, Intervention, AllHaveKeys, Intervene, Appends, Active, attempt
  <1>4. Chained' /\ AllHaveKeys'
    BY DEF TypeOK, Chained, AllHaveKeys, AnsweredHasStarted, FollowUp, Intervention, Intervene,
           Appends, Active, attempt
  <1>5. AnsweredHasStarted' /\ FreshHolds' /\ DecidedHasHeard'
    BY DEF TypeOK, AnsweredHasStarted, FreshHolds, HeldIsStarted, DecidedHasHeard, Reply, Intervene,
           Appends, Active, attempt
  <1>6. NothingWaitsBehind'
    BY DEF TypeOK, NothingWaitsBehind, Answered, AnsweredHasStarted, Reply, Ended, Intervene,
           Appends, Active, attempt
  <1> QED BY <1>1, <1>2, <1>3, <1>4, <1>5, <1>6 DEF TypeOK

(* AsksToIntervene keeps the invariant of the runs.                        *)
LEMMA AsksToInterveneRuns ==
  ASSUME RunsInv, NEW r \in Runs, AsksToIntervene(r)
  PROVE  RunsInv'
  <1> USE DEF RunsInv
  <1>1. /\ status' \in [Runs -> Status] /\ followUp' \in [Runs -> FollowUp]
        /\ intervention' \in [Runs -> Intervention] /\ work' \in [Runs -> Stage]
        /\ callback' \in [Runs -> Callback] /\ HeldIsStarted'
    BY DEF TypeOK, HeldIsStarted, FreshHolds, Callback, AnsweredHasStarted, Status, Active, Ended,
           FollowUp, Intervention, Stage, AsksToIntervene, rows, worker, NotAsked
  <1>2. transcript' \in Seq(Message) /\ asked' \in Request /\ answering' \in [Answers -> Reply]
    BY DEF TypeOK, Request, Reply, AsksToIntervene, Active, rows, worker, NotAsked
  <1>3. /\ tries' \in [Runs -> 0..Attempts] /\ heard' \in [Runs -> SUBSET Keys]
        /\ deleted' \in BOOLEAN /\ fresh' \subseteq Runs /\ orphaned' \subseteq Runs
        /\ cancelling' \subseteq Runs /\ cutOff' \subseteq Runs /\ faults' \in 0..MaxFaults
    BY DEF TypeOK, Intervention, AllHaveKeys, AsksToIntervene, Active, rows, worker, NotAsked
  <1>4. Chained' /\ AllHaveKeys'
    BY DEF TypeOK, Chained, AllHaveKeys, AnsweredHasStarted, FollowUp, Intervention,
           AsksToIntervene, Active, rows, worker, NotAsked
  <1>5. AnsweredHasStarted' /\ FreshHolds' /\ DecidedHasHeard'
    BY DEF TypeOK, AnsweredHasStarted, FreshHolds, HeldIsStarted, DecidedHasHeard, Reply,
           AsksToIntervene, Active, rows, worker, NotAsked
  <1>6. NothingWaitsBehind'
    BY DEF TypeOK, NothingWaitsBehind, Answered, AnsweredHasStarted, Reply, Ended, AsksToIntervene,
           Active, rows, worker, NotAsked
  <1> QED BY <1>1, <1>2, <1>3, <1>4, <1>5, <1>6 DEF TypeOK

(* Intervenes keeps the invariant of the runs.                             *)
LEMMA IntervenesRuns ==
  ASSUME Inv, Intervenes
  PROVE  RunsInv'
  <1> USE DEF Inv, RunsInv
  <1>0. asked.run \in Runs /\ followUp[asked.run].state = "WAITING"
    BY DEF TypeOK, Request, Placed, FreshRequestWaits, Intervenes, NumbersAreFree
  <1>1. /\ status' \in [Runs -> Status] /\ followUp' \in [Runs -> FollowUp]
        /\ intervention' \in [Runs -> Intervention] /\ work' \in [Runs -> Stage]
        /\ callback' \in [Runs -> Callback] /\ HeldIsStarted'
    <2>1. followUp' \in [Runs -> FollowUp]
      <3>1. /\ followUp' = [followUp EXCEPT ![asked.run] = followUp'[asked.run]]
            /\ followUp'[asked.run] = [followUp[asked.run] EXCEPT !.state = "INTERVENED"]
            /\ followUp[asked.run] \in FollowUp
        BY <1>0 DEF TypeOK, Intervenes
      <3>2. followUp'[asked.run] \in FollowUp
        BY <3>1 DEF FollowUp
      <3> QED BY <3>1, <3>2 DEF TypeOK
    <2>2. intervention' \in [Runs -> Intervention]
      BY <1>0 DEF TypeOK, FollowUp, Intervention, Intervenes
    <2> QED BY <2>1, <2>2 DEF TypeOK, HeldIsStarted, Intervenes, attempt
  <1>2. transcript' \in Seq(Message) /\ asked' \in Request /\ answering' \in [Answers -> Reply]
    <2>1. Msg("user", None, followUp[asked.run].key) \in Message
      BY <1>0 DEF TypeOK, FollowUp, Msg, Message
    <2>2. asked' \in Request
      BY DEF Request, NotAsked, Intervenes
    <2> QED BY <2>1, <2>2 DEF TypeOK, Intervenes
  <1>3. /\ tries' \in [Runs -> 0..Attempts] /\ heard' \in [Runs -> SUBSET Keys]
        /\ deleted' \in BOOLEAN /\ fresh' \subseteq Runs /\ orphaned' \subseteq Runs
        /\ cancelling' \subseteq Runs /\ cutOff' \subseteq Runs /\ faults' \in 0..MaxFaults
    BY DEF TypeOK, Intervention, AllHaveKeys, Intervenes, NumbersAreFree, attempt, NotAsked
  <1>4. Chained' /\ AllHaveKeys'
    <2>1. /\ followUp'[asked.run].key = followUp[asked.run].key
          /\ followUp'[asked.run].state = "INTERVENED"
          /\ \A s \in Runs : s # asked.run => followUp'[s] = followUp[s]
      BY <1>0 DEF TypeOK, FollowUp, Intervenes
    <2>2. /\ intervention'[asked.run].key = followUp[asked.run].key
          /\ intervention'[asked.run].state = "PENDING"
          /\ \A s \in Runs : s # asked.run => intervention'[s] = intervention[s]
      BY <1>0 DEF TypeOK, Intervenes
    <2>3. followUp[asked.run].key # None
      BY <1>0 DEF AllHaveKeys
    <2>4. AllHaveKeys'
      BY <2>1, <2>2, <2>3 DEF AllHaveKeys
    <2>5. Chained'
      BY <1>0, <2>1 DEF Chained, Intervenes
    <2> QED BY <2>4, <2>5
  <1>5. AnsweredHasStarted' /\ FreshHolds' /\ DecidedHasHeard'
    BY DEF TypeOK, AnsweredHasStarted, FreshHolds, HeldIsStarted, DecidedHasHeard, Reply,
           Intervenes, NumbersAreFree, attempt, NotAsked
  <1>6. NothingWaitsBehind'
    BY DEF TypeOK, NothingWaitsBehind, Answered, AnsweredHasStarted, Reply, Ended, Intervenes,
           NumbersAreFree, attempt, NotAsked
  <1> QED BY <1>1, <1>2, <1>3, <1>4, <1>5, <1>6 DEF TypeOK

(* AskingFails keeps the invariant of the runs.                            *)
LEMMA AskingFailsRuns ==
  ASSUME RunsInv, AskingFails
  PROVE  RunsInv'
  <1> USE DEF RunsInv
  <1>1. /\ status' \in [Runs -> Status] /\ followUp' \in [Runs -> FollowUp]
        /\ intervention' \in [Runs -> Intervention] /\ work' \in [Runs -> Stage]
        /\ callback' \in [Runs -> Callback] /\ HeldIsStarted'
    BY DEF TypeOK, HeldIsStarted, FreshHolds, Callback, AnsweredHasStarted, Status, Active, Ended,
           FollowUp, Intervention, Stage, AskingFails, rows, worker, NotAsked
  <1>2. transcript' \in Seq(Message) /\ asked' \in Request /\ answering' \in [Answers -> Reply]
    BY DEF TypeOK, Request, Reply, AskingFails, rows, worker, NotAsked
  <1>3. /\ tries' \in [Runs -> 0..Attempts] /\ heard' \in [Runs -> SUBSET Keys]
        /\ deleted' \in BOOLEAN /\ fresh' \subseteq Runs /\ orphaned' \subseteq Runs
        /\ cancelling' \subseteq Runs /\ cutOff' \subseteq Runs /\ faults' \in 0..MaxFaults
    BY DEF TypeOK, Intervention, AllHaveKeys, AskingFails, rows, worker, NotAsked
  <1>4. Chained' /\ AllHaveKeys'
    BY DEF TypeOK, Chained, AllHaveKeys, AnsweredHasStarted, FollowUp, Intervention, AskingFails,
           rows, worker, NotAsked
  <1>5. AnsweredHasStarted' /\ FreshHolds' /\ DecidedHasHeard'
    BY DEF TypeOK, AnsweredHasStarted, FreshHolds, HeldIsStarted, DecidedHasHeard, Reply,
           AskingFails, rows, worker, NotAsked
  <1>6. NothingWaitsBehind'
    BY DEF TypeOK, NothingWaitsBehind, Answered, AnsweredHasStarted, Reply, Ended, AskingFails,
           rows, worker, NotAsked
  <1> QED BY <1>1, <1>2, <1>3, <1>4, <1>5, <1>6 DEF TypeOK

(* Cancel keeps the invariant of the runs.                                 *)
LEMMA CancelRuns ==
  ASSUME RunsInv, NEW r \in Runs, Cancel(r)
  PROVE  RunsInv'
  <1> USE DEF RunsInv
  <1>1. /\ status' \in [Runs -> Status] /\ followUp' \in [Runs -> FollowUp]
        /\ intervention' \in [Runs -> Intervention] /\ work' \in [Runs -> Stage]
        /\ callback' \in [Runs -> Callback] /\ HeldIsStarted'
    <2>1. status' \in [Runs -> Status] /\ work' \in [Runs -> Stage]
      BY DEF TypeOK, Status, Stage, Ended, Cancel, EndsLease
    <2>2. HeldIsStarted'
      BY DEF TypeOK, HeldIsStarted, Cancel, EndsLease
    <2> QED BY <2>1, <2>2 DEF TypeOK, Cancel
  <1>2. transcript' \in Seq(Message) /\ asked' \in Request /\ answering' \in [Answers -> Reply]
    BY EmitsTyped DEF TypeOK, Cancel
  <1>3. /\ tries' \in [Runs -> 0..Attempts] /\ heard' \in [Runs -> SUBSET Keys]
        /\ deleted' \in BOOLEAN /\ fresh' \subseteq Runs /\ orphaned' \subseteq Runs
        /\ cancelling' \subseteq Runs /\ cutOff' \subseteq Runs /\ faults' \in 0..MaxFaults
    BY DEF TypeOK, Cancel, EndsLease, Emits
  <1>4. Chained' /\ AllHaveKeys'
    <2>1. \A s \in Runs : status'[s] = "NEW" <=> status[s] = "NEW"
      BY DEF TypeOK, Cancel
    <2> QED BY <2>1 DEF Chained, AllHaveKeys, Cancel
  <1>5. AnsweredHasStarted' /\ FreshHolds' /\ DecidedHasHeard'
    BY DEF TypeOK, AnsweredHasStarted, FreshHolds, HeldIsStarted, DecidedHasHeard, Reply,
           Cancel, EndsLease, Emits
  <1>6. NothingWaitsBehind'
    BY DEF TypeOK, NothingWaitsBehind, Answered, Ended, Cancel, EndsLease, Emits
  <1> QED BY <1>1, <1>2, <1>3, <1>4, <1>5, <1>6 DEF TypeOK

(* DeleteConversation keeps the invariant of the runs.                     *)
LEMMA DeleteConversationRuns ==
  ASSUME RunsInv, DeleteConversation
  PROVE  RunsInv'
  <1> USE DEF RunsInv
  <1>1. /\ status' \in [Runs -> Status] /\ followUp' \in [Runs -> FollowUp]
        /\ intervention' \in [Runs -> Intervention] /\ work' \in [Runs -> Stage]
        /\ callback' \in [Runs -> Callback] /\ HeldIsStarted'
    BY DEF TypeOK, HeldIsStarted, FreshHolds, Callback, AnsweredHasStarted, Status, Active, Ended,
           FollowUp, Intervention, Stage, DeleteConversation, worker, requests
  <1>2. transcript' \in Seq(Message) /\ asked' \in Request /\ answering' \in [Answers -> Reply]
    BY DEF TypeOK, Request, Reply, DeleteConversation, worker, requests
  <1>3. /\ tries' \in [Runs -> 0..Attempts] /\ heard' \in [Runs -> SUBSET Keys]
        /\ deleted' \in BOOLEAN /\ fresh' \subseteq Runs /\ orphaned' \subseteq Runs
        /\ cancelling' \subseteq Runs /\ cutOff' \subseteq Runs /\ faults' \in 0..MaxFaults
    BY DEF TypeOK, Intervention, AllHaveKeys, DeleteConversation, worker, requests
  <1>4. Chained' /\ AllHaveKeys'
    BY DEF TypeOK, Chained, AllHaveKeys, AnsweredHasStarted, FollowUp, Intervention,
           DeleteConversation, worker, requests
  <1>5. AnsweredHasStarted' /\ FreshHolds' /\ DecidedHasHeard'
    BY DEF TypeOK, AnsweredHasStarted, FreshHolds, HeldIsStarted, DecidedHasHeard, Reply,
           DeleteConversation, worker, requests
  <1>6. NothingWaitsBehind'
    BY DEF TypeOK, NothingWaitsBehind, Answered, AnsweredHasStarted, Reply, Ended,
           DeleteConversation, worker, requests
  <1> QED BY <1>1, <1>2, <1>3, <1>4, <1>5, <1>6 DEF TypeOK

(* The requests for answers after a step of one of them: each is still for *)
(* its run, and unsent as before.                                          *)
AnsweringMoves ==
  /\ answering' \in [Answers -> Reply]
  /\ \A b \in Answers : /\ answering'[b].run = answering[b].run
                        /\ answering'[b].step = "unsent" <=> answering[b].step = "unsent"

(* A request that goes on, to its end or not, moves so.                    *)
LEMMA AnsweringGoesOn ==
  ASSUME TypeOK, NEW a \in Answers, NEW next \in {"said", "resumed", "told", "done"},
         answering[a].step # "unsent", answering' = [answering EXCEPT ![a].step = next]
  PROVE  AnsweringMoves
  <1> DEFINE reply == [answering[a] EXCEPT !.step = next]
  <1>1. answering[a] \in Reply /\ answering \in [Answers -> Reply]
    BY DEF TypeOK
  <1>2. answering' = [answering EXCEPT ![a] = reply]
    OBVIOUS
  <1>3. reply \in Reply /\ reply.run = answering[a].run /\ reply.step = next
    BY <1>1 DEF Reply
  <1> HIDE DEF reply
  <1> QED BY <1>1, <1>2, <1>3 DEF AnsweringMoves

(* AnswerReads keeps the invariant of the runs.                            *)
LEMMA AnswerReadsRuns ==
  ASSUME RunsInv, NEW a \in Answers, NEW r \in Runs, AnswerReads(a, r)
  PROVE  RunsInv'
  <1> USE DEF RunsInv
  <1>1. /\ status' \in [Runs -> Status] /\ followUp' \in [Runs -> FollowUp]
        /\ intervention' \in [Runs -> Intervention] /\ work' \in [Runs -> Stage]
        /\ callback' \in [Runs -> Callback] /\ HeldIsStarted'
    BY DEF TypeOK, HeldIsStarted, FreshHolds, Callback, AnsweredHasStarted, Status, Active, Ended,
           FollowUp, Intervention, Stage, AnswerReads, rows, worker
  <1>2. transcript' \in Seq(Message) /\ asked' \in Request /\ answering' \in [Answers -> Reply]
    BY DEF TypeOK, Request, Reply, AnswerReads, rows, worker
  <1>3. /\ tries' \in [Runs -> 0..Attempts] /\ heard' \in [Runs -> SUBSET Keys]
        /\ deleted' \in BOOLEAN /\ fresh' \subseteq Runs /\ orphaned' \subseteq Runs
        /\ cancelling' \subseteq Runs /\ cutOff' \subseteq Runs /\ faults' \in 0..MaxFaults
    BY DEF TypeOK, Intervention, AllHaveKeys, AnswerReads, rows, worker
  <1>4. Chained' /\ AllHaveKeys'
    BY DEF TypeOK, Chained, AllHaveKeys, AnsweredHasStarted, FollowUp, Intervention, AnswerReads,
           rows, worker
  <1>5. AnsweredHasStarted' /\ FreshHolds' /\ DecidedHasHeard'
    <2>1. r # None
      BY DEF Runs, None
    <2>2. AnsweredHasStarted'
      BY <2>1 DEF TypeOK, AnsweredHasStarted, AnswerReads, rows, worker
    <2> QED BY <2>2 DEF FreshHolds, DecidedHasHeard, AnswerReads, rows, worker
  <1>6. NothingWaitsBehind'
    <2>1. \A s \in Runs : Answered(s) => Answered(s)'
      <3>1. answering[a].run = None /\ None \notin Runs
        BY DEF AnsweredHasStarted, AnswerReads, Runs, None
      <3> QED BY <3>1 DEF TypeOK, Answered, AnswerReads
    <2> QED BY <2>1 DEF NothingWaitsBehind, AnswerReads, rows
  <1> QED BY <1>1, <1>2, <1>3, <1>4, <1>5, <1>6 DEF TypeOK

(* An answers request that is under way says something and changes no row  *)
(* else.                                                                   *)
LEMMA AnswerSpeaksRuns ==
  ASSUME RunsInv, NEW a \in Answers, Speaks,
         NEW step \in {"read", "resumed"}, NEW next \in {"said", "told"}, Answering(a, step, next),
         UNCHANGED <<status, followUp, intervention, deleted, attempt, cancelling, cutOff, faults>>
  PROVE  RunsInv'
  <1> USE DEF RunsInv
  <1>1. /\ UNCHANGED <<status, followUp, intervention, deleted, cancelling, cutOff, faults>>
        /\ UNCHANGED <<tries, work, heard, callback, orphaned>>
    BY DEF attempt
  <1>2. transcript' \in Seq(Message) /\ asked' \in Request /\ fresh' = {}
    BY SpeaksTyped
  <1>3. AnsweringMoves
    BY AnsweringGoesOn DEF Answering
  <1>4. TypeOK'
    BY <1>1, <1>2, <1>3 DEF TypeOK, HeldIsStarted, AnsweringMoves
  <1>5. Chained' /\ AllHaveKeys' /\ FreshHolds' /\ DecidedHasHeard'
    BY <1>1, <1>2 DEF Chained, AllHaveKeys, FreshHolds, DecidedHasHeard
  <1>6. AnsweredHasStarted'
    BY <1>1, <1>3 DEF AnsweredHasStarted, AnsweringMoves
  <1>7. NothingWaitsBehind'
    BY <1>1, <1>3 DEF NothingWaitsBehind, Answered, AnsweringMoves
  <1> QED BY <1>4, <1>5, <1>6, <1>7

(* AnswerSaid keeps the invariant of the runs.                             *)
LEMMA AnswerSaidRuns ==
  ASSUME RunsInv, NEW a \in Answers, AnswerSaid(a)
  PROVE  RunsInv'
  <1> QED BY AnswerSpeaksRuns DEF AnswerSaid

(* Resume keeps the invariant of the runs.                                 *)
LEMMA ResumeRuns ==
  ASSUME RunsInv, NEW a \in Answers, Resume(a)
  PROVE  RunsInv'
  <1> USE DEF RunsInv
  <1>1. /\ status' \in [Runs -> Status] /\ followUp' \in [Runs -> FollowUp]
        /\ intervention' \in [Runs -> Intervention] /\ work' \in [Runs -> Stage]
        /\ callback' \in [Runs -> Callback] /\ HeldIsStarted'
    <2>1. UNCHANGED <<followUp, intervention, work, callback>>
      BY DEF Resume, worker
    <2>2. status' = [status EXCEPT ![answering[a].run] = "RUNNING"] /\ "RUNNING" \in Status
      BY DEF Resume, Status, Active
    <2> QED BY <2>1, <2>2 DEF TypeOK, HeldIsStarted
  <1>2. transcript' \in Seq(Message) /\ asked' \in Request /\ answering' \in [Answers -> Reply]
    <2>1. AnsweringMoves
      BY AnsweringGoesOn DEF Resume, Answering
    <2> QED BY <2>1 DEF TypeOK, AnsweringMoves, Resume
  <1>3. /\ tries' \in [Runs -> 0..Attempts] /\ heard' \in [Runs -> SUBSET Keys]
        /\ deleted' \in BOOLEAN /\ fresh' \subseteq Runs /\ orphaned' \subseteq Runs
        /\ cancelling' \subseteq Runs /\ cutOff' \subseteq Runs /\ faults' \in 0..MaxFaults
    BY DEF TypeOK, Intervention, AllHaveKeys, Resume, Answering, worker
  <1>4. Chained' /\ AllHaveKeys'
    <2>0. answering[a].run # None /\ status[answering[a].run] # "NEW"
      BY DEF AnsweredHasStarted, Answering, Resume
    <2>1. \A s \in Runs : status'[s] = "NEW" <=> status[s] = "NEW"
      BY <2>0 DEF TypeOK, Resume
    <2> QED BY <2>1 DEF Chained, AllHaveKeys, Resume
  <1>5. AnsweredHasStarted' /\ FreshHolds' /\ DecidedHasHeard'
    BY DEF TypeOK, AnsweredHasStarted, FreshHolds, HeldIsStarted, DecidedHasHeard, Reply, Resume,
           Answering, worker
  <1>6. NothingWaitsBehind'
    BY DEF TypeOK, NothingWaitsBehind, Answered, AnsweredHasStarted, Reply, Ended, Resume,
           Answering, worker
  <1> QED BY <1>1, <1>2, <1>3, <1>4, <1>5, <1>6 DEF TypeOK

(* AnswerIsAnswered keeps the invariant of the runs.                       *)
LEMMA AnswerIsAnsweredRuns ==
  ASSUME RunsInv, NEW a \in Answers, AnswerIsAnswered(a)
  PROVE  RunsInv'
  <1> QED BY AnswerSpeaksRuns DEF AnswerIsAnswered

(* AnswerCompletes keeps the invariant of the runs.                        *)
LEMMA AnswerCompletesRuns ==
  ASSUME RunsInv, NEW a \in Answers, AnswerCompletes(a)
  PROVE  RunsInv'
  <1> USE DEF RunsInv
  <1>1. /\ status' \in [Runs -> Status] /\ followUp' \in [Runs -> FollowUp]
        /\ intervention' \in [Runs -> Intervention] /\ work' \in [Runs -> Stage]
        /\ callback' \in [Runs -> Callback] /\ HeldIsStarted'
    <2> DEFINE r == answering[a].run
    <2>1. UNCHANGED <<followUp, intervention, work, callback>>
      BY DEF AnswerCompletes, attempt
    <2>2. status' = [status EXCEPT ![r] = "COMPLETED"] /\ "COMPLETED" \in Status
      BY DEF AnswerCompletes, Status, Ended
    <2> HIDE DEF r
    <2> QED BY <2>1, <2>2 DEF TypeOK, HeldIsStarted
  <1>2. transcript' \in Seq(Message) /\ asked' \in Request /\ answering' \in [Answers -> Reply]
    <2>1. AnsweringMoves
      BY AnsweringGoesOn DEF AnswerCompletes, Answering
    <2>2. answering[a].run \in Runs
      BY DEF TypeOK, Reply, AnsweredHasStarted, AnswerCompletes, Answering
    <2> QED BY <2>1, <2>2, EmitsTyped DEF AnsweringMoves, AnswerCompletes
  <1>3. /\ tries' \in [Runs -> 0..Attempts] /\ heard' \in [Runs -> SUBSET Keys]
        /\ deleted' \in BOOLEAN /\ fresh' \subseteq Runs /\ orphaned' \subseteq Runs
        /\ cancelling' \subseteq Runs /\ cutOff' \subseteq Runs /\ faults' \in 0..MaxFaults
    BY DEF TypeOK, Intervention, AllHaveKeys, AnswerCompletes, Emits, Answering, attempt
  <1>4. Chained' /\ AllHaveKeys'
    <2>0. answering[a].run # None /\ status[answering[a].run] # "NEW"
      BY DEF AnsweredHasStarted, Answering, AnswerCompletes
    <2>1. \A s \in Runs : status'[s] = "NEW" <=> status[s] = "NEW"
      BY <2>0 DEF TypeOK, AnswerCompletes
    <2> QED BY <2>1 DEF Chained, AllHaveKeys, AnswerCompletes
  <1>5. AnsweredHasStarted' /\ FreshHolds' /\ DecidedHasHeard'
    BY DEF TypeOK, AnsweredHasStarted, FreshHolds, HeldIsStarted, DecidedHasHeard, Reply,
           AnswerCompletes, Emits, Answering, attempt
  <1>6. NothingWaitsBehind'
    BY DEF TypeOK, NothingWaitsBehind, Answered, AnsweredHasStarted, Reply, Ended, AnswerCompletes,
           Emits, Answering, attempt
  <1> QED BY <1>1, <1>2, <1>3, <1>4, <1>5, <1>6 DEF TypeOK

(* AnswerFails keeps the invariant of the runs.                            *)
LEMMA AnswerFailsRuns ==
  ASSUME RunsInv, NEW a \in Answers, AnswerFails(a)
  PROVE  RunsInv'
  <1> USE DEF RunsInv
  <1>1. /\ status' \in [Runs -> Status] /\ followUp' \in [Runs -> FollowUp]
        /\ intervention' \in [Runs -> Intervention] /\ work' \in [Runs -> Stage]
        /\ callback' \in [Runs -> Callback] /\ HeldIsStarted'
    BY DEF TypeOK, HeldIsStarted, FreshHolds, Callback, AnsweredHasStarted, Status, Active, Ended,
           FollowUp, Intervention, Stage, AnswerFails, rows, worker
  <1>2. transcript' \in Seq(Message) /\ asked' \in Request /\ answering' \in [Answers -> Reply]
    <2>1. AnsweringMoves
      BY AnsweringGoesOn DEF AnswerFails
    <2> QED BY <2>1 DEF TypeOK, AnsweringMoves, AnswerFails, rows
  <1>3. /\ tries' \in [Runs -> 0..Attempts] /\ heard' \in [Runs -> SUBSET Keys]
        /\ deleted' \in BOOLEAN /\ fresh' \subseteq Runs /\ orphaned' \subseteq Runs
        /\ cancelling' \subseteq Runs /\ cutOff' \subseteq Runs /\ faults' \in 0..MaxFaults
    BY DEF TypeOK, Intervention, AllHaveKeys, AnswerFails, rows, worker
  <1>4. Chained' /\ AllHaveKeys'
    BY DEF TypeOK, Chained, AllHaveKeys, AnsweredHasStarted, FollowUp, Intervention, AnswerFails,
           rows, worker
  <1>5. AnsweredHasStarted' /\ FreshHolds' /\ DecidedHasHeard'
    BY DEF TypeOK, AnsweredHasStarted, FreshHolds, HeldIsStarted, DecidedHasHeard, Reply,
           AnswerFails, rows, worker
  <1>6. NothingWaitsBehind'
    BY DEF TypeOK, NothingWaitsBehind, Answered, AnsweredHasStarted, Reply, Ended, AnswerFails,
           rows, worker
  <1> QED BY <1>1, <1>2, <1>3, <1>4, <1>5, <1>6 DEF TypeOK

(* Restart keeps the invariant of the runs.                                *)
LEMMA RestartRuns ==
  ASSUME RunsInv, Restart
  PROVE  RunsInv'
  <1> USE DEF RunsInv
  <1>1. /\ status' \in [Runs -> Status] /\ followUp' \in [Runs -> FollowUp]
        /\ intervention' \in [Runs -> Intervention] /\ work' \in [Runs -> Stage]
        /\ callback' \in [Runs -> Callback] /\ HeldIsStarted'
    BY DEF TypeOK, HeldIsStarted, FreshHolds, Callback, Status, Active, Ended, FollowUp,
           Intervention, Stage, Restart, rows
  <1>2. transcript' \in Seq(Message) /\ asked' \in Request /\ answering' \in [Answers -> Reply]
    <2>1. NotAsked \in Request /\ asked' = NotAsked /\ transcript' = transcript
      BY DEF NotAsked, Request, Restart, rows
    <2>2. \A a \in Answers : answering[a] \in Reply /\ [answering[a] EXCEPT !.step = "done"] \in Reply
      BY DEF TypeOK, Reply
    <2> QED BY <2>1, <2>2 DEF TypeOK, Restart
  <1>3. /\ tries' \in [Runs -> 0..Attempts] /\ heard' \in [Runs -> SUBSET Keys]
        /\ deleted' \in BOOLEAN /\ fresh' \subseteq Runs /\ orphaned' \subseteq Runs
        /\ cancelling' \subseteq Runs /\ cutOff' \subseteq Runs /\ faults' \in 0..MaxFaults
    BY DEF TypeOK, Restart, rows
  <1>4. Chained' /\ AllHaveKeys'
    BY DEF TypeOK, Chained, AllHaveKeys, Restart, rows
  <1>5. AnsweredHasStarted' /\ FreshHolds' /\ DecidedHasHeard'
    BY DEF TypeOK, AnsweredHasStarted, FreshHolds, HeldIsStarted, DecidedHasHeard, Reply,
           Restart, rows
  <1>6. NothingWaitsBehind'
    BY DEF TypeOK, NothingWaitsBehind, Answered, Ended, Restart, rows
  <1> QED BY <1>1, <1>2, <1>3, <1>4, <1>5, <1>6 DEF TypeOK

(* A run ends, with or without its worker's lease.                         *)
LEMMA EndingRuns ==
  ASSUME RunsInv, NEW r \in Runs, NEW end \in Ended, NEW speaking \in BOOLEAN,
         status[r] # "NEW", EndsAs(r, end, speaking),
         EndsLease(r, 0) \/ UNCHANGED <<tries, work>>,
         callback' = callback \/ (speaking /\ callback' = [callback EXCEPT ![r] = "none"]),
         cancelling' \subseteq cancelling, cancelling \ {r} \subseteq cancelling',
         UNCHANGED <<intervention, deleted, heard, orphaned, cutOff, answering, faults>>
  PROVE  RunsInv'
  <1> USE DEF RunsInv
  <1>1. /\ status' \in [Runs -> Status] /\ followUp' \in [Runs -> FollowUp]
        /\ transcript' \in Seq(Message) /\ fresh' \subseteq fresh /\ (speaking => fresh' = {})
        /\ asked' \in Request
        /\ Chained'
        /\ status'[r] = end /\ followUp'[r].state # "WAITING"
        /\ followUp'[r].key = None <=> followUp'[r].state = "NONE"
        /\ \A s \in Runs : s # r =>
             /\ status'[s] = status[s] \/ (status[s] = "NEW" /\ status'[s] = "QUEUED")
             /\ followUp'[s] = followUp[s]
    BY EndsAsRuns
  <1>2. /\ work' \in [Runs -> Stage] /\ tries' \in [Runs -> 0..Attempts]
        /\ \A s \in Runs : work'[s] = work[s] \/ work'[s] = "none"
    <2>1. CASE EndsLease(r, 0)
      <3>1. 0 \in 0..Attempts
        OBVIOUS
      <3> QED BY <2>1, <3>1, EndsLeaseTyped
    <2>2. CASE UNCHANGED <<tries, work>>
      BY <2>2 DEF TypeOK
    <2> QED BY <2>1, <2>2
  <1>3. /\ callback' \in [Runs -> Callback]
        /\ \A s \in Runs : callback'[s] = callback[s] \/ callback'[s] = "none"
        /\ \A s \in fresh' : callback'[s] = callback[s]
    BY <1>1 DEF TypeOK, Callback
  <1>4. end \notin {"NEW", "QUEUED"} /\ \A s \in Runs : status[s] # "NEW" => status'[s] # "NEW"
    BY <1>1 DEF Ended
  <1>5. HeldIsStarted' /\ FreshHolds'
    BY <1>1, <1>2, <1>3, <1>4 DEF TypeOK, HeldIsStarted, FreshHolds
  <1>6. TypeOK'
    BY <1>1, <1>2, <1>3, <1>5 DEF TypeOK
  <1>7. AllHaveKeys'
    BY <1>1 DEF AllHaveKeys
  <1>8. AnsweredHasStarted'
    BY <1>4 DEF TypeOK, Reply, AnsweredHasStarted
  <1>9. DecidedHasHeard'
    BY <1>1, <1>2 DEF DecidedHasHeard
  <1>10. NothingWaitsBehind'
    BY <1>1 DEF NothingWaitsBehind, Answered, Ended
  <1> QED BY <1>1, <1>5, <1>6, <1>7, <1>8, <1>9, <1>10

(* CompleteCommits keeps the invariant of the runs.                        *)
LEMMA CompleteCommitsRuns ==
  ASSUME RunsInv, NEW r \in Runs, CompleteCommits(r)
  PROVE  RunsInv'
  <1>1. status[r] # "NEW" /\ "COMPLETED" \in Ended /\ TRUE \in BOOLEAN
    BY DEF RunsInv, FreshHolds, CompleteCommits, Ended
  <1> QED BY <1>1, EndingRuns DEF CompleteCommits

(* Fail keeps the invariant of the runs.                                   *)
LEMMA FailRuns ==
  ASSUME RunsInv, NEW r \in Runs, Fail(r)
  PROVE  RunsInv'
  <1>1. status[r] # "NEW" /\ "FAILED" \in Ended /\ FALSE \in BOOLEAN
    BY DEF RunsInv, TypeOK, HeldIsStarted, Fail, Ended
  <1> QED BY <1>1, EndingRuns DEF Fail

(* CancelDispatches keeps the invariant of the runs.                       *)
LEMMA CancelDispatchesRuns ==
  ASSUME RunsInv, NEW r \in Runs, CancelDispatches(r)
  PROVE  RunsInv'
  <1> USE DEF RunsInv
  <1>0. /\ cancelling' = cancelling \ {r}
        /\ UNCHANGED <<intervention, deleted, tries, work, heard, callback, orphaned, cutOff,
                       answering, faults>>
    BY DEF CancelDispatches, attempt
  <1>1. CASE Dispatches(r, status[r]) /\ ~deleted
    <2>1. status[r] \in Ended /\ status[r] # "NEW"
      BY <1>1 DEF Dispatches, Ended
    <2>2. EndsAs(r, status[r], FALSE)
      BY <1>1 DEF CancelDispatches
    <2>3. cancelling' \subseteq cancelling /\ cancelling \ {r} \subseteq cancelling' /\ FALSE \in BOOLEAN
      BY <1>0
    <2> QED BY <1>0, <2>1, <2>2, <2>3, EndingRuns
  <1>2. CASE ~(Dispatches(r, status[r]) /\ ~deleted)
    <2>1. UNCHANGED <<status, followUp, transcript, fresh, asked>>
      BY <1>2 DEF CancelDispatches
    <2>2. /\ TypeOK' /\ Chained' /\ AllHaveKeys' /\ AnsweredHasStarted'
          /\ FreshHolds' /\ DecidedHasHeard'
      BY <1>0, <2>1 DEF TypeOK, HeldIsStarted, Chained, AllHaveKeys, AnsweredHasStarted, FreshHolds,
         DecidedHasHeard
    <2>3. status[r] \in Ended /\ followUp[r].state = "WAITING" => deleted
      BY <1>2 DEF Dispatches
    <2>4. NothingWaitsBehind'
      BY <1>0, <2>1, <2>3 DEF NothingWaitsBehind, Answered
    <2> QED BY <2>2, <2>4
  <1> QED BY <1>1, <1>2

(* Every step keeps the invariant of the runs.                             *)
LEMMA NextRuns == Inv /\ [Next]_vars => RunsInv'
  <1> SUFFICES ASSUME Inv, [Next]_vars PROVE RunsInv'
    OBVIOUS
  <1> USE DEF Inv
  <1>1. ASSUME NEW r \in Runs, WorkerStep(r)
        PROVE  RunsInv'
    BY <1>1, ClaimRuns, PollRuns, DecidesRuns, CompleteReadsRuns, CompleteCommitsRuns,
       WaitingReadsRuns, WaitsForUserRuns, WaitingFinishesRuns, CallbackFailsRuns,
       RetryRuns, FailRuns, ExpiresRuns DEF WorkerStep
  <1>2. ASSUME NEW r \in Runs, UserStep(r)
        PROVE  RunsInv'
    BY <1>2, QueueRuns, InterveneRuns, AsksToInterveneRuns, CancelRuns DEF UserStep
  <1>3. ASSUME NEW a \in Answers, AnswerStep(a)
        PROVE  RunsInv'
    BY <1>3, AnswerReadsRuns, AnswerSaidRuns, ResumeRuns, AnswerIsAnsweredRuns,
       AnswerCompletesRuns, AnswerFailsRuns DEF AnswerStep
  <1>4. CASE UNCHANGED vars
    BY <1>4 DEF vars, rows, worker, requests, RunsInv, TypeOK, HeldIsStarted, Chained, AllHaveKeys,
                AnsweredHasStarted, FreshHolds, DecidedHasHeard, NothingWaitsBehind, Answered
  <1> QED
    BY <1>1, <1>2, <1>3, <1>4, CancelDispatchesRuns, IntervenesRuns, AskingFailsRuns,
       DeleteConversationRuns, RestartRuns DEF Next

-----------------------------------------------------------------------------
(* The messages stay where they are *)

(* Appending leaves every message at its place and adds those appended.    *)
LEMMA TranscriptGrows ==
  ASSUME NEW T \in Seq(Message), NEW M \in Seq(Message), NEW U, U = T \o M
  PROVE  /\ \A i \in DOMAIN T : i \in DOMAIN U /\ U[i] = T[i]
         /\ \A i \in DOMAIN U : i \in DOMAIN T \/ \E j \in DOMAIN M : i = Len(T) + j /\ U[i] = M[j]
         /\ \A j \in DOMAIN M : Len(T) + j \in DOMAIN U /\ U[Len(T) + j] = M[j]
         /\ \A key : SaidIn(U, key) <=> SaidIn(T, key) \/ SaidIn(M, key)
  <1>1. /\ \A i \in DOMAIN T : i \in DOMAIN U /\ U[i] = T[i]
        /\ \A i \in DOMAIN U : i \in DOMAIN T \/ \E j \in DOMAIN M : i = Len(T) + j /\ U[i] = M[j]
        /\ \A j \in DOMAIN M : Len(T) + j \in DOMAIN U /\ U[Len(T) + j] = M[j]
    BY Appending
  <1>2. ASSUME NEW key
        PROVE  SaidIn(U, key) <=> SaidIn(T, key) \/ SaidIn(M, key)
    <2>1. ASSUME SaidIn(U, key) PROVE SaidIn(T, key) \/ SaidIn(M, key)
      BY <1>1, <2>1 DEF SaidIn
    <2>2. ASSUME SaidIn(T, key) \/ SaidIn(M, key) PROVE SaidIn(U, key)
      <3>1. CASE SaidIn(T, key)
        BY <1>1, <3>1 DEF SaidIn
      <3>2. CASE SaidIn(M, key)
        <4>1. PICK j \in DOMAIN M : M[j].from = "user" /\ M[j].key = key
          BY <3>2 DEF SaidIn
        <4>2. Len(T) + j \in DOMAIN U /\ U[Len(T) + j] = M[j]
          BY <1>1
        <4> QED BY <4>1, <4>2 DEF SaidIn
      <3> QED BY <2>2, <3>1, <3>2
    <2> QED BY <2>1, <2>2
  <1> QED BY <1>1, <1>2

(* Where no message with its key is added, a follow-up stays placed.       *)
LEMMA FollowUpStays ==
  ASSUME NEW T \in Seq(Message), NEW M \in Seq(Message), NEW U, U = T \o M,
         NEW f, NEW given, PlacedIn(T, f, given), ~SaidIn(M, f.key)
  PROVE  PlacedIn(U, f, given)
  <1>0. \A key : SaidIn(U, key) <=> SaidIn(T, key) \/ SaidIn(M, key)
    BY ONLY T \in Seq(Message), M \in Seq(Message), U = T \o M, TranscriptGrows
  <1>1. SaidIn(U, f.key) <=> SaidIn(T, f.key)
    BY <1>0
  <1>2. ASSUME f.state = "DISPATCHED", NEW i \in DOMAIN U, U[i].from = "user", U[i].key = f.key
        PROVE  i + 1 \in DOMAIN U /\ U[i + 1] = Msg("run", f.next, None)
    <2>1. i \in DOMAIN T /\ U[i] = T[i]
      BY <1>2, TranscriptGrows DEF SaidIn
    <2>2. i + 1 \in DOMAIN T /\ T[i + 1] = Msg("run", f.next, None)
      BY <1>2, <2>1 DEF PlacedIn
    <2> QED BY <2>2, TranscriptGrows
  <1> QED BY <1>1, <1>2 DEF PlacedIn

(* A step that adds no message of the user and moves no message.           *)
LEMMA NothingMoves ==
  ASSUME TypeOK, Placed,
         NEW M \in Seq(Message), transcript' = transcript \o M,
         \A j \in DOMAIN M : M[j].from # "user",
         \A r \in Runs : /\ followUp'[r] = followUp[r]
                         /\ intervention'[r].key = intervention[r].key
                         /\ intervention'[r].state = "NONE" <=> intervention[r].state = "NONE",
         \/ asked'.run = asked.run /\ (asked'.stale = asked.stale \/ asked'.stale)
         \/ asked'.run = None
         \/ asked'.run \in Runs /\ followUp[asked'.run].state = "WAITING"
  PROVE  Placed'
  <1>0. transcript \in Seq(Message)
    BY DEF TypeOK
  <1>1. /\ \A key : ~SaidIn(M, key)
        /\ \A key : SaidIn(transcript', key) <=> SaidIn(transcript, key)
    <2>1. \A key : ~SaidIn(M, key)
      BY DEF SaidIn
    <2> QED BY <1>0, <2>1, TranscriptGrows
  <1>2. \A i \in DOMAIN transcript' : transcript'[i].from = "user" =>
          i \in DOMAIN transcript /\ transcript'[i] = transcript[i]
    BY <1>0, TranscriptGrows
  <1>3. KeysNameOne'
    BY <1>2 DEF Placed, KeysNameOne, KeysDiffer
  <1>4. FollowUpIsPlaced'
    BY <1>0, <1>1, FollowUpStays DEF Placed, FollowUpIsPlaced
  <1>5. InterventionIsSaid'
    BY <1>1 DEF Placed, InterventionIsSaid
  <1>6. FreshRequestWaits'
    BY DEF Placed, FreshRequestWaits, TypeOK, Request
  <1> QED BY <1>3, <1>4, <1>5, <1>6 DEF Placed

(* One message of the user is added, the p-th of M, with a new key.        *)
AddsOne(T, M, U, p, k) ==
  /\ T \in Seq(Message) /\ M \in Seq(Message) /\ U = T \o M
  /\ KeysDiffer(T) /\ ~SaidIn(T, k)
  /\ p \in DOMAIN M /\ M[p].from = "user" /\ M[p].key = k
  /\ \A j \in DOMAIN M : M[j].from = "user" => j = p

(* If one message of the user is appended, its key stays unique.           *)
LEMMA OneIsAdded ==
  ASSUME NEW T, NEW M, NEW U, NEW p, NEW k, AddsOne(T, M, U, p, k)
  PROVE  /\ KeysDiffer(U)
         /\ \A key : SaidIn(M, key) <=> key = k
         /\ \A key : SaidIn(U, key) <=> SaidIn(T, key) \/ key = k
         /\ \A i \in DOMAIN U : U[i].from = "user" /\ U[i].key = k => i = Len(T) + p
  <1> USE DEF AddsOne
  <1>1. \A i \in DOMAIN U : U[i].from = "user" =>
          \/ i \in DOMAIN T /\ U[i] = T[i] /\ U[i].key # k
          \/ i = Len(T) + p /\ U[i].key = k
    <2> SUFFICES ASSUME NEW i \in DOMAIN U, U[i].from = "user"
                 PROVE  \/ i \in DOMAIN T /\ U[i] = T[i] /\ U[i].key # k
                        \/ i = Len(T) + p /\ U[i].key = k
      OBVIOUS
    <2>1. CASE i \in DOMAIN T
      <3>1. U[i] = T[i]
        BY <2>1, TranscriptGrows
      <3> QED BY <2>1, <3>1 DEF SaidIn
    <2>2. CASE i \notin DOMAIN T
      <3>1. PICK j \in DOMAIN M : i = Len(T) + j /\ U[i] = M[j]
        BY <2>2, TranscriptGrows
      <3> QED BY <3>1
    <2> QED BY <2>1, <2>2
  <1>2. KeysDiffer(U)
    BY <1>1 DEF KeysDiffer
  <1>3. \A key : SaidIn(M, key) <=> key = k
    BY DEF SaidIn
  <1> QED BY <1>1, <1>2, <1>3, TranscriptGrows

(* The waiting message of run r becomes the next run.                      *)
LEMMA DispatchPlaced ==
  ASSUME Inv, NEW r \in Runs, NEW end \in Ended, NEW speaking,
         Dispatches(r, end), EndsAs(r, end, speaking), intervention' = intervention
  PROVE  Placed'
  <1> USE DEF Inv, RunsInv
  <1> DEFINE k == followUp[r].key
             x == Msg("user", None, k)
             y == Msg("run", NextRun, None)
             N == <<x, y>>
  <1>1. /\ followUp[r] \in FollowUp /\ followUp[r].state = "WAITING" /\ k # None
        /\ NextRun \in Runs /\ ~SaidIn(transcript, k) /\ transcript \in Seq(Message)
    BY NextRunFollows DEF Dispatches, TypeOK, AllHaveKeys, Placed, FollowUpIsPlaced, PlacedIn
  <1>2. /\ followUp' = [followUp EXCEPT ![r].state = "DISPATCHED", ![r].next = NextRun]
        /\ transcript' = transcript \o N
        /\ asked' = IF asked.run = None THEN asked ELSE [asked EXCEPT !.stale = TRUE]
    BY DEF EndsAs, Appends
  <1>3. x \in Message /\ y \in Message /\ x.from = "user" /\ x.key = k /\ y.from # "user"
    BY <1>1 DEF FollowUp, Msg, Message
  <1>4. y = Msg("run", NextRun, None)
    OBVIOUS
  <1> HIDE DEF x, y
  <1>5. /\ N \in Seq(Message) /\ DOMAIN N = {1, 2} /\ N[1] = x /\ N[2] = y
    BY <1>3
  <1> HIDE DEF N
  <1>6. /\ KeysDiffer(transcript')
        /\ \A key : SaidIn(N, key) <=> key = k
        /\ \A key : SaidIn(transcript', key) <=> SaidIn(transcript, key) \/ key = k
        /\ \A i \in DOMAIN transcript' : transcript'[i].from = "user" /\ transcript'[i].key = k =>
             i = Len(transcript) + 1
    <2>1. KeysDiffer(transcript)
      BY DEF Placed, KeysNameOne
    <2>2. AddsOne(transcript, N, transcript', 1, k)
      BY <1>1, <1>2, <1>3, <1>5, <2>1 DEF AddsOne
    <2> QED BY <2>2, OneIsAdded
  <1>7. /\ followUp'[r].state = "DISPATCHED" /\ followUp'[r].key = k /\ followUp'[r].next = NextRun
        /\ \A s \in Runs : s # r => followUp'[s] = followUp[s]
    <2>1. followUp'[r] = [followUp[r] EXCEPT !.state = "DISPATCHED", !.next = NextRun]
      BY <1>2 DEF TypeOK
    <2>2. \A s \in Runs : s # r => followUp'[s] = followUp[s]
      BY <1>2 DEF TypeOK
    <2> QED BY <1>1, <2>1, <2>2 DEF FollowUp
  <1>8. KeysNameOne'
    <2>1. \A s \in Runs : followUp'[s].key = followUp[s].key
      BY <1>7
    <2> QED BY <1>6, <2>1 DEF Placed, KeysNameOne
  <1>9. ASSUME NEW s \in Runs
        PROVE  PlacedIn(transcript', followUp'[s], intervention'[s].key)
    <2>1. CASE s = r
      <3>1. SaidIn(transcript', k)
        BY <1>6
      <3>2. intervention[r].key # k
        BY <1>1 DEF Placed, InterventionIsSaid, AllHaveKeys
      <3>3. /\ Len(transcript) + 2 \in DOMAIN transcript'
            /\ transcript'[Len(transcript) + 2] = Msg("run", NextRun, None)
        <4>1. 2 \in DOMAIN N /\ N[2] = Msg("run", NextRun, None) /\ N \in Seq(Message)
          BY <1>4, <1>5
        <4> QED BY <1>1, <1>2, <4>1, TranscriptGrows
      <3>4. Len(transcript) + 1 + 1 = Len(transcript) + 2
        BY <1>1
      <3> QED BY <1>6, <1>7, <2>1, <3>1, <3>2, <3>3, <3>4 DEF PlacedIn
    <2>2. CASE s # r
      <3>1. followUp[s].state = "NONE" \/ followUp[s].key # k
        BY <1>1, <2>2 DEF Placed, KeysNameOne
      <3>2. CASE followUp[s].state = "NONE"
        BY <1>7, <2>2, <3>2 DEF PlacedIn
      <3>3. CASE followUp[s].key # k
        <4>1. PlacedIn(transcript, followUp[s], intervention[s].key) /\ ~SaidIn(N, followUp[s].key)
          BY <1>6, <3>3 DEF Placed, FollowUpIsPlaced
        <4>2. PlacedIn(transcript', followUp[s], intervention[s].key)
          BY <1>1, <1>2, <1>5, <4>1, FollowUpStays
        <4> QED BY <1>7, <2>2, <4>2
      <3> QED BY <3>1, <3>2, <3>3
    <2> QED BY <2>1, <2>2
  <1>10. InterventionIsSaid'
    BY <1>6 DEF Placed, InterventionIsSaid
  <1>11. FreshRequestWaits'
    BY <1>2 DEF FreshRequestWaits, TypeOK, Request
  <1> QED BY <1>8, <1>9, <1>10, <1>11 DEF Placed, FollowUpIsPlaced

(* Only the request to intervene moves, if anything does.                  *)
AskedMoves ==
  \/ asked'.run = asked.run /\ (asked'.stale = asked.stale \/ asked'.stale)
  \/ asked'.run = None
  \/ asked'.run \in Runs /\ followUp[asked'.run].state = "WAITING"

(* A step that says nothing leaves every message in its place.             *)
LEMMA NothingSaid ==
  ASSUME TypeOK, Placed, UNCHANGED <<transcript, followUp, intervention>>, AskedMoves
  PROVE  Placed'
  <1>1. <<>> \in Seq(Message) /\ transcript' = transcript \o <<>>
    BY DEF TypeOK
  <1>2. \A j \in DOMAIN <<>> : <<>>[j].from # "user"
    OBVIOUS
  <1> QED BY <1>1, <1>2, NothingMoves DEF AskedMoves

(* What the agent says takes a number; it may make an open request stale.  *)
LEMMA SpeaksMoves ==
  ASSUME TypeOK, Speaks
  PROVE  AskedMoves /\ UNCHANGED transcript
  BY SpeaksTyped DEF TypeOK, Request, Speaks, Appends, AskedMoves

(* So may an event, which says nothing either.                             *)
LEMMA EmitsMoves ==
  ASSUME TypeOK, NEW r \in Runs, Emits(r)
  PROVE  AskedMoves /\ UNCHANGED transcript
  BY DEF TypeOK, Request, Emits, AskedMoves

(* A run ends.                                                             *)
LEMMA EndsAsPlaced ==
  ASSUME Inv, NEW r \in Runs, NEW end \in Ended, NEW speaking, EndsAs(r, end, speaking),
         intervention' = intervention
  PROVE  Placed'
  <1>1. CASE Dispatches(r, end)
    BY <1>1, DispatchPlaced
  <1>2. CASE ~Dispatches(r, end)
    <2>1. Speaks \/ Emits(r)
      BY <1>2 DEF EndsAs
    <2>2. AskedMoves /\ UNCHANGED transcript
      BY <2>1, SpeaksMoves, EmitsMoves DEF Inv, RunsInv
    <2>3. followUp' = followUp
      BY <1>2 DEF EndsAs
    <2> QED BY <2>2, <2>3, NothingSaid DEF Inv, RunsInv
  <1> QED BY <1>1, <1>2

(* A message is queued: it waits and is not said yet.                      *)
LEMMA QueuePlaced ==
  ASSUME Inv, NEW r \in Runs, NEW k \in Keys, Queue(r, k)
  PROVE  Placed'
  <1> USE DEF Inv, RunsInv
  <1>1. followUp[r] \in FollowUp /\ followUp[r].state = "NONE"
    BY DEF TypeOK, Queue
  <1>2. ~SaidIn(transcript, k) /\ \A s \in Runs : followUp[s].key # k
    BY DEF Queue, Used, Said, SaidIn
  <1>3. /\ followUp'[r].key = k /\ followUp'[r].state = "WAITING"
        /\ \A s \in Runs : s # r => followUp'[s] = followUp[s]
    <2>1. followUp'[r] = [followUp[r] EXCEPT !.key = k, !.state = "WAITING"]
      BY DEF TypeOK, Queue
    <2>2. \A s \in Runs : s # r => followUp'[s] = followUp[s]
      BY DEF TypeOK, Queue
    <2> QED BY <1>1, <2>1, <2>2 DEF FollowUp
  <1>4. transcript' = transcript /\ intervention' = intervention
    BY DEF Queue, Emits
  <1>5. KeysNameOne'
    BY <1>2, <1>3, <1>4 DEF Placed, KeysNameOne
  <1>6. FollowUpIsPlaced'
    BY <1>2, <1>3, <1>4 DEF Placed, FollowUpIsPlaced, PlacedIn
  <1>7. InterventionIsSaid'
    BY <1>4 DEF Placed, InterventionIsSaid
  <1>8. FreshRequestWaits'
    BY <1>1, <1>3 DEF Placed, FreshRequestWaits, TypeOK, Request, Queue, Emits
  <1> QED BY <1>5, <1>6, <1>7, <1>8 DEF Placed

(* An intervention is said as it is stored.                                *)
LEMMA IntervenePlaced ==
  ASSUME Inv, NEW r \in Runs, NEW k \in Keys, Intervene(r, k)
  PROVE  Placed'
  <1> USE DEF Inv, RunsInv
  <1> DEFINE M == <<Msg("user", None, k)>>
  <1>1. ~SaidIn(transcript, k) /\ \A s \in Runs : followUp[s].key # k
    BY DEF Intervene, Used, Said, SaidIn
  <1>2. /\ M \in Seq(Message) /\ transcript \in Seq(Message) /\ transcript' = transcript \o M
        /\ 1 \in DOMAIN M /\ M[1].from = "user" /\ M[1].key = k /\ \A j \in DOMAIN M : j = 1
    BY DEF TypeOK, Intervene, Appends, Msg, Message
  <1>3. /\ intervention'[r].key = k
        /\ \A s \in Runs : s # r => intervention'[s] = intervention[s]
        /\ intervention[r].key = None /\ followUp' = followUp
    BY DEF TypeOK, AllHaveKeys, Intervene
  <1> HIDE DEF M
  <1>4. /\ KeysDiffer(transcript')
        /\ \A key : SaidIn(M, key) <=> key = k
        /\ \A key : SaidIn(transcript', key) <=> SaidIn(transcript, key) \/ key = k
    <2>1. AddsOne(transcript, M, transcript', 1, k)
      BY <1>1, <1>2 DEF AddsOne, Placed, KeysNameOne
    <2> QED BY <2>1, OneIsAdded
  <1>5. KeysNameOne'
    BY <1>3, <1>4 DEF Placed, KeysNameOne
  <1>6. ASSUME NEW s \in Runs
        PROVE  PlacedIn(transcript', followUp'[s], intervention'[s].key)
    <2>1. PlacedIn(transcript, followUp[s], intervention[s].key) /\ ~SaidIn(M, followUp[s].key)
      BY <1>1, <1>4 DEF Placed, FollowUpIsPlaced
    <2>2. PlacedIn(transcript', followUp[s], intervention[s].key)
      BY <1>2, <2>1, FollowUpStays
    <2>3. CASE s # r
      BY <1>3, <2>2, <2>3
    <2>4. CASE s = r
      <3>1. followUp[r].state # "INTERVENED"
        BY <1>3, <2>1, <2>4 DEF PlacedIn, AllHaveKeys
      <3> QED BY <1>1, <1>3, <2>2, <2>4, <3>1 DEF PlacedIn
    <2> QED BY <2>3, <2>4
  <1>7. InterventionIsSaid'
    BY <1>3, <1>4 DEF Placed, InterventionIsSaid
  <1>8. FreshRequestWaits'
    BY <1>3 DEF Placed, FreshRequestWaits, TypeOK, Request, Intervene, Appends
  <1> QED BY <1>5, <1>6, <1>7, <1>8 DEF Placed, FollowUpIsPlaced

(* A queued message becomes an intervention, unless the request is stale.  *)
LEMMA IntervenesPlaced ==
  ASSUME Inv, Intervenes
  PROVE  Placed'
  <1> USE DEF Inv, RunsInv
  <1> DEFINE r == asked.run
             k == followUp[r].key
             M == <<Msg("user", None, k)>>
  <1>1. /\ r \in Runs /\ followUp[r] \in FollowUp /\ followUp[r].state = "WAITING"
        /\ k # None /\ ~SaidIn(transcript, k)
    BY DEF TypeOK, Request, AllHaveKeys, Placed, FreshRequestWaits, FollowUpIsPlaced, PlacedIn,
           Intervenes, NumbersAreFree
  <1>2. /\ M \in Seq(Message) /\ transcript \in Seq(Message) /\ transcript' = transcript \o M
        /\ 1 \in DOMAIN M /\ M[1].from = "user" /\ M[1].key = k /\ \A j \in DOMAIN M : j = 1
    <2> DEFINE m == Msg("user", None, k)
    <2>1. m \in Message /\ m.from = "user" /\ m.key = k
      BY <1>1 DEF FollowUp, Msg, Message
    <2>2. transcript \in Seq(Message) /\ transcript' = Append(transcript, m)
      BY DEF TypeOK, Intervenes
    <2> HIDE DEF m
    <2>3. <<m>> \in Seq(Message) /\ transcript' = transcript \o <<m>>
      BY <2>1, <2>2
    <2>4. 1 \in DOMAIN <<m>> /\ <<m>>[1] = m /\ \A j \in DOMAIN <<m>> : j = 1
      OBVIOUS
    <2>5. M = <<m>>
      BY DEF m
    <2> QED BY <2>1, <2>2, <2>3, <2>4, <2>5
  <1>3. /\ intervention'[r].key = k
        /\ \A s \in Runs : s # r => intervention'[s] = intervention[s]
    BY <1>1 DEF TypeOK, Intervenes
  <1>4. /\ followUp'[r].key = k /\ followUp'[r].state = "INTERVENED"
        /\ \A s \in Runs : s # r => followUp'[s] = followUp[s]
    <2>1. followUp'[r] = [followUp[r] EXCEPT !.state = "INTERVENED"]
      BY <1>1 DEF TypeOK, Intervenes
    <2>2. \A s \in Runs : s # r => followUp'[s] = followUp[s]
      BY <1>1 DEF TypeOK, Intervenes
    <2> QED BY <1>1, <2>1, <2>2 DEF FollowUp
  <1> HIDE DEF M
  <1>5. /\ KeysDiffer(transcript')
        /\ \A key : SaidIn(M, key) <=> key = k
        /\ \A key : SaidIn(transcript', key) <=> SaidIn(transcript, key) \/ key = k
    <2>1. AddsOne(transcript, M, transcript', 1, k)
      BY <1>1, <1>2 DEF AddsOne, Placed, KeysNameOne
    <2> QED BY <2>1, OneIsAdded
  <1>6. KeysNameOne'
    <2>1. \A s \in Runs : followUp'[s].key = followUp[s].key
      BY <1>4
    <2> QED BY <1>5, <2>1 DEF Placed, KeysNameOne
  <1>7. ASSUME NEW s \in Runs
        PROVE  PlacedIn(transcript', followUp'[s], intervention'[s].key)
    <2>1. CASE s = r
      BY <1>3, <1>4, <1>5, <2>1 DEF PlacedIn
    <2>2. CASE s # r /\ followUp[s].state = "NONE"
      BY <1>4, <2>2 DEF PlacedIn
    <2>3. CASE s # r /\ followUp[s].state # "NONE"
      <3>1. followUp[s].key # k
        BY <1>1, <2>3 DEF Placed, KeysNameOne
      <3>2. PlacedIn(transcript, followUp[s], intervention[s].key) /\ ~SaidIn(M, followUp[s].key)
        BY <1>5, <3>1 DEF Placed, FollowUpIsPlaced
      <3>3. PlacedIn(transcript', followUp[s], intervention[s].key)
        BY <1>2, <3>2, FollowUpStays
      <3> QED BY <1>3, <1>4, <2>3, <3>3
    <2> QED BY <2>1, <2>2, <2>3
  <1>8. InterventionIsSaid'
    BY <1>3, <1>5 DEF Placed, InterventionIsSaid
  <1>9. FreshRequestWaits'
    BY DEF FreshRequestWaits, Intervenes, NotAsked
  <1> QED BY <1>6, <1>7, <1>8, <1>9 DEF Placed, FollowUpIsPlaced

(* Of a worker's steps, only the end of a run moves its message.           *)
LEMMA WorkerPlaced ==
  ASSUME Inv, NEW r \in Runs, WorkerStep(r)
  PROVE  Placed'
  <1> USE DEF Inv, RunsInv
  <1>1. CASE Claim(r)
    BY <1>1, EmitsMoves, NothingSaid DEF Claim
  <1>2. CASE Poll(r)
    <2>1. transcript' = transcript /\ followUp' = followUp /\ AskedMoves
      BY <1>2, EmitsMoves DEF Poll, AskedMoves
    <2>2. \A s \in Runs : /\ intervention'[s].key = intervention[s].key
                          /\ intervention'[s].state = "NONE" <=> intervention[s].state = "NONE"
      <3>1. CASE intervention[r].state = "PENDING"
        <4>1. /\ intervention'[r] = [intervention[r] EXCEPT !.state = "APPLIED"]
              /\ intervention[r] \in Intervention
              /\ \A s \in Runs : s # r => intervention'[s] = intervention[s]
          BY <1>2, <3>1 DEF Poll, TypeOK
        <4>2. intervention'[r].key = intervention[r].key /\ intervention'[r].state = "APPLIED"
          BY <4>1 DEF Intervention
        <4> QED BY <3>1, <4>1, <4>2
      <3>2. CASE intervention[r].state # "PENDING"
        BY <1>2, <3>2 DEF Poll
      <3> QED BY <3>1, <3>2
    <2>3. <<>> \in Seq(Message) /\ transcript' = transcript \o <<>>
      BY <2>1 DEF TypeOK
    <2>4. \A j \in DOMAIN <<>> : <<>>[j].from # "user"
      OBVIOUS
    <2> QED BY <2>1, <2>2, <2>3, <2>4, NothingMoves DEF AskedMoves
  <1>3. CASE \/ Decides(r) \/ CompleteReads(r) \/ WaitingReads(r) \/ WaitingFinishes(r)
             \/ CallbackFails(r)
    BY <1>3, NothingSaid DEF Decides, CompleteReads, WaitingReads, WaitingFinishes, CallbackFails,
       rows, requests, AskedMoves
  <1>4. CASE CompleteCommits(r)
    <2>1. "COMPLETED" \in Ended
      BY DEF Ended
    <2> QED BY <1>4, <2>1, EndsAsPlaced DEF CompleteCommits
  <1>5. CASE WaitsForUser(r)
    BY <1>5, SpeaksMoves, NothingSaid DEF WaitsForUser
  <1>6. CASE Retry(r)
    BY <1>6, EmitsMoves, NothingSaid DEF Retry
  <1>7. CASE Fail(r)
    <2>1. "FAILED" \in Ended
      BY DEF Ended
    <2> QED BY <1>7, <2>1, EndsAsPlaced DEF Fail
  <1>8. CASE Expires(r)
    BY <1>8, NothingSaid DEF Expires, AskedMoves, TypeOK, Request
  <1> QED BY <1>1, <1>2, <1>3, <1>4, <1>5, <1>6, <1>7, <1>8 DEF WorkerStep

(* Whatever the user does, every message is where its row says.            *)
LEMMA UserPlaced ==
  ASSUME Inv, NEW r \in Runs, UserStep(r) \/ CancelDispatches(r)
  PROVE  Placed'
  <1> USE DEF Inv, RunsInv
  <1>1. ASSUME NEW k \in Keys, Queue(r, k) \/ Intervene(r, k)
        PROVE  Placed'
    BY <1>1, QueuePlaced, IntervenePlaced
  <1>2. CASE AsksToIntervene(r)
    BY <1>2, NothingSaid DEF AsksToIntervene, rows, AskedMoves
  <1>3. CASE Cancel(r)
    <2>1. AskedMoves /\ UNCHANGED transcript
      BY <1>3, EmitsMoves DEF Cancel, AskedMoves
    <2> QED BY <1>3, <2>1, NothingSaid DEF Cancel
  <1>4. CASE CancelDispatches(r)
    <2>1. CASE Dispatches(r, status[r]) /\ ~deleted
      BY <1>4, <2>1, EndsAsPlaced DEF CancelDispatches, Dispatches
    <2>2. CASE ~(Dispatches(r, status[r]) /\ ~deleted)
      BY <1>4, <2>2, NothingSaid DEF CancelDispatches, AskedMoves
    <2> QED BY <2>1, <2>2
  <1> QED BY <1>1, <1>2, <1>3, <1>4 DEF UserStep

(* Whatever an answers request does, every message is where its row says.  *)
LEMMA AnswerPlaced ==
  ASSUME Inv, NEW a \in Answers, AnswerStep(a)
  PROVE  Placed'
  <1> USE DEF Inv, RunsInv
  <1>1. ASSUME NEW r \in Runs, AnswerReads(a, r)
        PROVE  Placed'
    BY <1>1, NothingSaid DEF AnswerReads, rows, AskedMoves
  <1>2. CASE AnswerSaid(a)
    BY <1>2, SpeaksMoves, NothingSaid DEF AnswerSaid
  <1>3. CASE AnswerIsAnswered(a)
    BY <1>3, SpeaksMoves, NothingSaid DEF AnswerIsAnswered
  <1>4. CASE AnswerCompletes(a)
    BY <1>4, NothingSaid DEF AnswerCompletes, Emits, AskedMoves, TypeOK, Request
  <1>5. CASE Resume(a) \/ AnswerFails(a)
    BY <1>5, NothingSaid DEF Resume, AnswerFails, rows, AskedMoves
  <1> QED BY <1>1, <1>2, <1>3, <1>4, <1>5 DEF AnswerStep

(* Every step keeps the invariant.                                         *)
LEMMA NextInv == Inv /\ [Next]_vars => Inv'
  <1> SUFFICES ASSUME Inv, [Next]_vars PROVE Inv'
    OBVIOUS
  <1>1. ASSUME AskingFails \/ DeleteConversation \/ Restart \/ UNCHANGED vars
        PROVE  Placed'
    <2>1. UNCHANGED <<transcript, followUp, intervention>>
      BY <1>1 DEF AskingFails, DeleteConversation, Restart, vars, rows
    <2>2. asked' = asked \/ asked' = NotAsked
      BY <1>1 DEF AskingFails, DeleteConversation, Restart, vars, requests
    <2>3. AskedMoves
      BY <2>2 DEF AskedMoves, NotAsked
    <2>4. TypeOK /\ Placed
      BY DEF Inv, RunsInv
    <2> QED BY <2>1, <2>3, <2>4, NothingSaid
  <1>2. Placed'
    <2>1. ASSUME NEW r \in Runs, WorkerStep(r) \/ UserStep(r) \/ CancelDispatches(r)
          PROVE  Placed'
      BY <2>1, WorkerPlaced, UserPlaced
    <2> QED BY <1>1, <2>1, AnswerPlaced, IntervenesPlaced DEF Next
  <1>3. RunsInv'
    BY NextRuns
  <1> QED BY <1>2, <1>3 DEF Inv

(* The invariant holds throughout.                                         *)
LEMMA AlwaysInv == Spec => []Inv
  <1> QED BY InitInv, NextInv, PTL DEF Spec

-----------------------------------------------------------------------------
(* Theorems *)

(* Every row, worker and request keeps its type, and a worker holds only   *)
(* runs that were started and do not wait in the queue, however requests,  *)
(* callbacks, workers and restarts interleave.                             *)
THEOREM SteeringTyped == Spec => []TypeOK
  <1>1. Inv => TypeOK
    BY DEF Inv, RunsInv
  <1> QED BY <1>1, AlwaysInv, PTL

(* A message that was sent while a run was active is used exactly once:    *)
(* the unique numbers of events and messages stop a request to intervene   *)
(* that has read the message before the run ended and dispatched it.       *)
THEOREM MessagesUsedOnce == Spec => []UsedOnce
  <1>1. Inv => UsedOnce
    <2> SUFFICES ASSUME Inv PROVE UsedOnce
      OBVIOUS
    <2>1. ASSUME NEW k \in Keys
          PROVE  Cardinality(Positions("user", k)) <= 1
      <3>1. CASE Positions("user", k) = {}
        BY <3>1, FS_EmptySet
      <3>2. CASE Positions("user", k) # {}
        <4>1. PICK i \in Positions("user", k) : TRUE
          BY <3>2
        <4>2. Positions("user", k) = {i}
          BY <4>1 DEF Positions, Inv, Placed, KeysNameOne, KeysDiffer
        <4> QED BY <4>2, FS_Singleton
      <3> QED BY <3>1, <3>2
    <2>2. \A key : SaidIn(transcript, key) <=> Positions("user", key) # {}
      BY DEF SaidIn, Positions
    <2>3. \A r \in Runs : PlacedIn(transcript, followUp[r], intervention[r].key)
      BY DEF Inv, Placed, FollowUpIsPlaced
    <2>4. ASSUME NEW r \in Runs
          PROVE  LET f == followUp[r] IN
                 /\ f.state = "WAITING" => Positions("user", f.key) = {}
                 /\ f.state = "DISPATCHED" =>
                      /\ \A i \in Positions("user", f.key) : transcript[i + 1] = Msg("run", f.next, None)
                      /\ Positions("user", f.key) # {} /\ intervention[r].key # f.key
                 /\ f.state = "INTERVENED" =>
                      Positions("user", f.key) # {} /\ intervention[r].key = f.key
      BY <2>2, <2>3 DEF PlacedIn, Positions
    <2> QED BY <2>1, <2>4 DEF UsedOnce
  <1> QED BY <1>1, AlwaysInv, PTL

(* An ended run leaves no message waiting, unless its cancel request has   *)
(* yet to dispatch it or was cut off by a restart, the conversation was    *)
(* deleted, or an answers request ended the run.                           *)
THEOREM NoMessageLeftBehind == Spec => []NothingWaitsBehind
  <1>1. Inv => NothingWaitsBehind
    BY DEF Inv, RunsInv
  <1> QED BY <1>1, AlwaysInv, PTL

(* The attempt that completes a run, over a cancel too, was given every    *)
(* intervention that is marked as applied, whichever attempt marked it.    *)
THEOREM AppliedWasGiven == Spec => []AppliedWasHeard
  <1>1. Inv => AppliedWasHeard
    BY DEF Inv, RunsInv, DecidedHasHeard, AppliedWasHeard
  <1> QED BY <1>1, AlwaysInv, PTL

=============================================================================
