------------------------------ MODULE AgentRuns ------------------------------
(***************************************************************************)
(* The durable side of an agent run: the agent_run and agent_run_attempt   *)
(* rows and the lifecycle events that AgentRunApplicationService writes.   *)
(* Each operator below is one transaction of that service (or the commit   *)
(* of one), over this module's variables only; AgentWorker composes them   *)
(* with the queue, the workers and the web requests that call them.        *)
(*                                                                         *)
(* Time is abstracted to whether a lease is over.  An attempt is           *)
(*   RUNNING    row RUNNING, lease_expires_at in the future                *)
(*   LAPSED     row RUNNING, lease_expires_at passed                       *)
(*   COMPLETED  row COMPLETED                                              *)
(*   FAILED     row FAILED before its lease was over                       *)
(*   EXPIRED    row FAILED after its lease was over                        *)
(***************************************************************************)
EXTENDS Integers, Sequences

CONSTANTS
  Runs,         \* agent runs
  MaxAttempts   \* bound: attempts of one run (the code has no limit)

ASSUME MaxAttemptsAssumption == MaxAttempts \in Nat \ {0}

VARIABLES
  status,    \* agent_run.status, "NEW" before the row exists
  attempts,  \* agent_run_attempt rows of a run by attempt_no
  last,      \* highest attempt_no of a run
  outcome    \* lifecycle rows of agent_run_event, in sequence order

runVars == <<status, attempts, last, outcome>>

Terminal == {"COMPLETED", "FAILED", "CANCELLED"}
Status == {"NEW", "QUEUED", "RUNNING", "WAITING_FOR_USER"} \cup Terminal
AttemptState == {"NONE", "RUNNING", "LAPSED", "COMPLETED", "FAILED", "EXPIRED"}
AttemptNo == 1 .. MaxAttempts
OutcomeEvent == {"RESULT", "FAILED", "CANCELLED", "CLARIFICATION_REQUESTED"}

RunTypeOK ==
  /\ status \in [Runs -> Status]
  /\ attempts \in [Runs -> [AttemptNo -> AttemptState]]
  /\ last \in [Runs -> 0 .. MaxAttempts]
  /\ outcome \in [Runs -> Seq(OutcomeEvent)]

RunInit ==
  /\ status = [r \in Runs |-> "NEW"]
  /\ attempts = [r \in Runs |-> [n \in AttemptNo |-> "NONE"]]
  /\ last = [r \in Runs |-> 0]
  /\ outcome = [r \in Runs |-> <<>>]

-----------------------------------------------------------------------------
(* The row of attempt n of r is RUNNING, whether or not its lease is over. *)
RowRunning(r, n) == attempts[r][n] \in {"RUNNING", "LAPSED"}

(* AgentRunAttempt.valid: what assertLease, heartbeat, finishLease, retry  *)
(* and fail demand of the caller's lease.                                  *)
Valid(r, n) == attempts[r][n] = "RUNNING"

(* The half of valid() a transaction re-evaluates against the clock when   *)
(* it already holds the row it read before.                                *)
InTime(r, n) == attempts[r][n] \notin {"LAPSED", "EXPIRED"}

SetStatus(r, s) == status' = [status EXCEPT ![r] = s]
SetAttempt(r, n, s) == attempts' = [attempts EXCEPT ![r][n] = s]
Emit(r, e) == outcome' = [outcome EXCEPT ![r] = Append(@, e)]

-----------------------------------------------------------------------------
CreateQueued(r) ==
  /\ status[r] = "NEW"
  /\ SetStatus(r, "QUEUED")
  /\ UNCHANGED <<attempts, last, outcome>>

Claimable(r) == status[r] = "QUEUED"

(* claim: the run row is locked, so attempt numbers are never shared. *)
Claim(r) ==
  /\ Claimable(r)
  /\ last[r] < MaxAttempts
  /\ last' = [last EXCEPT ![r] = @ + 1]
  /\ SetAttempt(r, last[r] + 1, "RUNNING")
  /\ SetStatus(r, "RUNNING")
  /\ UNCHANGED outcome

(* heartbeat writes the whole row back: a row read as RUNNING is RUNNING   *)
(* again, with 30 more seconds, whatever was committed since the read.     *)
WriteHeartbeat(r, n) ==
  /\ SetAttempt(r, n, "RUNNING")
  /\ UNCHANGED <<status, last, outcome>>

(* complete + finishLease in one transaction: runs.complete looks at no    *)
(* status, and finishLease checks the attempt it read in assertLease.      *)
Complete(r, n) ==
  /\ InTime(r, n)
  /\ SetStatus(r, "COMPLETED")
  /\ SetAttempt(r, n, "COMPLETED")
  /\ Emit(r, "RESULT")
  /\ UNCHANGED last

(* Mutant: the status changes and no event announces it. *)
CompleteRunSilently(r) ==
  /\ SetStatus(r, "COMPLETED")
  /\ UNCHANGED <<attempts, last, outcome>>

(* complete alone: complete-candidate and the answers request. *)
CompleteRun(r) ==
  /\ SetStatus(r, "COMPLETED")
  /\ Emit(r, "RESULT")
  /\ UNCHANGED <<attempts, last>>

MarkWaitingForUser(r) ==
  /\ SetStatus(r, "WAITING_FOR_USER")
  /\ Emit(r, "CLARIFICATION_REQUESTED")
  /\ UNCHANGED <<attempts, last>>

FinishLease(r, n) ==
  /\ Valid(r, n)
  /\ SetAttempt(r, n, "COMPLETED")
  /\ UNCHANGED <<status, last, outcome>>

Resume(r) ==
  /\ SetStatus(r, "RUNNING")
  /\ UNCHANGED <<attempts, last, outcome>>

Retryable(r, n) == Valid(r, n) /\ status[r] = "RUNNING"

Retry(r, n) ==
  /\ Retryable(r, n)
  /\ SetAttempt(r, n, "FAILED")
  /\ SetStatus(r, "QUEUED")
  /\ UNCHANGED <<last, outcome>>

(* Mutant: the lease of the failing worker is not checked. *)
FailUnfenced(r, n) ==
  /\ SetStatus(r, "FAILED")
  /\ SetAttempt(r, n, "COMPLETED")
  /\ Emit(r, "FAILED")
  /\ UNCHANGED last

(* assertLease, fail and finishLease in one transaction. *)
Fail(r, n) ==
  /\ Valid(r, n)
  /\ SetStatus(r, "FAILED")
  /\ SetAttempt(r, n, "COMPLETED")
  /\ Emit(r, "FAILED")
  /\ UNCHANGED last

(* Mutant: the attempt keeps its lease when the user stops the run. *)
CancelKeepsLease(r) ==
  /\ status[r] \notin Terminal \cup {"NEW"}
  /\ SetStatus(r, "CANCELLED")
  /\ Emit(r, "CANCELLED")
  /\ UNCHANGED <<attempts, last>>

(* Cancel fails the newest attempt, and only that one. *)
Cancel(r) ==
  /\ status[r] \notin Terminal \cup {"NEW"}
  /\ attempts' = [attempts EXCEPT ![r] =
       [n \in AttemptNo |->
          IF n # last[r] THEN @[n]
          ELSE CASE @[n] = "RUNNING" -> "FAILED"
                 [] @[n] = "LAPSED"  -> "EXPIRED"
                 [] OTHER            -> @[n]]]
  /\ SetStatus(r, "CANCELLED")
  /\ Emit(r, "CANCELLED")
  /\ UNCHANGED last

(* The clock passes lease_expires_at. *)
LeaseLapses(r, n) ==
  /\ attempts[r][n] = "RUNNING"
  /\ SetAttempt(r, n, "LAPSED")
  /\ UNCHANGED <<status, last, outcome>>

(* Mutant: the attempt is expired and its run left RUNNING. *)
ExpireLeaseOnly(r, n) ==
  /\ attempts[r][n] = "LAPSED"
  /\ SetAttempt(r, n, "EXPIRED")
  /\ UNCHANGED <<status, last, outcome>>

(* expireLease, as the recovery scheduler calls it. *)
ExpireLease(r, n) ==
  /\ attempts[r][n] = "LAPSED"
  /\ SetAttempt(r, n, "EXPIRED")
  /\ IF status[r] = "RUNNING" THEN SetStatus(r, "QUEUED") ELSE UNCHANGED status
  /\ UNCHANGED <<last, outcome>>
=============================================================================
