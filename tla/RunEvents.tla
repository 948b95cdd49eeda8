------------------------------ MODULE RunEvents ------------------------------
(***************************************************************************)
(* How the events of one agent run get their sequence numbers.  A          *)
(* transaction on the run takes the lock of its row, allocates             *)
(* next_event_sequence, and commits status, counter and event together.    *)
(* What differs is when the row is read: most transactions read it under   *)
(* the lock; fail, markWaitingForUser and resume read it before, and the   *)
(* lock does not refresh what they read.                                   *)
(*                                                                         *)
(* AgentRuns has the same transactions as single steps, with attempts and  *)
(* leases; here they are taken apart, and a lease check is reduced to the  *)
(* run being RUNNING when it is made.                                      *)
(***************************************************************************)
EXTENDS Integers

CONSTANTS
  Writers,   \* concurrent requests that write to the run
  Kinds,     \* the transactions in play
  MaxEvents  \* bound: events of the run

TxKind == {"append", "claim", "retry", "complete", "cancel",
           "fail", "waiting", "resume"}

ASSUME EventsAssumption == Kinds \subseteq TxKind /\ MaxEvents \in Nat

VARIABLES
  status,  \* agent_run.status
  next,    \* agent_run.next_event_sequence
  log,     \* agent_run_event by sequence_number, "NONE" where there is no row
  tx       \* the requests and what they have read of the row

eventVars == <<status, next, log, tx>>

Sequence == 1 .. MaxEvents
Status == {"QUEUED", "RUNNING", "WAITING_FOR_USER", "COMPLETED", "FAILED", "CANCELLED"}
EventType == {"PROGRESS", "RETRY", "RESULT", "FAILED", "CANCELLED",
              "CLARIFICATION_REQUESTED"}
TxStage == {"none", "checked", "read", "locked"}

NoTx == [stage |-> "none", kind |-> "append", was |-> "QUEUED", seq |-> 1]

EventsTypeOK ==
  /\ status \in Status
  /\ next \in Nat \ {0}
  /\ log \in [Sequence -> EventType \cup {"NONE"}]
  /\ tx \in [Writers -> [stage: TxStage, kind: TxKind, was: Status, seq: Nat \ {0}]]

(* Mutant: the counter is not set to one. *)
EventsInitUnset ==
  /\ status = "QUEUED"
  /\ next = 0
  /\ log = [s \in Sequence |-> "NONE"]
  /\ tx = [x \in Writers |-> NoTx]

EventsInit ==
  /\ status = "QUEUED"
  /\ next = 1
  /\ log = [s \in Sequence |-> "NONE"]
  /\ tx = [x \in Writers |-> NoTx]

Locked == \E x \in Writers : tx[x].stage = "locked"

Row(x, k, l) ==
  tx' = [tx EXCEPT ![x] = [stage |-> l, kind |-> k, was |-> status, seq |-> next]]

(* What a request looks at in an earlier statement, or an earlier          *)
(* transaction, than the one that reads the row.                           *)
Checks(x, k) ==
  /\ tx[x].stage = "none"
  /\ \/ k \in {"append", "complete", "waiting"} /\ status = "RUNNING"
     \/ k = "resume" /\ status = "WAITING_FOR_USER"
  /\ tx' = [tx EXCEPT ![x] = [stage |-> "checked", kind |-> k, was |-> "QUEUED", seq |-> 1]]
  /\ UNCHANGED <<status, next, log>>

(* Mutant: the counter is a statement of its own, outside the lock. *)
AllocatesUnlocked(x, k) ==
  /\ \/ k \in {"append", "complete"} /\ tx[x].stage = "checked" /\ tx[x].kind = k
     \/ tx[x].stage = "none" /\ k = "claim" /\ status = "QUEUED"
     \/ tx[x].stage = "none" /\ k = "cancel" /\ status = "RUNNING"
  /\ Row(x, k, "locked")
  /\ next' = next + 1
  /\ UNCHANGED <<status, log>>

(* findLockedById is the first read of the row.  (The lease of fail is     *)
(* read in the snapshot that its findById sees.)                           *)
LocksFirst(x, k) ==
  /\ ~Locked
  /\ \/ k \in {"append", "complete"} /\ tx[x].stage = "checked" /\ tx[x].kind = k
     \/ tx[x].stage = "none" /\ CASE k = "claim"  -> status = "QUEUED"
                                  [] k = "retry"  -> status = "RUNNING"
                                  [] k = "cancel" -> status \in {"QUEUED", "RUNNING",
                                                                 "WAITING_FOR_USER"}
                                  [] OTHER        -> FALSE
  /\ Row(x, k, "locked")
  /\ UNCHANGED <<status, next, log>>

(* findById. *)
ReadsFirst(x, k) ==
  /\ \/ k \in {"waiting", "resume"} /\ tx[x].stage = "checked" /\ tx[x].kind = k
     \/ k = "fail" /\ tx[x].stage = "none" /\ status = "RUNNING"
  /\ Row(x, k, "read")
  /\ UNCHANGED <<status, next, log>>

LocksLater(x) ==
  /\ tx[x].stage = "read"
  /\ ~Locked
  /\ tx' = [tx EXCEPT ![x].stage = "locked"]
  /\ UNCHANGED <<status, next, log>>

Target(k, s) ==
  CASE k = "append"   -> s
    [] k = "claim"    -> "RUNNING"
    [] k = "retry"    -> "QUEUED"
    [] k = "complete" -> "COMPLETED"
    [] k = "fail"     -> "FAILED"
    [] k = "waiting"  -> "WAITING_FOR_USER"
    [] k = "cancel"   -> "CANCELLED"

EventOf(k) ==
  CASE k \in {"append", "claim"} -> "PROGRESS"
    [] k = "retry"               -> "RETRY"
    [] k = "complete"            -> "RESULT"
    [] k = "fail"                -> "FAILED"
    [] k = "waiting"             -> "CLARIFICATION_REQUESTED"
    [] k = "cancel"              -> "CANCELLED"

Taken(s) == s \in Sequence /\ log[s] # "NONE"
Ends(x) == tx' = [tx EXCEPT ![x] = NoTx]

CommitsEvent(x) ==
  /\ tx[x].stage = "locked" /\ tx[x].kind # "resume"
  /\ tx[x].seq \in Sequence /\ ~Taken(tx[x].seq)
  /\ status' = Target(tx[x].kind, tx[x].was)
  /\ next' = tx[x].seq + 1
  /\ log' = [log EXCEPT ![tx[x].seq] = EventOf(tx[x].kind)]
  /\ Ends(x)

(* Mutant: the event is refused in a transaction of its own. *)
RollsBackEventOnly(x) ==
  /\ tx[x].stage = "locked" /\ tx[x].kind # "resume"
  /\ Taken(tx[x].seq)
  /\ status' = Target(tx[x].kind, tx[x].was)
  /\ Ends(x)
  /\ UNCHANGED <<next, log>>

(* The unique key (run_id, sequence_number) refuses the event. *)
RollsBack(x) ==
  /\ tx[x].stage = "locked" /\ tx[x].kind # "resume"
  /\ Taken(tx[x].seq)
  /\ Ends(x)
  /\ UNCHANGED <<status, next, log>>

(* resume has no event, and flushes every column of the row it read. *)
CommitsResume(x) ==
  /\ tx[x].stage = "locked" /\ tx[x].kind = "resume"
  /\ status' = "RUNNING"
  /\ next' = tx[x].seq
  /\ Ends(x)
  /\ UNCHANGED log

(* The process stops: the database rolls the transaction back. *)
WriterDies(x) ==
  /\ tx[x].stage # "none"
  /\ Ends(x)
  /\ UNCHANGED <<status, next, log>>

WriterStep(x) ==
  \/ \E k \in Kinds : Checks(x, k) \/ LocksFirst(x, k) \/ ReadsFirst(x, k)
  \/ LocksLater(x)
  \/ CommitsEvent(x) \/ RollsBack(x) \/ CommitsResume(x)
  \/ WriterDies(x)

EventsNext == \E x \in Writers : WriterStep(x)

-----------------------------------------------------------------------------
(* The numbers of committed events have no gap, so a reader that asks for  *)
(* the events after its cursor never misses one that commits later.        *)
NoGaps ==
  \A s \in Sequence : log[s] # "NONE" => \A t \in 1 .. s : log[t] # "NONE"

(* The counter is ahead of every published event.  If it is not, every     *)
(* later transaction on the run, a cancel included, is rolled back.        *)
CounterIsAhead == \A s \in Sequence : log[s] # "NONE" => s < next

(* No transaction with an event changes an ending it has not read,         *)
(* although the row has no version: the unique key of the events stands in *)
(* for one.  (resume has no event, and nothing protects it.)               *)
Ending == {"COMPLETED", "FAILED", "CANCELLED"}

NoStaleOverwrite ==
  [][\A x \in Writers :
       (/\ tx[x].kind # "resume"
        /\ tx[x].stage = "locked" /\ tx'[x].stage = "none"
        /\ status \in Ending /\ status' # status)
       => tx[x].was = status]_eventVars
=============================================================================
