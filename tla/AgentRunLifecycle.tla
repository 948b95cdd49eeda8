-------------------------- MODULE AgentRunLifecycle --------------------------
(***************************************************************************)
(* What the control plane promises of an agent run, whoever executes it    *)
(* and whatever fails: a status machine whose terminal states are final,   *)
(* and an event log that announces each of its endings once.  Attempts,    *)
(* leases, messages and workers are left out: AgentWorker supplies them.   *)
(***************************************************************************)
EXTENDS Sequences

CONSTANTS Runs

VARIABLES status, outcome

lifecycleVars == <<status, outcome>>

Init ==
  /\ status = [r \in Runs |-> "NEW"]
  /\ outcome = [r \in Runs |-> <<>>]

Move(r, from, to) ==
  /\ status[r] \in from
  /\ status' = [status EXCEPT ![r] = to]

Announce(r, e) == outcome' = [outcome EXCEPT ![r] = Append(@, e)]

Enqueue(r) == Move(r, {"NEW"}, "QUEUED") /\ UNCHANGED outcome
Start(r)   == Move(r, {"QUEUED"}, "RUNNING") /\ UNCHANGED outcome
Requeue(r) == Move(r, {"RUNNING"}, "QUEUED") /\ UNCHANGED outcome
Succeed(r) == Move(r, {"RUNNING"}, "COMPLETED") /\ Announce(r, "RESULT")
GiveUp(r)  == Move(r, {"RUNNING"}, "FAILED") /\ Announce(r, "FAILED")
Stop(r)    == Move(r, {"QUEUED", "RUNNING"}, "CANCELLED") /\ Announce(r, "CANCELLED")

Next == \E r \in Runs :
  \/ Enqueue(r) \/ Start(r) \/ Requeue(r)
  \/ Succeed(r) \/ GiveUp(r) \/ Stop(r)

Spec == Init /\ [][Next]_lifecycleVars
=============================================================================
