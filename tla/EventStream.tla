----------------------------- MODULE EventStream -----------------------------
(***************************************************************************)
(* Following a run: the server-sent event stream of AgentRunController,    *)
(* the polling endpoint beside it, and followAgentRun of the web client,   *)
(* which reconnects twice from its cursor and then polls.                  *)
(*                                                                         *)
(* The server reads events and status in two transactions, so a response   *)
(* is made of two snapshots of the database, which RunEvents changes.      *)
(***************************************************************************)
EXTENDS RunEvents

CONSTANTS
  MaxReconnects,  \* connections the client opens again before it polls
  MaxBreaks       \* bound: connections and responses the network loses

ASSUME StreamAssumption == MaxReconnects \in Nat /\ MaxBreaks \in Nat

VARIABLES
  server,  \* the handler of the open stream
  wire,    \* numbers written and not yet handled by the client; a connection
           \* delivers in order, and each of its batches is in ascending order
  told,    \* the run_status behind them, or "NONE"
  client,  \* followAgentRun
  seen,    \* events the client has handed to its callbacks
  poll,    \* what the polling request on the server read first
  breaks

streamVars == <<server, wire, told, client, seen, poll, breaks>>
vars == <<status, next, log, tx, server, wire, told, client, seen, poll, breaks>>

StreamTerminal == {"WAITING_FOR_USER", "COMPLETED", "FAILED", "CANCELLED"}
Outcome == StreamTerminal \cup {"none", "error"}

Published == {s \in Sequence : log[s] # "NONE"}
Snapshot == [status |-> status, published |-> Published]
NoSnapshot == [status |-> "NONE", published |-> {}]

After(S, cursor) == {s \in S : s > cursor}
Newest(S) == CHOOSE s \in S : \A t \in S : t <= s
Oldest(S) == CHOOSE s \in S : \A t \in S : s <= t

Server == [stage: {"closed", "batch", "status"}, cursor: 0 .. MaxEvents]
Client == [mode: {"connecting", "stream", "poll", "settled"}, cursor: 0 .. MaxEvents,
           reconnects: 0 .. MaxReconnects + 1, result: BOOLEAN, outcome: Outcome]

TypeOK ==
  /\ EventsTypeOK
  /\ server \in Server
  /\ wire \subseteq Sequence
  /\ told \in StreamTerminal \cup {"NONE"}
  /\ client \in Client
  /\ seen \subseteq Sequence
  /\ poll \in [status: Status \cup {"NONE"}, published: SUBSET Sequence]
  /\ breaks \in 0 .. MaxBreaks

Init ==
  /\ EventsInit
  /\ server = [stage |-> "closed", cursor |-> 0]
  /\ wire = {} /\ told = "NONE"
  /\ client = [mode |-> "connecting", cursor |-> 0, reconnects |-> 0,
               result |-> FALSE, outcome |-> "none"]
  /\ seen = {}
  /\ poll = NoSnapshot
  /\ breaks = 0

-----------------------------------------------------------------------------
(* The server *)

(* Mutant: the handler goes on where the last one stopped writing. *)
ConnectsAtServerCursor ==
  /\ client.mode = "connecting"
  /\ client' = [client EXCEPT !.mode = "stream"]
  /\ server' = [server EXCEPT !.stage = "batch"]
  /\ UNCHANGED <<eventVars, wire, told, seen, poll, breaks>>

Connects ==
  /\ client.mode = "connecting"
  /\ client' = [client EXCEPT !.mode = "stream"]
  /\ server' = [stage |-> "batch", cursor |-> client.cursor]
  /\ UNCHANGED <<eventVars, wire, told, seen, poll, breaks>>

WritesBatch ==
  /\ server.stage = "batch"
  /\ LET batch == After(Published, server.cursor)
     IN /\ wire' = wire \cup batch
        /\ server' = [stage |-> "status", cursor |-> Newest(batch \cup {server.cursor})]
  /\ UNCHANGED <<eventVars, told, client, seen, poll, breaks>>

WritesStatus ==
  /\ server.stage = "status"
  /\ status \in StreamTerminal
  /\ told' = status
  /\ server' = [server EXCEPT !.stage = "closed"]
  /\ UNCHANGED <<eventVars, wire, client, seen, poll, breaks>>

Sleeps ==
  /\ server.stage = "status"
  /\ status \notin StreamTerminal
  /\ server' = [server EXCEPT !.stage = "batch"]
  /\ UNCHANGED <<eventVars, wire, told, client, seen, poll, breaks>>

(* The 900th turn of the loop, any turn here. *)
StreamEnds ==
  /\ server.stage = "batch"
  /\ server' = [server EXCEPT !.stage = "closed"]
  /\ UNCHANGED <<eventVars, wire, told, client, seen, poll, breaks>>

CloseStream ==
  /\ server' = [server EXCEPT !.stage = "closed"]
  /\ wire' = {}
  /\ told' = "NONE"

-----------------------------------------------------------------------------
(* The client *)

Settle(c, o) == [c EXCEPT !.mode = "settled", !.outcome = o]
SettleWith(c, s) == Settle(c, IF s = "FAILED" THEN "error" ELSE s)

(* consume, of one event or of all of a response. *)
Moved(c, new) ==
  [c EXCEPT !.cursor = Newest(new \cup {@}),
            !.result = @ \/ \E s \in new : log[s] = "RESULT"]

Consumed(c, S) ==
  LET new == After(S, c.cursor)
  IN IF \E s \in new : log[s] = "FAILED" THEN Settle(Moved(c, new), "error") ELSE Moved(c, new)

HandlesEvent ==
  /\ client.mode = "stream" /\ wire # {}
  /\ client' = Consumed(client, {Oldest(wire)})
  /\ seen' = seen \cup After({Oldest(wire)}, client.cursor)
  /\ IF client'.mode = "settled" THEN CloseStream
     ELSE wire' = wire \ {Oldest(wire)} /\ UNCHANGED <<server, told>>
  /\ UNCHANGED <<eventVars, poll, breaks>>

HandlesStatus ==
  /\ client.mode = "stream" /\ wire = {} /\ told # "NONE"
  /\ client' = SettleWith(client, told)
  /\ CloseStream
  /\ UNCHANGED <<eventVars, seen, poll, breaks>>

(* Mutant: the last error is not followed by polling. *)
OnErrorGivesUp ==
  [client EXCEPT !.reconnects = @ + 1,
                 !.mode = IF client.reconnects < MaxReconnects THEN "connecting" ELSE @]

OnError ==
  [client EXCEPT !.reconnects = @ + 1,
                 !.mode = IF client.reconnects < MaxReconnects THEN "connecting" ELSE "poll"]

SeesStreamEnd ==
  /\ client.mode = "stream" /\ client.reconnects <= MaxReconnects
  /\ server.stage = "closed" /\ wire = {} /\ told = "NONE"
  /\ client' = OnError
  /\ UNCHANGED <<eventVars, server, wire, told, seen, poll, breaks>>

ConnectionBreaks ==
  /\ client.mode = "stream" /\ client.reconnects <= MaxReconnects
  /\ breaks < MaxBreaks
  /\ breaks' = breaks + 1
  /\ client' = OnError
  /\ CloseStream
  /\ UNCHANGED <<eventVars, seen, poll>>

TimesOut ==
  /\ client.mode # "settled"
  /\ client' = Settle(client, "error")
  /\ CloseStream
  /\ poll' = NoSnapshot
  /\ UNCHANGED <<eventVars, seen, breaks>>

-----------------------------------------------------------------------------
(* The polling endpoint *)

PollReads ==
  /\ client.mode = "poll" /\ poll = NoSnapshot
  /\ poll' = Snapshot
  /\ UNCHANGED <<eventVars, server, wire, told, client, seen, breaks>>

(* Mutant: the events are read before the status. *)
ResponseEventsFirst(first, second) ==
  [status |-> second.status, published |-> first.published]

(* The status of the first transaction, the events of the second. *)
Response(first, second) ==
  [status |-> first.status, published |-> second.published]

PollAnswers ==
  /\ client.mode = "poll" /\ poll # NoSnapshot
  /\ LET r     == Response(poll, Snapshot)
         after == Consumed(client, r.published)
     IN /\ seen' = seen \cup After(r.published, client.cursor)
        /\ client' = IF after.mode # "settled" /\ r.status \in StreamTerminal
                     THEN SettleWith(after, r.status) ELSE after
  /\ poll' = NoSnapshot
  /\ UNCHANGED <<eventVars, server, wire, told, breaks>>

PollFails ==
  /\ client.mode = "poll" /\ poll # NoSnapshot
  /\ breaks < MaxBreaks
  /\ breaks' = breaks + 1
  /\ client' = Settle(client, "error")
  /\ poll' = NoSnapshot
  /\ UNCHANGED <<eventVars, server, wire, told, seen>>

-----------------------------------------------------------------------------
(* Nothing is watched once the client has settled (a bound: it loses no    *)
(* behaviour of the writers, which do not wait for the client).            *)
RunChanges ==
  /\ client.mode # "settled"
  /\ EventsNext
  /\ UNCHANGED streamVars

StreamStep ==
  \/ Connects \/ WritesBatch \/ WritesStatus \/ Sleeps
  \/ HandlesEvent \/ HandlesStatus \/ SeesStreamEnd
  \/ PollReads \/ PollAnswers

Next ==
  \/ RunChanges
  \/ StreamStep
  \/ StreamEnds \/ ConnectionBreaks \/ PollFails \/ TimesOut

Spec == Init /\ [][Next]_vars /\ WF_vars(StreamStep)

-----------------------------------------------------------------------------
(* The callbacks see every event up to the client's cursor, whatever       *)
(* commits, reconnects and falls back to polling in between.               *)
SeenIsPrefix == seen = 1 .. client.cursor

(* A client that polls never settles a completed run without its result:   *)
(* the status it reports is older than the events.                         *)
PollKnowsResult ==
  [][client.mode = "poll" /\ client'.outcome = "COMPLETED" => client'.result]_vars

(* When the run has ended for good, or waits for good, its follower is     *)
(* told, whatever connections break.                                       *)
FollowerSettles ==
  <>[](status \in StreamTerminal) => <>(client.mode = "settled")
=============================================================================
