----------------------------- MODULE Tournament ------------------------------
(***************************************************************************)
(* One tournament of one guest: its preparation and the votes that         *)
(* concurrent requests cast.                                               *)
(*                                                                         *)
(* A vote is a transaction that reads the match, the tournament and the    *)
(* next match, writes to Redis, and commits: the version columns and the   *)
(* unique key of vote.match_id are all that orders it among the others.    *)
(* Rows only ever fill up, so a version has changed exactly when the row   *)
(* has.  An idempotency key lives as long as the client that made it asks  *)
(* with it: the cache entry and the vote row found by key are fields of    *)
(* the client.  The view state:tournament:{id}, which both transactions    *)
(* drop before they commit, is read by GET alone and left out.             *)
(***************************************************************************)
EXTENDS Bracket

CONSTANTS
  Clients,    \* tabs or devices of the guest, with one vote each at a time
  Handlers,   \* requests being served at once
  NoClient,   \* nobody
  MaxTries,   \* tries of the tournamentVote retry (3)
  MayDie      \* whether requests die between two steps

ASSUME TournamentAssumption ==
  NoClient \notin Clients /\ MaxTries \in Nat \ {0} /\ MayDie \in BOOLEAN

VARIABLES
  status,    \* tournament.status
  champion,  \* tournament.winner_entry_id
  match,     \* tournament_match rows, without sides until they are saved
  vote,      \* vote.selected_entry_id by match_id
  client,    \* the vote a client casts, and what became of its key
  handler    \* the transactions

vars == <<status, champion, match, vote, client, handler>>
rows == <<status, champion, match, vote>>

MaybeEntry == Entries \cup {NoEntry}
Row == [left: MaybeEntry, right: MaybeEntry, winner: MaybeEntry]
TournamentStatus == {"DRAFT", "READY", "IN_PROGRESS", "COMPLETED"}
Reply == {"none", "accepted", "refused", "error"}
HandlerStage == {"idle", "preparing", "begun", "missed", "read", "cached"}
NoVote == [match |-> Final, entry |-> NoEntry, cached |-> FALSE, voted |-> FALSE,
           reply |-> "refused"]

TypeOK ==
  /\ status \in TournamentStatus
  /\ champion \in MaybeEntry
  /\ match \in [Matches -> Row]
  /\ vote \in [Matches -> MaybeEntry]
  /\ client \in [Clients -> [match: Matches, entry: MaybeEntry, cached: BOOLEAN,
                             voted: BOOLEAN, reply: Reply]]
  /\ handler \in [Handlers -> [stage: HandlerStage, client: Clients \cup {NoClient},
                               tries: 1 .. MaxTries, was: TournamentStatus, row: Row,
                               next: Row]]

Idle == [stage |-> "idle", client |-> NoClient, tries |-> 1,
         was |-> "DRAFT", row |-> Empty, next |-> Empty]

Init ==
  /\ status = "DRAFT"
  /\ champion = NoEntry
  /\ match = [m \in Matches |-> Empty]
  /\ vote = [m \in Matches |-> NoEntry]
  /\ client = [c \in Clients |-> NoVote]
  /\ handler = [h \in Handlers |-> Idle]

Sides(m) == {match[m].left, match[m].right} \ {NoEntry}
Playable(m) == match[m].winner = NoEntry /\ Sides(m) = {match[m].left, match[m].right}

Serve(h, l) == handler' = [handler EXCEPT ![h].stage = l]
Release(h) == handler' = [handler EXCEPT ![h] = Idle]

-----------------------------------------------------------------------------
(* Preparation *)

(* The transaction finds a draft, plans the bracket ...                    *)
PrepareReads(h) ==
  /\ handler[h].stage = "idle"
  /\ status = "DRAFT"
  /\ Serve(h, "preparing")
  /\ UNCHANGED <<rows, client>>

(* ... and commits, unless another one has: the positions of the matches   *)
(* are unique.                                                             *)
PrepareCommits(h) ==
  /\ handler[h].stage = "preparing"
  /\ status = "DRAFT"
  /\ status' = "READY"
  /\ match' = [m \in Matches |-> Planned(m)]
  /\ Release(h)
  /\ UNCHANGED <<champion, vote, client>>

PrepareRefused(h) ==
  /\ handler[h].stage = "preparing"
  /\ status # "DRAFT"
  /\ Release(h)
  /\ UNCHANGED <<rows, client>>

-----------------------------------------------------------------------------
(* The clients *)

Serving(c) == {h \in Handlers : handler[h].stage \notin {"idle", "preparing"}
                                /\ handler[h].client = c}

(* The guest picks a side of a match.  (The page offers matches with two   *)
(* sides; the service takes a vote on one that waits for its second, too.) *)
Decides(c) ==
  /\ Serving(c) = {}
  /\ \E m \in Matches : \E e \in Sides(m) :
       client' = [client EXCEPT ![c] = [NoVote EXCEPT !.match = m, !.entry = e,
                                                      !.reply = "none"]]
  /\ UNCHANGED <<rows, handler>>

(* The request, or the same one again while no answer, or no final one,    *)
(* has come.                                                               *)
Sends(c, h) ==
  /\ client[c].reply \in {"none", "error"}
  /\ handler[h].stage = "idle"
  /\ handler' = [handler EXCEPT ![h] = [Idle EXCEPT !.stage = "begun", !.client = c]]
  /\ UNCHANGED <<rows, client>>

-----------------------------------------------------------------------------
(* vote *)

My(h) == client[handler[h].client]

(* The first final answer counts. *)
Answered(c, r) == IF c.reply \in {"none", "error"} THEN [c EXCEPT !.reply = r] ELSE c

Answer(h, r) == client' = [client EXCEPT ![handler[h].client] = Answered(My(h), r)]

(* A key found in Redis is a vote that was accepted, the code says. *)
AnswersFromCache(h) ==
  /\ handler[h].stage = "begun"
  /\ My(h).cached
  /\ Answer(h, "accepted")
  /\ Release(h)
  /\ UNCHANGED rows

MissesCache(h) ==
  /\ handler[h].stage = "begun"
  /\ ~My(h).cached
  /\ Serve(h, "missed")
  /\ UNCHANGED <<rows, client>>

AnswersFromVote(h) ==
  /\ handler[h].stage = "missed"
  /\ My(h).voted
  /\ client' = [client EXCEPT ![handler[h].client] =
                  [Answered(My(h), "accepted") EXCEPT !.cached = TRUE]]
  /\ Release(h)
  /\ UNCHANGED rows

(* TournamentMatch.complete. *)
Allowed(m, e) == match[m].winner = NoEntry /\ e \in {match[m].left, match[m].right}

Reads(h) ==
  /\ handler[h].stage = "missed"
  /\ ~My(h).voted
  /\ Allowed(My(h).match, My(h).entry)
  /\ handler' = [handler EXCEPT
       ![h].stage = "read",
       ![h].was = status,
       ![h].row = match[My(h).match],
       ![h].next = IF My(h).match = Final THEN @ ELSE match[NextMatch(My(h).match)]]
  /\ UNCHANGED <<rows, client>>

Refuses(h) ==
  /\ handler[h].stage = "missed"
  /\ ~My(h).voted
  /\ ~Allowed(My(h).match, My(h).entry)
  /\ Answer(h, "refused")
  /\ Release(h)
  /\ UNCHANGED rows

(* The queries of profiles.refresh flush the final's rows, so that its     *)
(* transaction holds their locks from here on.                             *)
FinalIsLocked ==
  \E h \in Handlers : handler[h].stage = "cached" /\ My(h).match = Final

(* The unique key of vote.match_id lets the vote in. *)
KeyIsFree(m) == vote[m] = NoEntry

(* Mutant: the rows have no version columns. *)
NoVersions(h) == h \in Handlers

(* The rows the transaction updates are as it has read them. *)
SameVersions(h) ==
  /\ handler[h].was = "READY" \/ My(h).match = Final => handler[h].was = status
  /\ handler[h].row = match[My(h).match]
  /\ My(h).match # Final => handler[h].next = match[NextMatch(My(h).match)]

(* cacheVote, before the commit; the final's rows are flushed before it. *)
CachesKey(h) ==
  /\ handler[h].stage = "read"
  /\ My(h).match = Final => ~FinalIsLocked /\ KeyIsFree(Final) /\ SameVersions(h)
  /\ client' = [client EXCEPT ![handler[h].client] = [My(h) EXCEPT !.cached = TRUE]]
  /\ Serve(h, "cached")
  /\ UNCHANGED rows

(* Mutant: the winners of a round meet in the same slot. *)
PlaceLeft(row, m, e) == [row EXCEPT !.left = e]

PlaceWinner(row, m, e) ==
  IF NextSlot(m) = "left" THEN [row EXCEPT !.left = e] ELSE [row EXCEPT !.right = e]

(* Mutant: the first vote does not start the tournament. *)
NeverStarts(m, was) == IF m = Final THEN "COMPLETED" ELSE was

(* startIfNeeded and complete. *)
StatusAfter(m, was) ==
  IF m = Final THEN "COMPLETED" ELSE IF was = "READY" THEN "IN_PROGRESS" ELSE was

Commits(h) ==
  LET m == My(h).match
      e == My(h).entry
  IN /\ handler[h].stage = "cached"
     /\ KeyIsFree(m) /\ SameVersions(h)
     /\ m # Final /\ NextMatch(m) = Final => ~FinalIsLocked
     /\ vote' = [vote EXCEPT ![m] = e]
     /\ match' = IF m = Final THEN [match EXCEPT ![m].winner = e]
                 ELSE [match EXCEPT ![m].winner = e,
                                    ![NextMatch(m)] = PlaceWinner(handler[h].next, m, e)]
     /\ status' = IF m = Final \/ handler[h].was = "READY"
                  THEN StatusAfter(m, handler[h].was) ELSE status
     /\ champion' = IF m = Final THEN e ELSE champion
     /\ client' = [client EXCEPT ![handler[h].client] =
                     [Answered(My(h), "accepted") EXCEPT !.voted = TRUE]]
     /\ Release(h)

(* The rows are written at the commit, the final's at the flush before. *)
Writes(h) ==
  \/ handler[h].stage = "cached"
  \/ handler[h].stage = "read" /\ My(h).match = Final /\ ~FinalIsLocked

(* A second vote on the match is refused by the unique key: an error of    *)
(* the database that nobody retries.                                       *)
RefusedByKey(h) ==
  /\ Writes(h)
  /\ ~KeyIsFree(My(h).match)
  /\ Answer(h, "error")
  /\ Release(h)
  /\ UNCHANGED rows

(* A stale version: the whole of vote is tried again, with the same key,   *)
(* which is in Redis by then if the vote is not the final's.               *)
Conflicts(h) ==
  /\ Writes(h)
  /\ KeyIsFree(My(h).match) /\ ~SameVersions(h)
  /\ IF handler[h].tries < MaxTries
     THEN /\ handler' = [handler EXCEPT ![h] =
               [Idle EXCEPT !.stage = "begun", !.client = handler[h].client,
                            !.tries = handler[h].tries + 1]]
          /\ UNCHANGED client
     ELSE Answer(h, "error") /\ Release(h)
  /\ UNCHANGED rows

HandlerDies(h) ==
  /\ handler[h].stage # "idle"
  /\ MayDie
  /\ Release(h)
  /\ UNCHANGED <<rows, client>>

-----------------------------------------------------------------------------
HandlerStep(h) ==
  \/ PrepareReads(h) \/ PrepareCommits(h) \/ PrepareRefused(h)
  \/ AnswersFromCache(h) \/ MissesCache(h) \/ AnswersFromVote(h)
  \/ Reads(h) \/ Refuses(h) \/ CachesKey(h)
  \/ Commits(h) \/ RefusedByKey(h) \/ Conflicts(h)
  \/ HandlerDies(h)

Next ==
  \/ \E c \in Clients : Decides(c) \/ \E h \in Handlers : Sends(c, h)
  \/ \E h \in Handlers : HandlerStep(h)

Spec == Init /\ [][Next]_vars

-----------------------------------------------------------------------------
Decided == {m \in Matches : match[m].winner # NoEntry}

(* A slot holds the winner of the match that feeds it, as soon as there is *)
(* one, and nothing else: two votes that end the two feeders at the same   *)
(* time must not lose each other's entry.                                  *)
SlotsHoldWinners ==
  \A m \in Matches \ {Final} : match[NextMatch(m)][NextSlot(m)] = match[m].winner

(* The tables tell one story: a match has a winner by its only vote, which *)
(* names one of its sides; the tournament runs from the first vote to the  *)
(* last; its winner is the final's.                                        *)
ResultFollowsVotes ==
  /\ \A m \in Matches : match[m].winner = vote[m]
  /\ \A m \in Decided : match[m].winner \in Sides(m)
  /\ champion = vote[Final]
  /\ status = "COMPLETED" <=> Final \in Decided
  /\ status \in {"DRAFT", "READY"} <=> Decided = {}

(* A tournament that is not over can always go on. *)
SomeMatchIsPlayable ==
  status \in {"READY", "IN_PROGRESS"} => \E m \in Matches : Playable(m)

(* A vote is never changed or taken back, nor is what follows from it. *)
VotesAreFinal ==
  [][\A m \in Matches :
       /\ vote[m] # NoEntry => vote'[m] = vote[m]
       /\ match[m].left # NoEntry => match'[m].left = match[m].left
       /\ match[m].right # NoEntry => match'[m].right = match[m].right]_vars

(* Who is told that the vote was accepted finds it in the table once the   *)
(* requests are through.  (It is not so: a try that loses a race leaves    *)
(* the key in Redis, where the next try finds it and answers for a vote    *)
(* that was rolled back.)                                                  *)
AcceptedIsKept ==
  \A c \in Clients : client[c].reply = "accepted" /\ Serving(c) = {}
                      => vote[client[c].match] = client[c].entry
=============================================================================
