-------------------------- MODULE TournamentProofs ---------------------------
(***************************************************************************)
(* Theorems about Tournament, for brackets of every size and any number of *)
(* clients, handlers and tries, whether requests die or not.               *)
(***************************************************************************)
EXTENDS Tournament, WellFoundedInduction, TLAPS

-----------------------------------------------------------------------------
(* The bracket *)

(* The round and the index of a match. *)
LEMMA MatchTyped ==
  ASSUME NEW m \in Matches
  PROVE  /\ m = <<m[1], m[2]>>
         /\ m[1] \in 1 .. Rounds /\ m[2] \in Nat /\ m[2] < Sizes[m[1]]
         /\ Sizes[m[1]] \in Nat \ {0}
  <1>1. PICK r \in 1 .. Rounds : m \in {r} \X (0 .. Sizes[r] - 1)
    BY DEF Matches
  <1>2. Sizes[r] \in Nat \ {0} /\ Rounds \in Nat
    BY BracketAssumption DEF Rounds
  <1> QED BY <1>1, <1>2

(* The final is a match of the bracket.                                    *)
LEMMA FinalIsMatch == Final \in Matches
  <1>1. Rounds \in Nat /\ Rounds \in 1 .. Rounds
    BY BracketAssumption DEF Rounds
  <1>2. Final \in {Rounds} \X (0 .. Sizes[Rounds] - 1)
    BY BracketAssumption, <1>1 DEF Final
  <1> QED BY <1>1, <1>2 DEF Matches

(* Every match but the final is followed by one of the next round. *)
LEMMA NextIsMatch ==
  ASSUME NEW m \in Matches, m # Final
  PROVE  NextMatch(m) \in Matches /\ NextMatch(m) # m
  <1>0. Rounds \in Nat
    BY BracketAssumption DEF Rounds
  <1>1. m = <<m[1], m[2]>> /\ m[1] \in 1 .. Rounds /\ m[2] \in Nat /\ m[2] < Sizes[m[1]]
    BY MatchTyped
  <1>2. m[1] # Rounds
    <2> SUFFICES ASSUME m[1] = Rounds PROVE FALSE
      OBVIOUS
    <2>1. m[2] = 0
      BY <1>1, BracketAssumption
    <2> QED BY <1>1, <2>1 DEF Final
  <1>3. m[1] \in 1 .. Rounds - 1 /\ m[1] + 1 \in 1 .. Rounds
    BY <1>0, <1>1, <1>2
  <1>4. Sizes[m[1]] = 2 * Sizes[m[1] + 1] /\ Sizes[m[1] + 1] \in Nat
    BY <1>3, BracketAssumption DEF Rounds
  <1>5. m[2] \div 2 \in 0 .. Sizes[m[1] + 1] - 1
    BY <1>1, <1>4
  <1>6. NextMatch(m) \in {m[1] + 1} \X (0 .. Sizes[m[1] + 1] - 1)
    BY <1>5 DEF NextMatch
  <1>7. NextMatch(m) \in Matches
    BY <1>3, <1>6 DEF Matches
  <1>8. NextMatch(m)[1] # m[1]
    BY <1>1, <1>3 DEF NextMatch
  <1> QED BY <1>7, <1>8

(* Two matches that feed the same one do so in different slots. *)
LEMMA FeedersDiffer ==
  ASSUME NEW m \in Matches, NEW k \in Matches, m # k, NextMatch(m) = NextMatch(k)
  PROVE  NextSlot(m) # NextSlot(k)
  <1>1. /\ m = <<m[1], m[2]>> /\ m[1] \in Nat /\ m[2] \in Nat
        /\ k = <<k[1], k[2]>> /\ k[1] \in Nat /\ k[2] \in Nat
    BY MatchTyped, BracketAssumption DEF Rounds
  <1>2. m[1] + 1 = k[1] + 1 /\ m[2] \div 2 = k[2] \div 2
    BY DEF NextMatch
  <1>3. m[1] = k[1]
    BY <1>1, <1>2
  <1>4. m[2] # k[2]
    BY <1>1, <1>3
  <1>5. m[2] % 2 # k[2] % 2
    BY <1>1, <1>2, <1>4
  <1>6. m[2] % 2 \in {0, 1} /\ k[2] % 2 \in {0, 1}
    BY <1>1
  <1> QED BY <1>5, <1>6 DEF NextSlot

(* The winner of a match goes to its slot of the next one; the rest of     *)
(* that row stays as it is.                                                *)
LEMMA WinnerPlaced ==
  ASSUME NEW m \in Matches, NEW e \in Entries, NEW row \in Row
  PROVE  /\ PlaceWinner(row, m, e) \in Row
         /\ PlaceWinner(row, m, e)[NextSlot(m)] = e
         /\ \A s \in {"left", "right"} \ {NextSlot(m)} : PlaceWinner(row, m, e)[s] = row[s]
         /\ PlaceWinner(row, m, e).winner = row.winner
  <1>1. CASE NextSlot(m) = "left"
    BY <1>1 DEF PlaceWinner, Row, MaybeEntry
  <1>2. CASE NextSlot(m) = "right"
    BY <1>2 DEF PlaceWinner, Row, MaybeEntry
  <1> QED BY <1>1, <1>2 DEF NextSlot

(* Rows that are empty or planned are rows.                                *)
LEMMA EmptyIsRow == Empty \in Row /\ \A m \in Matches : Planned(m) \in Row
  <1>1. Empty \in Row
    BY DEF Empty, Row, MaybeEntry
  <1>2. ASSUME NEW m \in Matches, m[1] = 1
        PROVE  2 * m[2] \in Entries /\ 2 * m[2] + 1 \in Entries
    BY <1>2, MatchTyped, BracketAssumption DEF Entries
  <1> QED BY <1>1, <1>2 DEF Planned, Empty, Row, MaybeEntry

-----------------------------------------------------------------------------
(* The invariant *)

Voting == {"begun", "missed", "read", "cached"}

(* Nobody asks for a vote without an entry. *)
VotesName ==
  /\ \A c \in Clients : client[c].reply \in {"none", "error"} => client[c].entry \in Entries
  /\ \A h \in Handlers : handler[h].stage \in Voting =>
       handler[h].client \in Clients /\ My(h).entry \in Entries

DraftIsEmpty == status = "DRAFT" => \A m \in Matches : match[m] = Empty

(* The first round has its entries from the commit of the preparation on.  *)
FirstRoundIsFull ==
  status # "DRAFT" =>
    \A m \in Matches : m[1] = 1 => match[m].left # NoEntry /\ match[m].right # NoEntry

(* What a handler has read stays true: slots are never emptied, and the    *)
(* tournament does not go back to the status before its first vote.        *)
ReadsLast ==
  \A h \in Handlers : handler[h].stage \in {"read", "cached"} =>
    /\ My(h).entry \in {match[My(h).match].left, match[My(h).match].right}
    /\ handler[h].was = "READY" \/ status \in {"IN_PROGRESS", "COMPLETED"}

Inv ==
  /\ TypeOK /\ VotesName
  /\ SlotsHoldWinners /\ ResultFollowsVotes
  /\ DraftIsEmpty /\ FirstRoundIsFull /\ ReadsLast

(* The invariant holds in every initial state.                             *)
LEMMA InitInv == Init => Inv
  <1> SUFFICES ASSUME Init PROVE Inv
    OBVIOUS
  <1>1. /\ client = [c \in Clients |-> NoVote] /\ handler = [h \in Handlers |-> Idle]
        /\ match = [m \in Matches |-> Empty] /\ vote = [m \in Matches |-> NoEntry]
        /\ status = "DRAFT" /\ champion = NoEntry
    BY DEF Init
  <1>2. NoVote \in [match: Matches, entry: MaybeEntry, cached: BOOLEAN, voted: BOOLEAN, reply: Reply]
    BY FinalIsMatch DEF NoVote, MaybeEntry, Reply
  <1>3. Idle \in [stage: HandlerStage, client: Clients \cup {NoClient},
                  tries: 1 .. MaxTries, was: TournamentStatus, row: Row, next: Row]
    BY EmptyIsRow, TournamentAssumption DEF Idle, HandlerStage, TournamentStatus
  <1>4. TypeOK
    BY <1>1, <1>2, <1>3, EmptyIsRow, TournamentAssumption
      DEF TypeOK, TournamentStatus, MaybeEntry
  <1>5. VotesName
    BY <1>1 DEF VotesName, NoVote, Idle, Voting
  <1>6. SlotsHoldWinners
    BY <1>1, NextIsMatch DEF SlotsHoldWinners, NextSlot, Empty
  <1>7. ResultFollowsVotes
    BY <1>1, FinalIsMatch DEF ResultFollowsVotes, Decided, Empty
  <1>8. DraftIsEmpty /\ FirstRoundIsFull /\ ReadsLast
    BY <1>1 DEF DraftIsEmpty, FirstRoundIsFull, ReadsLast, Idle
  <1> QED BY <1>4, <1>5, <1>6, <1>7, <1>8 DEF Inv

-----------------------------------------------------------------------------
(* Steps and types *)

ClientRow == [match: Matches, entry: MaybeEntry, cached: BOOLEAN, voted: BOOLEAN, reply: Reply]
HandlerRow == [stage: HandlerStage, client: Clients \cup {NoClient},
               tries: 1 .. MaxTries, was: TournamentStatus, row: Row, next: Row]

(* An answer, or a note about the key, leaves the rest of a client alone.  *)
LEMMA ClientUpdates ==
  ASSUME NEW c \in ClientRow, NEW r \in Reply, NEW f \in {"cached", "voted"}
  PROVE  /\ Answered(c, r) \in ClientRow
         /\ Answered(c, r).match = c.match /\ Answered(c, r).entry = c.entry
         /\ [c EXCEPT ![f] = TRUE] \in ClientRow
         /\ [c EXCEPT ![f] = TRUE].match = c.match /\ [c EXCEPT ![f] = TRUE].entry = c.entry
  <1>1. /\ Answered(c, r) \in ClientRow
        /\ Answered(c, r).match = c.match /\ Answered(c, r).entry = c.entry
    <2>1. CASE c.reply \in {"none", "error"}
      <3>1. [c EXCEPT !.reply = r] \in ClientRow
        BY DEF ClientRow
      <3>2. [c EXCEPT !.reply = r].match = c.match /\ [c EXCEPT !.reply = r].entry = c.entry
        BY DEF ClientRow
      <3> QED BY <2>1, <3>1, <3>2 DEF Answered
    <2>2. CASE c.reply \notin {"none", "error"}
      BY <2>2 DEF Answered
    <2> QED BY <2>1, <2>2
  <1>2. CASE f = "cached"
    <2>1. [c EXCEPT !["cached"] = TRUE] \in ClientRow
      BY DEF ClientRow
    <2>2. [c EXCEPT !["cached"] = TRUE].match = c.match /\ [c EXCEPT !["cached"] = TRUE].entry = c.entry
      BY DEF ClientRow
    <2> QED BY <1>1, <1>2, <2>1, <2>2
  <1>3. CASE f = "voted"
    <2>1. [c EXCEPT !["voted"] = TRUE] \in ClientRow
      BY DEF ClientRow
    <2>2. [c EXCEPT !["voted"] = TRUE].match = c.match /\ [c EXCEPT !["voted"] = TRUE].entry = c.entry
      BY DEF ClientRow
    <2> QED BY <1>1, <1>3, <2>1, <2>2
  <1> QED BY <1>2, <1>3

(* An idle handler is a handler.                                           *)
LEMMA IdleTyped == Idle \in HandlerRow
  BY EmptyIsRow, TournamentAssumption DEF Idle, HandlerRow, HandlerStage, TournamentStatus

(* What a handler does to the clients: it leaves them alone, answers its   *)
(* own or notes that its key is used.                                      *)
Steady ==
  /\ client' \in [Clients -> ClientRow]
  /\ \A c \in Clients :
       /\ client'[c].match = client[c].match /\ client'[c].entry = client[c].entry
       /\ client'[c].reply \in {"none", "error"} =>
            client[c].reply \in {"none", "error"} \/ client[c].entry \in Entries

(* A handler that notes something at its client moves neither votes nor rows. *)
LEMMA ServingSteady ==
  ASSUME Inv, NEW h \in Handlers, handler[h].stage \in Voting, NEW c \in ClientRow,
         c.match = My(h).match, c.entry = My(h).entry,
         client' = [client EXCEPT ![handler[h].client] = c]
  PROVE  Steady
  <1> DEFINE k == handler[h].client
  <1>1. k \in Clients /\ client \in [Clients -> ClientRow] /\ client[k].entry \in Entries
    BY DEF Inv, TypeOK, ClientRow, VotesName, My
  <1>2. client' = [client EXCEPT ![k] = c] /\ c.match = client[k].match /\ c.entry = client[k].entry
    BY DEF My
  <1> HIDE DEF k
  <1> QED BY <1>1, <1>2 DEF Steady

(* A handler that votes serves a client with a match and an entry.         *)
LEMMA MyTyped ==
  ASSUME Inv, NEW h \in Handlers, handler[h].stage \in Voting
  PROVE  My(h) \in ClientRow /\ My(h).match \in Matches /\ My(h).entry \in Entries
  <1>1. handler[h].client \in Clients /\ client \in [Clients -> ClientRow] /\ My(h).entry \in Entries
    BY DEF Inv, TypeOK, ClientRow, VotesName
  <1>2. My(h) \in ClientRow
    BY <1>1 DEF My
  <1> QED BY <1>1, <1>2 DEF ClientRow

(* Answers and marks at the client served are such notes.                  *)
LEMMA MyUpdates ==
  ASSUME Inv, NEW h \in Handlers, handler[h].stage \in Voting,
         NEW r \in Reply, NEW f \in {"cached", "voted"},
         \/ Answer(h, r)
         \/ client' = [client EXCEPT ![handler[h].client] =
                         [Answered(My(h), r) EXCEPT ![f] = TRUE]]
         \/ client' = [client EXCEPT ![handler[h].client] = [My(h) EXCEPT ![f] = TRUE]]
  PROVE  Steady
  <1>1. My(h) \in ClientRow
    BY MyTyped
  <1> DEFINE a == Answered(My(h), r)
             b == [Answered(My(h), r) EXCEPT ![f] = TRUE]
             c == [My(h) EXCEPT ![f] = TRUE]
  <1>2. a \in ClientRow /\ a.match = My(h).match /\ a.entry = My(h).entry
    BY <1>1, ClientUpdates
  <1>3. b \in ClientRow /\ b.match = a.match /\ b.entry = a.entry
    <2> HIDE DEF a
    <2> SUFFICES /\ [a EXCEPT ![f] = TRUE] \in ClientRow
                 /\ [a EXCEPT ![f] = TRUE].match = a.match
                 /\ [a EXCEPT ![f] = TRUE].entry = a.entry
      BY DEF a
    <2> QED BY <1>2, ClientUpdates
  <1>4. c \in ClientRow /\ c.match = My(h).match /\ c.entry = My(h).entry
    BY <1>1, ClientUpdates
  <1>5. \/ client' = [client EXCEPT ![handler[h].client] = a]
        \/ client' = [client EXCEPT ![handler[h].client] = b]
        \/ client' = [client EXCEPT ![handler[h].client] = c]
    BY DEF Answer
  <1> HIDE DEF a, b, c
  <1> QED BY <1>2, <1>3, <1>4, <1>5, ServingSteady

(* The stages of a handler. *)
LEMMA StageUpdates ==
  ASSUME TypeOK, NEW h \in Handlers, NEW l \in HandlerStage, Serve(h, l) \/ Release(h)
  PROVE  /\ handler' \in [Handlers -> HandlerRow]
         /\ \A g \in Handlers : g # h => handler'[g] = handler[g]
         /\ handler'[h] = Idle \/ handler'[h] = [handler[h] EXCEPT !.stage = l]
  <1>1. handler \in [Handlers -> HandlerRow]
    BY DEF TypeOK, HandlerRow
  <1>2. [handler[h] EXCEPT !.stage = l] \in HandlerRow
    BY <1>1 DEF HandlerRow
  <1>3. handler' = [handler EXCEPT ![h] = [handler[h] EXCEPT !.stage = l]]
        \/ handler' = [handler EXCEPT ![h] = Idle]
    BY <1>1 DEF Serve, Release
  <1> QED BY <1>1, <1>2, <1>3, IdleTyped

(* The step of a handler in short. *)
LEMMA HandlerKeeps ==
  ASSUME Inv, NEW h \in Handlers, HandlerStep(h)
  PROVE  /\ Steady
         /\ handler' \in [Handlers -> HandlerRow]
         /\ \A g \in Handlers : g # h => handler'[g] = handler[g]
  <1> DEFINE Goal == /\ Steady /\ handler' \in [Handlers -> HandlerRow]
                     /\ \A g \in Handlers : g # h => handler'[g] = handler[g]
  <1>0. TypeOK /\ client \in [Clients -> ClientRow] /\ handler \in [Handlers -> HandlerRow]
    BY DEF Inv, TypeOK, ClientRow, HandlerRow
  <1>a. UNCHANGED client => Steady
    BY <1>0 DEF Steady
  <1>b. {"idle", "preparing", "begun", "missed", "read", "cached"} = HandlerStage
    BY DEF HandlerStage
  <1>c. {"accepted", "refused", "error"} \subseteq Reply
    BY DEF Reply
  <1>1. CASE PrepareReads(h) \/ PrepareCommits(h) \/ PrepareRefused(h) \/ MissesCache(h) \/ HandlerDies(h)
    <2>1. UNCHANGED client
      BY <1>1 DEF PrepareReads, PrepareCommits, PrepareRefused, MissesCache, HandlerDies
    <2>2. \E l \in HandlerStage : Serve(h, l) \/ Release(h)
      BY <1>1, <1>b DEF PrepareReads, PrepareCommits, PrepareRefused, MissesCache, HandlerDies
    <2> QED BY <1>0, <1>a, <2>1, <2>2, StageUpdates
  <1>2. CASE AnswersFromCache(h) \/ Refuses(h) \/ RefusedByKey(h)
    <2>1. handler[h].stage \in Voting /\ Release(h)
      BY <1>2 DEF AnswersFromCache, Refuses, RefusedByKey, Writes, Voting
    <2>2. PICK r \in Reply : Answer(h, r)
      BY <1>2, <1>c DEF AnswersFromCache, Refuses, RefusedByKey
    <2>3. Steady
      BY <2>1, <2>2, MyUpdates
    <2> QED BY <1>0, <1>b, <2>1, <2>3, StageUpdates
  <1>3. CASE AnswersFromVote(h)
    <2>1. handler[h].stage \in Voting /\ Release(h)
      BY <1>3 DEF AnswersFromVote, Voting
    <2>2. Steady
      <3>1. client' = [client EXCEPT ![handler[h].client] =
                         [Answered(My(h), "accepted") EXCEPT !["cached"] = TRUE]]
        BY <1>3 DEF AnswersFromVote
      <3> QED BY <1>c, <2>1, <3>1, MyUpdates
    <2> QED BY <1>0, <1>b, <2>1, <2>2, StageUpdates
  <1>4. CASE Commits(h)
    <2>1. handler[h].stage \in Voting /\ Release(h)
      BY <1>4 DEF Commits, Voting
    <2>2. Steady
      <3>1. client' = [client EXCEPT ![handler[h].client] =
                         [Answered(My(h), "accepted") EXCEPT !["voted"] = TRUE]]
        BY <1>4 DEF Commits
      <3> QED BY <1>c, <2>1, <3>1, MyUpdates
    <2> QED BY <1>0, <1>b, <2>1, <2>2, StageUpdates
  <1>5. CASE CachesKey(h)
    <2>1. handler[h].stage \in Voting /\ Serve(h, "cached")
      BY <1>5 DEF CachesKey, Voting
    <2>2. Steady
      <3>1. client' = [client EXCEPT ![handler[h].client] = [My(h) EXCEPT !["cached"] = TRUE]]
        BY <1>5 DEF CachesKey
      <3> QED BY <1>c, <2>1, <3>1, MyUpdates
    <2> QED BY <1>0, <1>b, <2>1, <2>2, StageUpdates
  <1>6. CASE Reads(h)
    <2>1. Steady
      BY <1>6, <1>a DEF Reads
    <2> DEFINE nx == IF My(h).match = Final THEN handler[h].next ELSE match[NextMatch(My(h).match)]
    <2> DEFINE rw == match[My(h).match]
    <2>2. nx \in Row /\ rw \in Row /\ status \in TournamentStatus
      <3>1. My(h).match \in Matches
        BY <1>0, <1>6 DEF Inv, VotesName, Voting, Reads, My, ClientRow
      <3> QED BY <1>0, <3>1, NextIsMatch DEF TypeOK, HandlerRow
    <2>3. handler' = [handler EXCEPT ![h] =
                        [handler[h] EXCEPT !.stage = "read", !.was = status, !.row = rw, !.next = nx]]
      BY <1>0, <1>6 DEF Reads
    <2> HIDE DEF nx, rw
    <2>4. [handler[h] EXCEPT !.stage = "read", !.was = status, !.row = rw, !.next = nx] \in HandlerRow
      BY <1>0, <1>b, <2>2 DEF HandlerRow
    <2> QED BY <1>0, <2>1, <2>3, <2>4
  <1>7. CASE Conflicts(h)
    <2>1. CASE handler[h].tries < MaxTries
      <3>1. handler' = [handler EXCEPT ![h] =
               [Idle EXCEPT !.stage = "begun", !.client = handler[h].client,
                            !.tries = handler[h].tries + 1]] /\ UNCHANGED client
        BY <1>7, <2>1 DEF Conflicts
      <3>2. handler[h].tries + 1 \in 1 .. MaxTries
        BY <1>0, <2>1, TournamentAssumption DEF HandlerRow
      <3>3. [Idle EXCEPT !.stage = "begun", !.client = handler[h].client,
                         !.tries = handler[h].tries + 1] \in HandlerRow
        BY <1>0, <1>b, <3>2, IdleTyped DEF HandlerRow
      <3> QED BY <1>0, <1>a, <3>1, <3>3
    <2>2. CASE ~(handler[h].tries < MaxTries)
      <3>1. Answer(h, "error") /\ Release(h) /\ handler[h].stage \in Voting
        BY <1>7, <2>2 DEF Conflicts, Writes, Voting
      <3>2. Steady
        BY <1>c, <3>1, MyUpdates
      <3> QED BY <1>0, <1>b, <3>1, <3>2, StageUpdates
    <2> QED BY <2>1, <2>2
  <1> QED BY <1>1, <1>2, <1>3, <1>4, <1>5, <1>6, <1>7 DEF HandlerStep
(* A handler that serves a vote after its step has served the same before. *)
LEMMA HandlerMoves ==
  ASSUME Inv, NEW h \in Handlers, HandlerStep(h), handler'[h].stage \in Voting
  PROVE  /\ handler[h].stage \in Voting /\ handler'[h].client = handler[h].client
         /\ handler'[h].stage \in {"read", "cached"} => Reads(h) \/ CachesKey(h)
  <1>0. TypeOK /\ handler \in [Handlers -> HandlerRow]
    BY DEF Inv, TypeOK, HandlerRow
  <1>1. Idle.stage = "idle"
    BY DEF Idle
  <1>2. ~Release(h)
    BY <1>0, <1>1 DEF Release, Voting
  <1>3. ~PrepareReads(h)
    BY <1>0 DEF PrepareReads, Serve, HandlerRow, Voting
  <1>4. CASE MissesCache(h)
    BY <1>0, <1>4 DEF MissesCache, Serve, HandlerRow, Voting
  <1>5. CASE CachesKey(h)
    BY <1>0, <1>5 DEF CachesKey, Serve, HandlerRow, Voting
  <1>6. CASE Reads(h)
    <2>1. handler[h].stage \in Voting
      BY <1>6 DEF Reads, Voting
    <2>2. handler'[h].client = handler[h].client
      BY <1>0, <1>6 DEF Reads, HandlerRow
    <2> QED BY <1>6, <2>1, <2>2
  <1>7. CASE Conflicts(h)
    <2>1. handler' = [handler EXCEPT ![h] =
             [Idle EXCEPT !.stage = "begun", !.client = handler[h].client,
                          !.tries = handler[h].tries + 1]]
      BY <1>2, <1>7 DEF Conflicts
    <2>2. handler'[h].stage = "begun" /\ handler'[h].client = handler[h].client
      BY <1>0, <2>1 DEF Idle
    <2> QED BY <1>7, <2>2 DEF Conflicts, Writes, Voting
  <1> QED BY <1>2, <1>3, <1>4, <1>5, <1>6, <1>7 DEF HandlerStep, PrepareCommits,
    PrepareRefused, AnswersFromCache, AnswersFromVote, Refuses, Commits, RefusedByKey, HandlerDies

(* Every step keeps the types.                                             *)
LEMMA TypeStep == Inv /\ Next => TypeOK'
  <1> SUFFICES ASSUME Inv, Next PROVE TypeOK'
    OBVIOUS
  <1>0. /\ TypeOK /\ client \in [Clients -> ClientRow] /\ handler \in [Handlers -> HandlerRow]
        /\ match \in [Matches -> Row]
    BY DEF Inv, TypeOK, ClientRow, HandlerRow
  <1>1. ASSUME NEW c \in Clients, Decides(c) PROVE TypeOK'
    <2>1. PICK m \in Matches : \E e \in Sides(m) :
            client' = [client EXCEPT ![c] = [NoVote EXCEPT !.match = m, !.entry = e, !.reply = "none"]]
      BY <1>1 DEF Decides
    <2>2. PICK e \in Sides(m) :
            client' = [client EXCEPT ![c] = [NoVote EXCEPT !.match = m, !.entry = e, !.reply = "none"]]
      BY <2>1
    <2>3. e \in MaybeEntry
      BY <1>0, <2>2 DEF Sides, Row
    <2>4. [NoVote EXCEPT !.match = m, !.entry = e, !.reply = "none"] \in ClientRow
      BY <2>3 DEF NoVote, ClientRow, Reply
    <2>5. client' \in [Clients -> ClientRow]
      BY <1>0, <2>2, <2>4
    <2> QED BY <1>0, <1>1, <2>5 DEF Decides, TypeOK, ClientRow, rows
  <1>2. ASSUME NEW c \in Clients, NEW h \in Handlers, Sends(c, h) PROVE TypeOK'
    <2>1. handler' = [handler EXCEPT ![h] = [Idle EXCEPT !.stage = "begun", !.client = c]]
      BY <1>2 DEF Sends
    <2>2. [Idle EXCEPT !.stage = "begun", !.client = c] \in HandlerRow
      BY IdleTyped DEF HandlerRow, HandlerStage
    <2>3. handler' \in [Handlers -> HandlerRow]
      BY <1>0, <2>1, <2>2
    <2> QED BY <1>0, <1>2, <2>3 DEF Sends, TypeOK, HandlerRow, rows
  <1>3. ASSUME NEW h \in Handlers, HandlerStep(h) PROVE TypeOK'
    <2>1. client' \in [Clients -> ClientRow] /\ handler' \in [Handlers -> HandlerRow]
      BY <1>3, HandlerKeeps DEF Steady
    <2>2. CASE PrepareCommits(h)
      <3>1. match' \in [Matches -> Row]
        BY <2>2, EmptyIsRow DEF PrepareCommits
      <3> QED BY <1>0, <2>1, <2>2, <3>1 DEF PrepareCommits, TypeOK, TournamentStatus, ClientRow, HandlerRow
    <2>3. CASE Commits(h)
      <3> DEFINE m == My(h).match
                 e == My(h).entry
                 n == NextMatch(m)
      <3>1. m \in Matches /\ e \in Entries /\ e \in MaybeEntry
        BY <2>3, MyTyped DEF Commits, Voting, MaybeEntry
      <3>2. handler[h].next \in Row /\ handler[h].was \in TournamentStatus
        BY <1>0 DEF HandlerRow
      <3>3. /\ vote' = [vote EXCEPT ![m] = e]
            /\ m = Final => match' = [match EXCEPT ![m].winner = e]
            /\ m # Final => match' = [match EXCEPT ![m].winner = e,
                                                  ![n] = PlaceWinner(handler[h].next, m, e)]
            /\ status' = IF m = Final \/ handler[h].was = "READY"
                         THEN StatusAfter(m, handler[h].was) ELSE status
            /\ champion' = IF m = Final THEN e ELSE champion
        BY <2>3 DEF Commits
      <3>4. m # Final => n \in Matches /\ PlaceWinner(handler[h].next, m, e) \in Row
        BY <3>1, <3>2, NextIsMatch, WinnerPlaced
      <3> HIDE DEF m, e, n
      <3>5. [match[m] EXCEPT !.winner = e] \in Row
        BY <1>0, <3>1 DEF Row
      <3>6. match' \in [Matches -> Row]
        BY <1>0, <3>1, <3>3, <3>4, <3>5
      <3>7. vote' \in [Matches -> MaybeEntry] /\ champion' \in MaybeEntry
        BY <1>0, <3>1, <3>3 DEF TypeOK
      <3>8. status' \in TournamentStatus
        BY <1>0, <3>2, <3>3 DEF TypeOK, StatusAfter, TournamentStatus
      <3> QED BY <1>0, <2>1, <3>3, <3>6, <3>7, <3>8 DEF TypeOK, ClientRow, HandlerRow
    <2>4. CASE UNCHANGED rows
      BY <1>0, <2>1, <2>4 DEF TypeOK, rows, ClientRow, HandlerRow
    <2>5. PrepareCommits(h) \/ Commits(h) \/ UNCHANGED rows
      BY <1>3 DEF HandlerStep, PrepareReads, PrepareRefused, AnswersFromCache, MissesCache,
        AnswersFromVote, Reads, Refuses, CachesKey, RefusedByKey, Conflicts, HandlerDies
    <2> QED BY <2>2, <2>3, <2>4, <2>5
  <1> QED BY <1>1, <1>2, <1>3 DEF Next
-----------------------------------------------------------------------------
(* The rows *)

(* The two transactions that write rows. *)
LEMMA RowWriters ==
  ASSUME Inv, Next
  PROVE  UNCHANGED rows \/ \E h \in Handlers : PrepareCommits(h) \/ Commits(h)
  BY DEF Next, HandlerStep, Decides, Sends, PrepareReads, PrepareRefused, AnswersFromCache,
    MissesCache, AnswersFromVote, Reads, Refuses, CachesKey, RefusedByKey, Conflicts, HandlerDies

(* What a committed vote finds and what it leaves. *)
CommitFacts(h) ==
  LET m == My(h).match
      e == My(h).entry
      n == NextMatch(m)
  IN /\ m \in Matches /\ e \in Entries /\ e # NoEntry
     /\ vote[m] = NoEntry /\ match[m].winner = NoEntry
     /\ e \in {match[m].left, match[m].right}
     /\ vote' = [vote EXCEPT ![m] = e]
     /\ match'[m] = [match[m] EXCEPT !.winner = e]
     /\ m # Final => /\ n \in Matches /\ n # m /\ match[n][NextSlot(m)] = NoEntry
                     /\ match'[n] = PlaceWinner(match[n], m, e)
     /\ \A k \in Matches \ {m} : m = Final \/ k # n => match'[k] = match[k]

(* What the commit of a vote writes.                                       *)
LEMMA CommitsRows ==
  ASSUME Inv, NEW h \in Handlers, Commits(h)
  PROVE  CommitFacts(h)
  <1> DEFINE m == My(h).match
             e == My(h).entry
             n == NextMatch(m)
  <1>0. match \in [Matches -> Row] /\ vote \in [Matches -> MaybeEntry]
    BY DEF Inv, TypeOK
  <1>1. m \in Matches /\ e \in Entries /\ e # NoEntry
    BY MyTyped, BracketAssumption DEF Commits, Voting
  <1>2. vote[m] = NoEntry /\ match[m].winner = NoEntry
    BY <1>1 DEF Commits, KeyIsFree, Inv, ResultFollowsVotes
  <1>3. e \in {match[m].left, match[m].right}
    BY DEF Inv, ReadsLast, Commits
  <1>4. vote' = [vote EXCEPT ![m] = e]
    BY DEF Commits
  <1>5. m # Final => n \in Matches /\ n # m
    BY <1>1, NextIsMatch
  <1>6. m # Final => match[n][NextSlot(m)] = NoEntry
    BY <1>1, <1>2 DEF Inv, SlotsHoldWinners
  <1>7. m = Final => match' = [match EXCEPT ![m].winner = e]
    BY DEF Commits
  <1>8. m # Final => match' = [match EXCEPT ![m].winner = e, ![n] = PlaceWinner(match[n], m, e)]
    BY DEF Commits, SameVersions
  <1> HIDE DEF m, e, n
  <1>9. match'[m] = [match[m] EXCEPT !.winner = e]
    BY <1>0, <1>1, <1>5, <1>7, <1>8
  <1>10. m # Final => match'[n] = PlaceWinner(match[n], m, e)
    BY <1>0, <1>1, <1>5, <1>8
  <1>11. \A k \in Matches \ {m} : m = Final \/ k # n => match'[k] = match[k]
    BY <1>0, <1>1, <1>5, <1>7, <1>8
  <1> QED BY <1>1, <1>2, <1>3, <1>4, <1>5, <1>6, <1>9, <1>10, <1>11 DEF CommitFacts, m, e, n

(* A commit changes sides and winners as follows. *)
LEMMA CommitsSides ==
  ASSUME Inv, NEW h \in Handlers, Commits(h), NEW k \in Matches
  PROVE  LET m == My(h).match
             e == My(h).entry
         IN /\ match'[k].winner = IF k = m THEN e ELSE match[k].winner
            /\ \A s \in {"left", "right"} :
                 match'[k][s] = IF m # Final /\ k = NextMatch(m) /\ s = NextSlot(m)
                                THEN e ELSE match[k][s]
  <1> DEFINE m == My(h).match
             e == My(h).entry
             n == NextMatch(m)
  <1>0. match \in [Matches -> Row] /\ CommitFacts(h)
    BY CommitsRows DEF Inv, TypeOK
  <1>1. /\ m \in Matches /\ e \in Entries
        /\ match'[m] = [match[m] EXCEPT !.winner = e]
        /\ m # Final => n \in Matches /\ n # m /\ match'[n] = PlaceWinner(match[n], m, e)
        /\ \A j \in Matches \ {m} : m = Final \/ j # n => match'[j] = match[j]
    BY <1>0 DEF CommitFacts
  <1> SUFFICES /\ match'[k].winner = IF k = m THEN e ELSE match[k].winner
               /\ \A s \in {"left", "right"} :
                    match'[k][s] = IF m # Final /\ k = n /\ s = NextSlot(m) THEN e ELSE match[k][s]
    OBVIOUS
  <1> HIDE DEF m, e, n
  <1>2. CASE k = m
    BY <1>0, <1>1, <1>2 DEF Row
  <1>3. CASE k # m /\ m # Final /\ k = n
    BY <1>0, <1>1, <1>3, WinnerPlaced
  <1>4. CASE k # m /\ (m = Final \/ k # n)
    BY <1>1, <1>4
  <1> QED BY <1>2, <1>3, <1>4

(* Slots and votes are never emptied or changed, and the status does not   *)
(* go back.                                                                *)
VotesStay ==
  \A m \in Matches :
    /\ vote[m] # NoEntry => vote'[m] = vote[m]
    /\ match[m].left # NoEntry => match'[m].left = match[m].left
    /\ match[m].right # NoEntry => match'[m].right = match[m].right

(* No step takes back a vote or an entry of a match.                       *)
LEMMA RowsStay == Inv /\ [Next]_vars => VotesStay
  <1> SUFFICES ASSUME Inv, [Next]_vars, NEW m \in Matches
               PROVE  /\ vote[m] # NoEntry => vote'[m] = vote[m]
                      /\ match[m].left # NoEntry => match'[m].left = match[m].left
                      /\ match[m].right # NoEntry => match'[m].right = match[m].right
    BY DEF VotesStay
  <1>1. CASE UNCHANGED rows
    BY <1>1 DEF rows
  <1>2. ASSUME NEW h \in Handlers, PrepareCommits(h)
        PROVE  UNCHANGED vote /\ match[m] = Empty
    BY <1>2 DEF PrepareCommits, Inv, DraftIsEmpty
  <1>3. ASSUME NEW h \in Handlers, Commits(h)
        PROVE  /\ vote[m] # NoEntry => vote'[m] = vote[m]
               /\ match[m].left # NoEntry => match'[m].left = match[m].left
               /\ match[m].right # NoEntry => match'[m].right = match[m].right
    <2> DEFINE k == My(h).match
    <2>1. /\ vote[k] = NoEntry /\ vote' = [vote EXCEPT ![k] = My(h).entry]
          /\ k # Final => match[NextMatch(k)][NextSlot(k)] = NoEntry
      BY <1>3, CommitsRows DEF CommitFacts
    <2>2. \A s \in {"left", "right"} :
            match'[m][s] = IF k # Final /\ m = NextMatch(k) /\ s = NextSlot(k)
                           THEN My(h).entry ELSE match[m][s]
      BY <1>3, CommitsSides
    <2> HIDE DEF k
    <2>3. vote[m] # NoEntry => vote'[m] = vote[m]
      BY <2>1 DEF Inv, TypeOK
    <2>4. \A s \in {"left", "right"} : match[m][s] # NoEntry => match'[m][s] = match[m][s]
      BY <2>1, <2>2
    <2> QED BY <2>3, <2>4
  <1>4. CASE UNCHANGED vars
    BY <1>4 DEF vars
  <1> QED BY <1>1, <1>2, <1>3, <1>4, RowWriters DEF Empty
(* What the commit of a preparation writes.                                *)
LEMMA PlannedRows ==
  ASSUME Inv, NEW h \in Handlers, PrepareCommits(h)
  PROVE  /\ \A m \in Matches : match'[m].winner = NoEntry /\ vote[m] = NoEntry
         /\ \A m \in Matches \ {Final} : match'[NextMatch(m)] = Empty
         /\ champion = NoEntry /\ UNCHANGED <<vote, champion>> /\ status' = "READY"
  <1>1. \A m \in Matches : match[m] = Empty /\ match'[m] = Planned(m)
    BY DEF PrepareCommits, Inv, DraftIsEmpty
  <1>2. \A m \in Matches : vote[m] = NoEntry
    BY <1>1 DEF Inv, ResultFollowsVotes, Empty
  <1>3. \A m \in Matches \ {Final} : NextMatch(m) \in Matches /\ NextMatch(m)[1] # 1
    <2> SUFFICES ASSUME NEW m \in Matches \ {Final}
                 PROVE  NextMatch(m) \in Matches /\ NextMatch(m)[1] # 1
      OBVIOUS
    <2>1. m[1] \in 1 .. Rounds /\ Rounds \in Nat
      BY MatchTyped, BracketAssumption DEF Rounds
    <2> QED BY <2>1, NextIsMatch DEF NextMatch
  <1>4. \A m \in Matches : Planned(m).winner = NoEntry
    BY DEF Planned, Empty
  <1> QED BY <1>1, <1>2, <1>3, <1>4, FinalIsMatch DEF PrepareCommits, Planned, Inv, ResultFollowsVotes

(* Every step keeps the winners in their slots.                            *)
LEMMA SlotsStep == Inv /\ Next => SlotsHoldWinners'
  <1> SUFFICES ASSUME Inv, Next, NEW m \in Matches \ {Final}
               PROVE  match'[NextMatch(m)][NextSlot(m)] = match'[m].winner
    BY DEF SlotsHoldWinners
  <1>0. NextMatch(m) \in Matches /\ NextMatch(m) # m /\ NextSlot(m) \in {"left", "right"}
    BY NextIsMatch DEF NextSlot
  <1>1. CASE UNCHANGED rows
    BY <1>1 DEF Inv, SlotsHoldWinners, rows
  <1>2. ASSUME NEW h \in Handlers, PrepareCommits(h)
        PROVE  match'[NextMatch(m)][NextSlot(m)] = match'[m].winner
    BY <1>0, <1>2, PlannedRows DEF Empty
  <1>3. ASSUME NEW h \in Handlers, Commits(h)
        PROVE  match'[NextMatch(m)][NextSlot(m)] = match'[m].winner
    <2> DEFINE k == My(h).match
    <2>0. k \in Matches
      BY <1>3, CommitsRows DEF CommitFacts
    <2>1. match'[m].winner = IF m = k THEN My(h).entry ELSE match[m].winner
      BY <1>3, CommitsSides
    <2>2. match'[NextMatch(m)][NextSlot(m)] =
            IF k # Final /\ NextMatch(m) = NextMatch(k) /\ NextSlot(m) = NextSlot(k)
            THEN My(h).entry ELSE match[NextMatch(m)][NextSlot(m)]
      BY <1>0, <1>3, CommitsSides
    <2>3. match[NextMatch(m)][NextSlot(m)] = match[m].winner
      BY DEF Inv, SlotsHoldWinners
    <2>4. NextMatch(m) = NextMatch(k) /\ NextSlot(m) = NextSlot(k) => m = k
      BY <2>0, FeedersDiffer
    <2> QED BY <2>1, <2>2, <2>3, <2>4
  <1> QED BY <1>1, <1>2, <1>3, RowWriters

(* Every step keeps a draft without rows.                                  *)
LEMMA DraftStep == Inv /\ Next => DraftIsEmpty'
  <1> SUFFICES ASSUME Inv, Next PROVE DraftIsEmpty'
    OBVIOUS
  <1>1. CASE UNCHANGED rows
    BY <1>1 DEF Inv, DraftIsEmpty, rows
  <1>2. ASSUME NEW h \in Handlers, PrepareCommits(h) PROVE DraftIsEmpty'
    BY <1>2, PlannedRows DEF DraftIsEmpty
  <1>3. ASSUME NEW h \in Handlers, Commits(h) PROVE DraftIsEmpty'
    <2>1. status # "DRAFT"
      <3> DEFINE k == My(h).match
                 e == My(h).entry
      <3>1. k \in Matches /\ e # NoEntry /\ e \in {match[k].left, match[k].right}
        BY <1>3, CommitsRows DEF CommitFacts
      <3> HIDE DEF k, e
      <3> QED BY <3>1 DEF Inv, DraftIsEmpty, Empty
    <2> QED BY <1>3, <2>1 DEF Commits, StatusAfter, DraftIsEmpty
  <1> QED BY <1>1, <1>2, <1>3, RowWriters

(* Every step keeps the first round full once it is planned.               *)
LEMMA FirstRoundStep == Inv /\ Next => FirstRoundIsFull'
  <1> SUFFICES ASSUME Inv, Next, status' # "DRAFT", NEW m \in Matches, m[1] = 1
               PROVE  match'[m].left # NoEntry /\ match'[m].right # NoEntry
    BY DEF FirstRoundIsFull
  <1>1. VotesStay
    BY RowsStay
  <1>2. CASE status # "DRAFT"
    BY <1>1, <1>2 DEF Inv, FirstRoundIsFull, VotesStay
  <1>3. CASE status = "DRAFT"
    <2>1. PICK h \in Handlers : PrepareCommits(h) \/ Commits(h)
      BY <1>3, RowWriters DEF rows
    <2>2. ~Commits(h)
      <3> SUFFICES ASSUME Commits(h) PROVE FALSE
        OBVIOUS
      <3> DEFINE k == My(h).match
                 e == My(h).entry
      <3>1. k \in Matches /\ e # NoEntry /\ e \in {match[k].left, match[k].right}
        BY CommitsRows DEF CommitFacts
      <3> HIDE DEF k, e
      <3> QED BY <1>3, <3>1 DEF Inv, DraftIsEmpty, Empty
    <2>3. match'[m] = Planned(m)
      BY <2>1, <2>2 DEF PrepareCommits
    <2>4. 2 * m[2] \in Entries /\ 2 * m[2] + 1 \in Entries
      BY MatchTyped, BracketAssumption DEF Entries
    <2> QED BY <2>3, <2>4, BracketAssumption DEF Planned, Empty
  <1> QED BY <1>2, <1>3

(* A commit finds the status that its handler has read, or a later one.    *)
LEMMA CommitsStatus ==
  ASSUME Inv, NEW h \in Handlers, Commits(h)
  PROVE  IF My(h).match = Final THEN status' = "COMPLETED"
         ELSE /\ status' \in {"IN_PROGRESS", "COMPLETED"}
              /\ status' = "COMPLETED" <=> status = "COMPLETED"
  <1>1. handler[h].was = "READY" \/ status \in {"IN_PROGRESS", "COMPLETED"}
    BY DEF Commits, Inv, ReadsLast
  <1>2. handler[h].was = "READY" => status = "READY"
    BY DEF Commits, SameVersions
  <1> QED BY <1>1, <1>2 DEF Commits, StatusAfter

(* Every step keeps votes, winners and champion in one story.              *)
LEMMA ResultStep == Inv /\ Next => ResultFollowsVotes'
  <1> SUFFICES ASSUME Inv, Next PROVE ResultFollowsVotes'
    OBVIOUS
  <1>1. CASE UNCHANGED rows
    BY <1>1 DEF Inv, ResultFollowsVotes, Decided, Sides, rows
  <1>2. ASSUME NEW h \in Handlers, PrepareCommits(h) PROVE ResultFollowsVotes'
    BY <1>2, PlannedRows, FinalIsMatch DEF ResultFollowsVotes, Decided
  <1>3. ASSUME NEW h \in Handlers, Commits(h) PROVE ResultFollowsVotes'
    <2> DEFINE k == My(h).match
               e == My(h).entry
    <2>0. /\ k \in Matches /\ e \in Entries /\ e # NoEntry /\ vote' = [vote EXCEPT ![k] = e]
          /\ e \in {match[k].left, match[k].right} /\ vote \in [Matches -> MaybeEntry]
          /\ VotesStay
      BY <1>3, CommitsRows, RowsStay DEF CommitFacts, Inv, TypeOK
    <2>1. \A m \in Matches : match'[m].winner = IF m = k THEN e ELSE match[m].winner
      BY <1>3, CommitsSides
    <2>2. ResultFollowsVotes
      BY DEF Inv
    <2>3. champion' = IF k = Final THEN e ELSE champion
      BY <1>3 DEF Commits
    <2>4. IF k = Final THEN status' = "COMPLETED"
          ELSE /\ status' \in {"IN_PROGRESS", "COMPLETED"}
               /\ status' = "COMPLETED" <=> status = "COMPLETED"
      BY <1>3, CommitsStatus
    <2> HIDE DEF k, e
    <2>5. \A m \in Matches : match'[m].winner = vote'[m]
      BY <2>0, <2>1, <2>2 DEF ResultFollowsVotes
    <2>6. \A m \in Matches : match'[m].winner # NoEntry =>
            match'[m].winner \in {match'[m].left, match'[m].right} \ {NoEntry}
      <3> SUFFICES ASSUME NEW m \in Matches, match'[m].winner # NoEntry
                   PROVE  match'[m].winner \in {match'[m].left, match'[m].right}
        OBVIOUS
      <3>1. match'[m].winner \in {match[m].left, match[m].right}
        BY <2>0, <2>1, <2>2 DEF ResultFollowsVotes, Decided, Sides
      <3> QED BY <2>0, <3>1 DEF VotesStay
    <2>7. champion' = vote'[Final]
      BY <2>0, <2>2, <2>3, FinalIsMatch DEF ResultFollowsVotes
    <2>8. status' = "COMPLETED" <=> match'[Final].winner # NoEntry
      BY <2>0, <2>1, <2>2, <2>4, FinalIsMatch DEF ResultFollowsVotes, Decided
    <2>9. status' \notin {"DRAFT", "READY"} /\ match'[k].winner # NoEntry
      BY <2>0, <2>1, <2>4
    <2>10. Decided' = {m \in Matches : match'[m].winner # NoEntry}
           /\ \A m \in Matches : Sides(m)' = {match'[m].left, match'[m].right} \ {NoEntry}
      BY DEF Decided, Sides
    <2> QED BY <2>0, <2>5, <2>6, <2>7, <2>8, <2>9, <2>10, FinalIsMatch DEF ResultFollowsVotes
  <1> QED BY <1>1, <1>2, <1>3, RowWriters
(* A tournament under way stays so until it is completed.                  *)
LEMMA StatusOnward ==
  ASSUME Inv, Next, status \in {"IN_PROGRESS", "COMPLETED"}
  PROVE  status' \in {"IN_PROGRESS", "COMPLETED"}
  <1>1. ASSUME NEW h \in Handlers, Commits(h) PROVE status' \in {"IN_PROGRESS", "COMPLETED"}
    BY <1>1, CommitsStatus
  <1>2. ASSUME NEW h \in Handlers, PrepareCommits(h) PROVE FALSE
    BY <1>2 DEF PrepareCommits
  <1> QED BY <1>1, <1>2, RowWriters DEF rows

(* A client decides while none of its requests is served. *)
LEMMA DecidesApart ==
  ASSUME Inv, NEW c \in Clients, Decides(c)
  PROVE  /\ \A h \in Handlers : handler[h].stage \in Voting => My(h)' = My(h)
         /\ \A k \in Clients : k # c => client'[k] = client[k]
         /\ client'[c].entry \in Entries /\ UNCHANGED handler
  <1>0. client \in [Clients -> ClientRow] /\ match \in [Matches -> Row] /\ UNCHANGED handler
    BY DEF Inv, TypeOK, ClientRow, Decides
  <1>1. PICK m \in Matches : \E e \in Sides(m) :
          client' = [client EXCEPT ![c] = [NoVote EXCEPT !.match = m, !.entry = e, !.reply = "none"]]
    BY DEF Decides
  <1>2. PICK e \in Sides(m) :
          client' = [client EXCEPT ![c] = [NoVote EXCEPT !.match = m, !.entry = e, !.reply = "none"]]
    BY <1>1
  <1>3. e \in Entries
    BY <1>0, <1>2 DEF Sides, Row, MaybeEntry
  <1>4. client'[c].entry = e
    BY <1>0, <1>2 DEF NoVote
  <1>5. \A h \in Handlers : handler[h].stage \in Voting =>
          handler[h].client \in Clients /\ handler[h].client # c
    BY DEF Decides, Serving, Voting, Inv, VotesName
  <1> QED BY <1>0, <1>2, <1>3, <1>4, <1>5 DEF My

(* A client's request touches its own handler only.                        *)
LEMMA SendsApart ==
  ASSUME Inv, NEW c \in Clients, NEW h \in Handlers, Sends(c, h)
  PROVE  /\ UNCHANGED client /\ \A g \in Handlers : g # h => handler'[g] = handler[g]
         /\ handler'[h].stage = "begun" /\ handler'[h].client = c
         /\ client[c].entry \in Entries
  <1>1. handler \in [Handlers -> HandlerRow]
    BY DEF Inv, TypeOK, HandlerRow
  <1>2. handler' = [handler EXCEPT ![h] = [Idle EXCEPT !.stage = "begun", !.client = c]]
    BY DEF Sends
  <1>3. client[c].entry \in Entries /\ UNCHANGED client
    BY DEF Sends, Inv, VotesName
  <1> QED BY <1>1, <1>2, <1>3 DEF Idle

(* Every step keeps the votes naming an entry.                             *)
LEMMA NamesStep == Inv /\ Next => VotesName'
  <1> SUFFICES ASSUME Inv, Next PROVE VotesName'
    OBVIOUS
  <1>0. VotesName
    BY DEF Inv
  <1>1. ASSUME NEW c \in Clients, Decides(c) PROVE VotesName'
    BY <1>0, <1>1, DecidesApart DEF VotesName
  <1>2. ASSUME NEW c \in Clients, NEW h \in Handlers, Sends(c, h) PROVE VotesName'
    BY <1>0, <1>2, SendsApart DEF VotesName, My
  <1>3. ASSUME NEW h \in Handlers, HandlerStep(h) PROVE VotesName'
    <2>1. Steady /\ \A g \in Handlers : g # h => handler'[g] = handler[g]
      BY <1>3, HandlerKeeps
    <2>2. handler'[h].stage \in Voting =>
            handler[h].stage \in Voting /\ handler'[h].client = handler[h].client
      BY <1>3, HandlerMoves
    <2>3. \A g \in Handlers : handler'[g].stage \in Voting =>
            handler[g].stage \in Voting /\ handler'[g].client = handler[g].client
      BY <2>1, <2>2
    <2> QED BY <1>0, <2>1, <2>3 DEF VotesName, Steady, My
  <1> QED BY <1>1, <1>2, <1>3 DEF Next

(* What one handler has read. *)
Lasts(g) ==
  handler[g].stage \in {"read", "cached"} =>
    /\ My(g).entry \in {match[My(g).match].left, match[My(g).match].right}
    /\ handler[g].was = "READY" \/ status \in {"IN_PROGRESS", "COMPLETED"}

(* A handler that keeps its vote and what it has read. *)
LEMMA LastsOn ==
  ASSUME Inv, Next, NEW g \in Handlers, handler[g].stage \in {"read", "cached"},
         handler'[g].client = handler[g].client, handler'[g].was = handler[g].was,
         My(g)'.match = My(g).match, My(g)'.entry = My(g).entry
  PROVE  Lasts(g)'
  <1> DEFINE m == My(g).match
             e == My(g).entry
  <1>1. m \in Matches /\ e # NoEntry
    BY MyTyped, BracketAssumption DEF Voting
  <1>2. e \in {match[m].left, match[m].right}
        /\ (handler[g].was = "READY" \/ status \in {"IN_PROGRESS", "COMPLETED"})
    BY DEF Inv, ReadsLast
  <1>3. e \in {match'[m].left, match'[m].right}
    BY <1>1, <1>2, RowsStay DEF VotesStay
  <1>4. handler'[g].was = "READY" \/ status' \in {"IN_PROGRESS", "COMPLETED"}
    BY <1>2, StatusOnward
  <1> QED BY <1>3, <1>4 DEF Lasts

(* Every step keeps true what a handler has read.                          *)
LEMMA ReadsStep == Inv /\ Next => ReadsLast'
  <1> SUFFICES ASSUME Inv, Next, NEW g \in Handlers, handler'[g].stage \in {"read", "cached"}
               PROVE  Lasts(g)'
    BY DEF ReadsLast, Lasts
  <1>0. handler \in [Handlers -> HandlerRow]
    BY DEF Inv, TypeOK, HandlerRow
  <1>1. ASSUME NEW c \in Clients, Decides(c) PROVE Lasts(g)'
    BY <1>1, DecidesApart, LastsOn DEF Voting
  <1>2. ASSUME NEW c \in Clients, NEW h \in Handlers, Sends(c, h) PROVE Lasts(g)'
    <2>1. g # h /\ handler'[g] = handler[g] /\ UNCHANGED client
      BY <1>2, SendsApart
    <2> QED BY <2>1, LastsOn DEF My
  <1>3. ASSUME NEW h \in Handlers, HandlerStep(h) PROVE Lasts(g)'
    <2>1. Steady
      BY <1>3, HandlerKeeps
    <2>2. CASE g # h
      <3>1. handler'[g] = handler[g]
        BY <1>3, <2>2, HandlerKeeps
      <3>2. handler[g].client \in Clients
        BY <3>1 DEF Inv, VotesName, Voting
      <3> QED BY <2>1, <3>1, <3>2, LastsOn DEF Steady, My
    <2>3. CASE g = h
      <3>0. /\ handler[h].stage \in Voting /\ handler'[h].client = handler[h].client
            /\ Reads(h) \/ CachesKey(h)
        BY <1>3, <2>3, HandlerMoves DEF Voting
      <3>1. CASE CachesKey(h)
        <4>1. handler[h].stage = "read" /\ handler'[h].was = handler[h].was
          BY <1>0, <3>1 DEF CachesKey, Serve, HandlerRow
        <4>2. handler[h].client \in Clients
          BY <3>0 DEF Inv, VotesName
        <4> QED BY <2>1, <2>3, <3>0, <4>1, <4>2, LastsOn DEF Steady, My
      <3>2. CASE Reads(h)
        <4>1. /\ My(h).entry \in {match[My(h).match].left, match[My(h).match].right}
              /\ UNCHANGED <<match, status, client>>
          BY <3>2 DEF Reads, Allowed, rows
        <4>2. handler'[h].was = status
          BY <1>0, <3>2 DEF Reads, HandlerRow
        <4>3. My(h).match \in Matches /\ My(h).entry # NoEntry
          BY <3>0, MyTyped, BracketAssumption
        <4>4. status # "DRAFT"
          BY <4>1, <4>3 DEF Inv, DraftIsEmpty, Empty
        <4>5. status \in TournamentStatus
          BY DEF Inv, TypeOK
        <4> QED BY <2>3, <3>0, <4>1, <4>2, <4>4, <4>5 DEF Lasts, My, TournamentStatus
      <3> QED BY <3>0, <3>1, <3>2
    <2> QED BY <2>2, <2>3
  <1> QED BY <1>1, <1>2, <1>3 DEF Next

-----------------------------------------------------------------------------
(* Going on *)

(* A set of numbers has a least one. *)
LEMMA LeastNatural ==
  ASSUME NEW T \in SUBSET Nat, T # {}
  PROVE  \E n \in T : \A m \in T : n <= m
  <1> DEFINE R == {ss \in Nat \X Nat : ss[1] < ss[2]}
  <1>1. IsWellFoundedOn(R, Nat)
    BY NatLessThanWellFounded DEF OpToRel
  <1> HIDE DEF R
  <1>2. PICK x \in T : \A y \in T : <<y, x>> \notin R
    BY <1>1, WFMin
  <1>3. ASSUME NEW y \in T PROVE x <= y
    <2>1. <<y, x>> \in Nat \X Nat
      OBVIOUS
    <2>2. ~(y < x)
      BY <1>2, <2>1 DEF R
    <2> QED BY <2>2
  <1> QED BY <1>3

(* Each slot after the first round is fed by a match of the round before.  *)
LEMMA FedByTheRoundBefore ==
  ASSUME NEW m \in Matches, m[1] # 1, NEW s \in {"left", "right"}
  PROVE  \E f \in Matches \ {Final} : f[1] = m[1] - 1 /\ NextMatch(f) = m /\ NextSlot(f) = s
  <1> DEFINE f == <<m[1] - 1, IF s = "left" THEN 2 * m[2] ELSE 2 * m[2] + 1>>
  <1>0. Rounds \in Nat
    BY BracketAssumption DEF Rounds
  <1>1. m = <<m[1], m[2]>> /\ m[1] \in 1 .. Rounds /\ m[2] \in Nat /\ m[2] < Sizes[m[1]]
    BY MatchTyped
  <1>2. m[1] - 1 \in 1 .. Rounds - 1 /\ m[1] - 1 \in 1 .. Rounds /\ (m[1] - 1) + 1 = m[1]
    BY <1>0, <1>1
  <1>3. Sizes[m[1] - 1] = 2 * Sizes[m[1]] /\ Sizes[m[1]] \in Nat
    BY <1>1, <1>2, BracketAssumption DEF Rounds
  <1>4. f[1] = m[1] - 1 /\ f[2] = (IF s = "left" THEN 2 * m[2] ELSE 2 * m[2] + 1)
    OBVIOUS
  <1>5. f[2] \in 0 .. Sizes[m[1] - 1] - 1 /\ f[2] \div 2 = m[2] /\ (f[2] % 2 = 0 <=> s = "left")
    BY <1>1, <1>3, <1>4
  <1>6. f \in Matches
    <2>1. f \in {m[1] - 1} \X (0 .. Sizes[m[1] - 1] - 1)
      BY <1>5
    <2> HIDE DEF f
    <2> QED BY <1>2, <2>1 DEF Matches
  <1>7. f # Final
    BY <1>0, <1>2 DEF Final
  <1> HIDE DEF f
  <1>8. NextMatch(f) = m /\ NextSlot(f) = s
    BY <1>1, <1>2, <1>4, <1>5 DEF NextMatch, NextSlot
  <1> QED BY <1>4, <1>6, <1>7, <1>8

(* Of the matches without a winner one of the earliest has both sides.     *)
LEMMA EarliestIsPlayable ==
  ASSUME Inv, status \in {"READY", "IN_PROGRESS"}
  PROVE  \E m \in Matches : Playable(m)
  <1> DEFINE open == {m \in Matches : match[m].winner = NoEntry}
             T == {m[1] : m \in open}
  <1>1. Final \in open
    BY FinalIsMatch DEF Inv, ResultFollowsVotes, Decided
  <1>2. T \in SUBSET Nat /\ T # {}
    BY <1>1, MatchTyped
  <1>3. PICK n \in T : \A k \in T : n <= k
    BY <1>2, LeastNatural
  <1>4. PICK m \in open : m[1] = n
    OBVIOUS
  <1>5. m \in Matches /\ match[m].winner = NoEntry /\ m[1] \in Nat
    BY <1>2, <1>4
  <1>6. match[m].left # NoEntry /\ match[m].right # NoEntry
    <2>1. CASE m[1] = 1
      BY <1>5, <2>1 DEF Inv, FirstRoundIsFull
    <2>2. CASE m[1] # 1
      <3>1. ASSUME NEW s \in {"left", "right"} PROVE match[m][s] # NoEntry
        <4>1. PICK f \in Matches \ {Final} : f[1] = m[1] - 1 /\ NextMatch(f) = m /\ NextSlot(f) = s
          BY <1>5, <2>2, FedByTheRoundBefore
        <4>2. f \notin open
          <5>1. ~(n <= f[1])
            BY <1>4, <1>5, <4>1
          <5> QED BY <1>3, <5>1
        <4>3. match[f].winner # NoEntry
          BY <4>2
        <4> QED BY <4>1, <4>3 DEF Inv, SlotsHoldWinners
      <3>2. match[m]["left"] # NoEntry /\ match[m]["right"] # NoEntry
        BY <3>1
      <3> QED BY <3>2
    <2> QED BY <2>1, <2>2
  <1> QED BY <1>5, <1>6 DEF Playable, Sides

-----------------------------------------------------------------------------
(* Every step keeps the invariant.                                         *)
LEMMA NextInv == Inv /\ [Next]_vars => Inv'
  <1> SUFFICES ASSUME Inv, [Next]_vars PROVE Inv'
    OBVIOUS
  <1>1. CASE Next
    BY <1>1, TypeStep, NamesStep, SlotsStep, ResultStep, DraftStep, FirstRoundStep, ReadsStep DEF Inv
  <1>2. CASE UNCHANGED vars
    BY <1>2 DEF vars, Inv, TypeOK, VotesName, My, SlotsHoldWinners, ResultFollowsVotes,
      Decided, Sides, DraftIsEmpty, FirstRoundIsFull, ReadsLast
  <1> QED BY <1>1, <1>2

(* The invariant holds throughout.                                         *)
LEMMA AlwaysInv == Spec => []Inv
  BY InitInv, NextInv, PTL DEF Spec

(* Every reachable state is well typed. *)
THEOREM TypeCorrect == Spec => []TypeOK
  BY AlwaysInv, PTL DEF Inv

(* The winner of every match stands in its slot of the next one, whatever  *)
(* votes race for the row.                                                 *)
THEOREM SlotsHold == Spec => []SlotsHoldWinners
  BY AlwaysInv, PTL DEF Inv

(* Matches, votes, status and champion tell one story. *)
THEOREM ResultFollows == Spec => []ResultFollowsVotes
  BY AlwaysInv, PTL DEF Inv

(* A tournament that is not over always has a match to vote on: among the  *)
(* earliest undecided ones, whose feeders are all decided.                 *)
THEOREM CanGoOn == Spec => []SomeMatchIsPlayable
  <1>1. Inv => SomeMatchIsPlayable
    BY EarliestIsPlayable DEF SomeMatchIsPlayable
  <1> QED BY <1>1, AlwaysInv, PTL

(* Votes and filled slots are never changed. *)
THEOREM VotesFinal == Spec => VotesAreFinal
  <1>1. Inv /\ [Next]_vars => [VotesStay]_vars
    BY RowsStay
  <1>2. VotesStay <=> \A m \in Matches :
          /\ vote[m] # NoEntry => vote'[m] = vote[m]
          /\ match[m].left # NoEntry => match'[m].left = match[m].left
          /\ match[m].right # NoEntry => match'[m].right = match[m].right
    BY DEF VotesStay
  <1> QED BY AlwaysInv, <1>1, <1>2, PTL DEF Spec, VotesAreFinal
=============================================================================
