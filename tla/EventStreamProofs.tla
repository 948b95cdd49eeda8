-------------------------- MODULE EventStreamProofs --------------------------
(***************************************************************************)
(* Proofs about the event log and the client that follows it, for any      *)
(* number of writers, events, reconnects and broken connections.           *)
(***************************************************************************)
EXTENDS EventStream, TLAPS

USE EventsAssumption, StreamAssumption

(* The row and the events keep their types in every transaction. *)
LEMMA EventsTyped ==
  ASSUME EventsTypeOK, EventsNext
  PROVE  EventsTypeOK'
<1>1. PICK x \in Writers : WriterStep(x)
  BY DEF EventsNext
<1>2. ASSUME NEW k \in Kinds, Checks(x, k)
      PROVE  EventsTypeOK'
  BY <1>2 DEF Checks, EventsTypeOK, TxStage, TxKind, Status
<1>3. ASSUME NEW k \in Kinds, LocksFirst(x, k)
      PROVE  EventsTypeOK'
  BY <1>3 DEF LocksFirst, Row, EventsTypeOK, TxStage, TxKind
<1>4. ASSUME NEW k \in Kinds, ReadsFirst(x, k)
      PROVE  EventsTypeOK'
  BY <1>4 DEF ReadsFirst, Row, EventsTypeOK, TxStage, TxKind
<1>5. CASE LocksLater(x)
  BY <1>5 DEF LocksLater, EventsTypeOK, TxStage
<1>6. CASE CommitsEvent(x)
  <2>1. tx[x].kind \in TxKind \ {"resume"} /\ tx[x].was \in Status /\ tx[x].seq \in Nat \ {0}
    BY <1>6 DEF CommitsEvent, EventsTypeOK
  <2>2. Target(tx[x].kind, tx[x].was) \in Status
    BY <2>1 DEF Target, TxKind, Status
  <2>3. EventOf(tx[x].kind) \in EventType
    BY <2>1 DEF EventOf, TxKind, EventType
  <2>4. tx' \in [Writers -> [stage: TxStage, kind: TxKind, was: Status, seq: Nat \ {0}]]
    BY <1>6 DEF CommitsEvent, Ends, NoTx, EventsTypeOK, TxStage, TxKind, Status
  <2> QED
    BY <1>6, <2>1, <2>2, <2>3, <2>4 DEF CommitsEvent, EventsTypeOK
<1>7. CASE RollsBack(x)
  BY <1>7 DEF RollsBack, Ends, NoTx, EventsTypeOK, TxStage, TxKind, Status
<1>8. CASE CommitsResume(x)
  BY <1>8 DEF CommitsResume, Ends, NoTx, EventsTypeOK, TxStage, TxKind, Status
<1>9. CASE WriterDies(x)
  BY <1>9 DEF WriterDies, Ends, NoTx, EventsTypeOK, TxStage, TxKind, Status
<1> QED
  BY <1>1, <1>2, <1>3, <1>4, <1>5, <1>6, <1>7, <1>8, <1>9 DEF WriterStep

(* A committed event is never replaced. *)
LEMMA EventsStayWritten ==
  ASSUME EventsTypeOK, EventsNext,
         NEW s \in Sequence, log[s] # "NONE"
  PROVE  log'[s] = log[s]
<1>1. PICK x \in Writers : WriterStep(x)
  BY DEF EventsNext
<1>2. CASE CommitsEvent(x)
  BY <1>2 DEF CommitsEvent, Taken, EventsTypeOK
<1>3. CASE log' = log
  BY <1>3
<1> QED
  BY <1>1, <1>2, <1>3
     DEF WriterStep, Checks, LocksFirst, ReadsFirst, LocksLater, RollsBack, CommitsResume,
         WriterDies

-----------------------------------------------------------------------------
(* The log is 1 .. n, and nobody holds a number beyond the next one: a     *)
(* number is free only if it is the next, whatever stale row it came from. *)
LogIsWhole(n) ==
  /\ \A s \in Sequence : log[s] # "NONE" <=> s <= n
  /\ next <= n + 1
  /\ \A x \in Writers : tx[x].seq <= n + 1

LogInv == \E n \in 0 .. MaxEvents : LogIsWhole(n)

(* The number a transaction may commit is the next one. *)
LEMMA FreeNumberIsNext ==
  ASSUME EventsTypeOK, NEW n \in 0 .. MaxEvents, LogIsWhole(n),
         NEW x \in Writers, tx[x].seq \in Sequence, ~Taken(tx[x].seq)
  PROVE  tx[x].seq = n + 1
<1>1. tx[x].seq \in Nat /\ tx[x].seq <= n + 1 /\ ~(tx[x].seq <= n)
  BY DEF LogIsWhole, Taken, EventsTypeOK
<1> QED
  BY <1>1

(* Every transaction leaves the log whole. *)
LEMMA LogInvStep ==
  ASSUME EventsTypeOK, LogInv, EventsNext
  PROVE  LogInv'
<1>1. PICK n \in 0 .. MaxEvents : LogIsWhole(n)
  BY DEF LogInv
<1>2. PICK x \in Writers : WriterStep(x)
  BY DEF EventsNext
<1>3. CASE CommitsEvent(x)
  <2>1. tx[x].seq = n + 1 /\ n + 1 \in Sequence
    BY <1>1, <1>3, FreeNumberIsNext DEF CommitsEvent
  <2>2. tx[x].kind \in TxKind \ {"resume"}
    BY <1>3 DEF CommitsEvent, EventsTypeOK
  <2>3. EventOf(tx[x].kind) # "NONE"
    BY <2>2 DEF EventOf, TxKind
  <2>4. \A s \in Sequence : log'[s] # "NONE" <=> s <= n + 1
    <3> TAKE s \in Sequence
    <3>1. CASE s = n + 1
      BY <3>1, <1>3, <2>1, <2>3 DEF CommitsEvent, EventsTypeOK
    <3>2. CASE s # n + 1
      <4>1. log'[s] = log[s]
        BY <3>2, <1>3, <2>1 DEF CommitsEvent, EventsTypeOK
      <4>2. log[s] # "NONE" <=> s <= n
        BY <1>1 DEF LogIsWhole
      <4> QED
        BY <3>2, <4>1, <4>2 DEF Sequence
    <3> QED
      BY <3>1, <3>2
  <2>5. next' <= n + 2
    BY <1>3, <2>1 DEF CommitsEvent
  <2>6. \A y \in Writers : tx'[y].seq <= n + 2
    BY <1>1, <1>3 DEF CommitsEvent, Ends, NoTx, LogIsWhole, EventsTypeOK
  <2> QED
    BY <2>1, <2>4, <2>5, <2>6 DEF LogInv, LogIsWhole, Sequence
<1>4. ASSUME NEW k \in Kinds, Checks(x, k)
      PROVE  LogInv'
  BY <1>1, <1>4 DEF Checks, LogInv, LogIsWhole, EventsTypeOK
<1>5. ASSUME NEW k \in Kinds, LocksFirst(x, k) \/ ReadsFirst(x, k)
      PROVE  LogInv'
  BY <1>1, <1>5 DEF LocksFirst, ReadsFirst, Row, LogInv, LogIsWhole, EventsTypeOK
<1>6. CASE LocksLater(x)
  BY <1>1, <1>6 DEF LocksLater, LogInv, LogIsWhole, EventsTypeOK
<1>7. CASE RollsBack(x) \/ WriterDies(x)
  BY <1>1, <1>7 DEF RollsBack, WriterDies, Ends, NoTx, LogInv, LogIsWhole, EventsTypeOK
<1>8. CASE CommitsResume(x)
  BY <1>1, <1>8 DEF CommitsResume, Ends, NoTx, LogInv, LogIsWhole, EventsTypeOK
<1> QED
  BY <1>2, <1>3, <1>4, <1>5, <1>6, <1>7, <1>8 DEF WriterStep

(* A whole log has no gap. *)
LEMMA WholeHasNoGaps ==
  ASSUME LogInv
  PROVE  NoGaps
BY DEF LogInv, LogIsWhole, NoGaps, Sequence

-----------------------------------------------------------------------------
(* A transaction that may still commit has read the ending there is. *)
EndingInv ==
  \A x \in Writers :
    (/\ tx[x].stage \in {"read", "locked"}
     /\ status \in Ending
     /\ ~Taken(tx[x].seq))
    => tx[x].was = status

(* An ending takes the number of everyone who has not seen it. *)
LEMMA EndingInvStep ==
  ASSUME EventsTypeOK, LogInv, EndingInv, EventsNext
  PROVE  EndingInv'
<1>1. PICK n \in 0 .. MaxEvents : LogIsWhole(n)
  BY DEF LogInv
<1>2. PICK x \in Writers : WriterStep(x)
  BY DEF EventsNext
<1>3. CASE CommitsEvent(x)
  <2>1. tx[x].seq = n + 1 /\ n + 1 \in Sequence
    BY <1>1, <1>3, FreeNumberIsNext DEF CommitsEvent
  <2>2. tx[x].kind \in TxKind \ {"resume"}
    BY <1>3 DEF CommitsEvent, EventsTypeOK
  <2>3. EventOf(tx[x].kind) # "NONE"
    BY <2>2 DEF EventOf, TxKind
  <2>4. \A y \in Writers : y # x => Taken(tx[y].seq)'
    <3> TAKE y \in Writers
    <3> HAVE y # x
    <3>1. tx'[y] = tx[y] /\ tx[y].seq \in Nat \ {0} /\ tx[y].seq <= n + 1
      BY <1>1, <1>3 DEF CommitsEvent, Ends, LogIsWhole, EventsTypeOK
    <3>2. tx[y].seq \in Sequence
      BY <2>1, <3>1 DEF Sequence
    <3>3. CASE tx[y].seq = n + 1
      BY <3>1, <3>2, <3>3, <2>1, <2>3, <1>3 DEF CommitsEvent, EventsTypeOK, Taken
    <3>4. CASE tx[y].seq <= n
      <4>1. log[tx[y].seq] # "NONE"
        BY <3>2, <3>4, <1>1 DEF LogIsWhole
      <4> QED
        BY <3>1, <3>2, <4>1, EventsStayWritten DEF Taken
    <3> QED
      BY <3>1, <3>3, <3>4
  <2>5. tx'[x].stage = "none"
    BY <1>3 DEF CommitsEvent, Ends, NoTx, EventsTypeOK
  <2> QED
    BY <2>4, <2>5 DEF EndingInv
<1>4. ASSUME NEW k \in Kinds, Checks(x, k)
      PROVE  EndingInv'
  BY <1>4 DEF Checks, EndingInv, EventsTypeOK, Taken
<1>5. ASSUME NEW k \in Kinds, LocksFirst(x, k) \/ ReadsFirst(x, k)
      PROVE  EndingInv'
  BY <1>5 DEF LocksFirst, ReadsFirst, Row, EndingInv, EventsTypeOK, Taken
<1>6. CASE LocksLater(x)
  BY <1>6 DEF LocksLater, EndingInv, EventsTypeOK, Taken
<1>7. CASE RollsBack(x) \/ WriterDies(x)
  BY <1>7 DEF RollsBack, WriterDies, Ends, NoTx, EndingInv, EventsTypeOK, Taken
<1>8. CASE CommitsResume(x)
  BY <1>8 DEF CommitsResume, EndingInv, Ending
<1> QED
  BY <1>2, <1>3, <1>4, <1>5, <1>6, <1>7, <1>8 DEF WriterStep

(* One transaction at a time commits, and what it overwrites it has read.  *)
LEMMA OverwriteStep ==
  ASSUME EventsTypeOK, EndingInv, EventsNext,
         NEW x \in Writers,
         tx[x].kind # "resume", tx[x].stage = "locked", tx'[x].stage = "none",
         status \in Ending, status' # status
  PROVE  tx[x].was = status
<1>1. PICK y \in Writers : WriterStep(y)
  BY DEF EventsNext
<1>2. CASE CommitsEvent(y)
  <2>1. x = y
    BY <1>2 DEF CommitsEvent, Ends, EventsTypeOK
  <2> QED
    BY <1>2, <2>1 DEF CommitsEvent, EndingInv
<1>3. CASE CommitsResume(y)
  BY <1>3 DEF CommitsResume, Ends, EventsTypeOK
<1>4. CASE status' = status
  BY <1>4
<1> QED
  BY <1>1, <1>2, <1>3, <1>4
     DEF WriterStep, Checks, LocksFirst, ReadsFirst, LocksLater, RollsBack, WriterDies

-----------------------------------------------------------------------------
(* What the client has seen and what is on its way are the numbers of one  *)
(* interval each, all of them published.                                   *)
StreamInv ==
  /\ server.stage # "closed" => client.mode = "stream"
  /\ client.mode # "settled" => client.outcome = "none"
  /\ client.mode # "stream" => wire = {}
  /\ client.mode = "stream" =>
       client.cursor <= server.cursor /\ wire = client.cursor + 1 .. server.cursor
  /\ SeenIsPrefix
  /\ \A s \in wire \cup seen : log[s] # "NONE"

(* A completed run has published its result, and a result that was seen is *)
(* kept by the client.                                                     *)
ResultPublished == \E s \in Sequence : log[s] = "RESULT"

ResultInv ==
  /\ status = "COMPLETED" => ResultPublished
  /\ poll.status = "COMPLETED" => ResultPublished
  /\ \A x \in Writers : tx[x].was = "COMPLETED" => ResultPublished
  /\ \A s \in seen : log[s] = "RESULT" => client.result

Inv == TypeOK /\ LogInv /\ EndingInv /\ StreamInv /\ ResultInv

(* Newest and Oldest are the greatest and the least element. *)
LEMMA NewestIs ==
  ASSUME NEW S, S \subseteq Nat, NEW m \in S, \A t \in S : t <= m
  PROVE  Newest(S) = m
<1>1. Newest(S) \in S /\ \A t \in S : t <= Newest(S)
  <2>1. \E s \in S : \A t \in S : t <= s
    OBVIOUS
  <2> QED
    BY <2>1 DEF Newest
<1>2. Newest(S) \in Nat /\ m \in Nat
  BY <1>1
<1>3. Newest(S) <= m /\ m <= Newest(S)
  BY <1>1
<1> QED
  BY <1>2, <1>3

(* The same for the least element. *)
LEMMA OldestIs ==
  ASSUME NEW S, S \subseteq Nat, NEW m \in S, \A t \in S : m <= t
  PROVE  Oldest(S) = m
<1>1. Oldest(S) \in S /\ \A t \in S : Oldest(S) <= t
  <2>1. \E s \in S : \A t \in S : s <= t
    OBVIOUS
  <2> QED
    BY <2>1 DEF Oldest
<1>2. Oldest(S) \in Nat /\ m \in Nat
  BY <1>1
<1>3. Oldest(S) <= m /\ m <= Oldest(S)
  BY <1>1
<1> QED
  BY <1>2, <1>3

(* consume, of an interval that begins behind the cursor. *)
LEMMA ConsumedInterval ==
  ASSUME NEW c \in Client, NEW S, NEW m \in c.cursor .. MaxEvents,
         After(S, c.cursor) = c.cursor + 1 .. m
  PROVE  LET d == Consumed(c, S)
         IN /\ d \in Client
            /\ d.cursor = m
            /\ d.result <=> c.result \/ \E s \in c.cursor + 1 .. m : log[s] = "RESULT"
            /\ \/ d.mode = c.mode /\ d.outcome = c.outcome
               \/ d.mode = "settled" /\ d.outcome = "error"
<1> DEFINE new   == After(S, c.cursor)
           moved == Moved(c, new)
<1>1. c.cursor \in 0 .. MaxEvents /\ c.cursor <= m /\ m \in Nat /\ m <= MaxEvents
  BY DEF Client
<1>2. Newest(new \cup {c.cursor}) = m
  <2>1. new \cup {c.cursor} \subseteq Nat
    BY <1>1
  <2>2. m \in new \cup {c.cursor}
    BY <1>1
  <2>3. \A t \in new \cup {c.cursor} : t <= m
    BY <1>1
  <2> QED
    BY <2>1, <2>2, <2>3, NewestIs
<1>3. /\ moved \in Client
      /\ moved.cursor = m
      /\ moved.mode = c.mode /\ moved.outcome = c.outcome
      /\ moved.result <=> c.result \/ \E s \in c.cursor + 1 .. m : log[s] = "RESULT"
  <2>1. moved.cursor = m /\ moved.mode = c.mode /\ moved.outcome = c.outcome
    BY <1>2 DEF Moved, Client
  <2>2. moved.result = (c.result \/ \E s \in c.cursor + 1 .. m : log[s] = "RESULT")
    BY DEF Moved, Client
  <2>3. moved \in Client
    <3> DEFINE r == c.result \/ \E s \in new : log[s] = "RESULT"
    <3>1. moved = [c EXCEPT !.cursor = Newest(new \cup {c.cursor}), !.result = r]
      BY DEF Moved
    <3>2. r \in BOOLEAN
      OBVIOUS
    <3> HIDE DEF r, moved, new
    <3>3. m \in 0 .. MaxEvents
      BY <1>1
    <3>4. \A b \in BOOLEAN : [c EXCEPT !.cursor = m, !.result = b] \in Client
      BY <3>3 DEF Client
    <3> QED
      BY <3>1, <3>2, <3>4, <1>2
  <2> QED
    BY <2>1, <2>2, <2>3
<1>4. Consumed(c, S) = IF \E s \in new : log[s] = "FAILED" THEN Settle(moved, "error") ELSE moved
  BY DEF Consumed
<1> HIDE DEF moved
<1>5. /\ Settle(moved, "error") \in Client
      /\ Settle(moved, "error").cursor = moved.cursor
      /\ Settle(moved, "error").result = moved.result
      /\ Settle(moved, "error").mode = "settled"
      /\ Settle(moved, "error").outcome = "error"
  BY <1>3 DEF Settle, Client, Outcome
<1> QED
  BY <1>3, <1>4, <1>5

-----------------------------------------------------------------------------
(* The initial states are in the invariant. *)
LEMMA InitInv ==
  ASSUME Init
  PROVE  Inv
<1>1. TypeOK
  <2>1. EventsTypeOK
    BY DEF Init, EventsInit, EventsTypeOK, NoTx, Status, EventType, TxStage, TxKind
  <2>2. server \in Server /\ client \in Client
    BY DEF Init, Server, Client, Outcome
  <2> QED
    BY <2>1, <2>2 DEF Init, TypeOK, NoSnapshot, StreamTerminal
<1>2. LogInv
  <2>1. LogIsWhole(0)
    BY DEF Init, EventsInit, NoTx, LogIsWhole, Sequence
  <2> QED
    BY <2>1 DEF LogInv
<1>3. EndingInv
  BY DEF Init, EventsInit, NoTx, EndingInv
<1>4. StreamInv
  BY DEF Init, StreamInv, SeenIsPrefix
<1>5. ResultInv
  BY DEF Init, EventsInit, NoTx, NoSnapshot, ResultInv
<1> QED
  BY <1>1, <1>2, <1>3, <1>4, <1>5 DEF Inv

(* A run is completed by the transaction that publishes the result, or by  *)
(* one that read it completed.                                             *)
LEMMA CompletionPublishes ==
  ASSUME EventsTypeOK, EventsNext
  PROVE  /\ status' = "COMPLETED" =>
              \/ status = "COMPLETED"
              \/ \E x \in Writers : tx[x].was = "COMPLETED"
              \/ ResultPublished'
         /\ \A y \in Writers : tx'[y].was = "COMPLETED" =>
              tx[y].was = "COMPLETED" \/ status = "COMPLETED"
<1>1. PICK x \in Writers : WriterStep(x)
  BY DEF EventsNext
<1>2. CASE CommitsEvent(x)
  <2>1. tx[x].kind \in TxKind \ {"resume"} /\ tx[x].seq \in Sequence
    BY <1>2 DEF CommitsEvent, EventsTypeOK
  <2>2. \A y \in Writers : tx'[y].was = "COMPLETED" => tx[y].was = "COMPLETED"
    BY <1>2 DEF CommitsEvent, Ends, NoTx, EventsTypeOK
  <2>3. CASE tx[x].kind = "complete"
    <3>1. log'[tx[x].seq] = "RESULT"
      BY <1>2, <2>1, <2>3 DEF CommitsEvent, EventOf, EventsTypeOK
    <3> QED
      BY <2>1, <2>2, <3>1 DEF ResultPublished
  <2>4. CASE tx[x].kind # "complete"
    <3>1. status' = "COMPLETED" => tx[x].was = "COMPLETED"
      BY <1>2, <2>1, <2>4 DEF CommitsEvent, Target, TxKind
    <3> QED
      BY <2>2, <3>1
  <2> QED
    BY <2>3, <2>4
<1>3. ASSUME NEW k \in Kinds, Checks(x, k)
      PROVE  status' = status /\ \A y \in Writers : tx'[y].was \in {tx[y].was, "QUEUED"}
  BY <1>3 DEF Checks, EventsTypeOK
<1>4. ASSUME NEW k \in Kinds, LocksFirst(x, k) \/ ReadsFirst(x, k)
      PROVE  status' = status /\ \A y \in Writers : tx'[y].was \in {tx[y].was, status}
  BY <1>4 DEF LocksFirst, ReadsFirst, Row, EventsTypeOK
<1>5. CASE LocksLater(x)
  BY <1>5 DEF LocksLater, EventsTypeOK
<1>6. CASE RollsBack(x) \/ WriterDies(x)
  BY <1>6 DEF RollsBack, WriterDies, Ends, NoTx, EventsTypeOK
<1>7. CASE CommitsResume(x)
  BY <1>7 DEF CommitsResume, Ends, NoTx, EventsTypeOK
<1> QED
  BY <1>1, <1>2, <1>3, <1>4, <1>5, <1>6, <1>7 DEF WriterStep

(* A transaction on the run keeps what the stream knows about it. *)
LEMMA RunChangesInv ==
  ASSUME Inv, RunChanges
  PROVE  Inv'
<1> USE DEF Inv, TypeOK
<1>1. EventsTypeOK' /\ LogInv' /\ EndingInv'
  BY EventsTyped, LogInvStep, EndingInvStep DEF RunChanges
<1>2. TypeOK'
  BY <1>1 DEF RunChanges, streamVars
<1>3. \A s \in Sequence : log[s] # "NONE" => log'[s] = log[s]
  BY EventsStayWritten DEF RunChanges
<1>4. StreamInv'
  BY <1>3 DEF RunChanges, streamVars, StreamInv, SeenIsPrefix
<1>5. \A s \in seen : log'[s] = log[s]
  BY <1>3 DEF StreamInv
<1>6. ResultPublished => ResultPublished'
  BY <1>3 DEF ResultPublished
<1>7. ResultInv'
  BY <1>5, <1>6, CompletionPublishes DEF ResultInv, RunChanges, streamVars
<1> QED
  BY <1>1, <1>2, <1>4, <1>7

(* The stream and the client leave the run alone. *)
LEMMA RunUntouched ==
  ASSUME Inv, UNCHANGED eventVars
  PROVE  EventsTypeOK' /\ LogInv' /\ EndingInv' /\ (ResultPublished <=> ResultPublished')
BY DEF Inv, TypeOK, eventVars, EventsTypeOK, LogInv, LogIsWhole, EndingInv, Taken, ResultPublished

(* Opening, reading and closing the stream. *)
LEMMA ServerInv ==
  ASSUME Inv,
         Connects \/ WritesBatch \/ WritesStatus \/ Sleeps \/ StreamEnds
  PROVE  Inv'
<1> USE DEF Inv, TypeOK
<1>1. UNCHANGED eventVars
  BY DEF Connects, WritesBatch, WritesStatus, Sleeps, StreamEnds
<1>2. EventsTypeOK' /\ LogInv' /\ EndingInv' /\ (ResultPublished <=> ResultPublished')
  BY <1>1, RunUntouched
<1>3. ResultInv'
  <2>1. client'.result = client.result /\ UNCHANGED <<status, tx, log, seen, poll>>
    BY DEF Connects, WritesBatch, WritesStatus, Sleeps, StreamEnds, eventVars, Client
  <2> QED
    BY <2>1, <1>2 DEF ResultInv
<1>4. CASE Connects
  <2>1. server' \in Server /\ client' \in Client
    BY <1>4 DEF Connects, Server, Client
  <2>2. /\ client'.mode = "stream" /\ client'.outcome = client.outcome
        /\ client'.cursor = client.cursor /\ server'.cursor = client.cursor
        /\ client.cursor \in Nat
    BY <1>4 DEF Connects, Client
  <2>3. wire' = client.cursor + 1 .. client.cursor
    <3>1. wire' = {}
      BY <1>4 DEF Connects, StreamInv
    <3>2. client.cursor + 1 .. client.cursor = {}
      BY <2>2
    <3> QED
      BY <3>1, <3>2
  <2>4. seen' = seen /\ log' = log /\ wire' = wire
    <3>1. log' = log
      BY <1>1 DEF eventVars
    <3> QED
      BY <1>4, <3>1 DEF Connects
  <2>5. StreamInv'
    <3>1. seen' = 1 .. client'.cursor /\ client'.outcome = "none"
      BY <1>4, <2>2, <2>4 DEF Connects, StreamInv, SeenIsPrefix
    <3>2. \A s \in wire' \cup seen' : log'[s] # "NONE"
      BY <2>4 DEF StreamInv
    <3>3. client'.cursor <= server'.cursor /\ wire' = client'.cursor + 1 .. server'.cursor
      BY <2>2, <2>3
    <3> QED
      BY <2>2, <3>1, <3>2, <3>3 DEF StreamInv, SeenIsPrefix
  <2> QED
    BY <1>2, <1>3, <1>4, <2>1, <2>5 DEF Connects
<1>5. CASE WritesBatch
  <2> DEFINE batch == After(Published, server.cursor)
  <2>1. PICK n \in 0 .. MaxEvents : LogIsWhole(n)
    BY DEF LogInv
  <2>2. server.cursor \in 0 .. MaxEvents /\ client.mode = "stream"
    BY <1>5 DEF Server, WritesBatch, StreamInv
  <2>3. batch = server.cursor + 1 .. n
    BY <2>1, <2>2 DEF After, Published, LogIsWhole, Sequence
  <2> DEFINE m == IF server.cursor <= n THEN n ELSE server.cursor
  <2>4. Newest(batch \cup {server.cursor}) = m
    <3>1. batch \cup {server.cursor} \subseteq Nat
      BY <2>2, <2>3
    <3>2. m \in batch \cup {server.cursor}
      BY <2>2, <2>3
    <3>3. \A t \in batch \cup {server.cursor} : t <= m
      BY <2>2, <2>3
    <3> QED
      BY <3>1, <3>2, <3>3, NewestIs
  <2>5. server' = [stage |-> "status", cursor |-> m] /\ server' \in Server
    BY <1>5, <2>2, <2>4 DEF WritesBatch, Server
  <2>6. wire' = client.cursor + 1 .. m
    <3>1. wire' = (client.cursor + 1 .. server.cursor) \cup (server.cursor + 1 .. n)
      BY <1>5, <2>2, <2>3 DEF WritesBatch, StreamInv
    <3>2. client.cursor \in Nat /\ client.cursor <= server.cursor
      BY <2>2 DEF StreamInv, Client
    <3> QED
      BY <2>2, <3>1, <3>2
  <2>7. \A s \in batch : log[s] # "NONE"
    BY DEF After, Published
  <2>8. StreamInv'
    <3>1. UNCHANGED <<seen, log, client>> /\ wire' = wire \cup batch
      BY <1>5 DEF WritesBatch, eventVars
    <3>2. client.cursor \in Nat /\ client.cursor <= m /\ server'.cursor = m
      BY <2>2, <2>5 DEF StreamInv, Client
    <3> QED
      BY <2>2, <2>6, <2>7, <3>1, <3>2 DEF StreamInv, SeenIsPrefix
  <2>9. wire' \subseteq Sequence
    BY <1>5 DEF WritesBatch, After, Published
  <2> QED
    BY <1>2, <1>3, <1>5, <2>5, <2>8, <2>9 DEF WritesBatch
<1>6. CASE WritesStatus
  BY <1>1, <1>2, <1>3, <1>6
     DEF WritesStatus, Server, StreamInv, SeenIsPrefix, eventVars
<1>7. CASE Sleeps \/ StreamEnds
  BY <1>1, <1>2, <1>3, <1>7
     DEF Sleeps, StreamEnds, Server, StreamInv, SeenIsPrefix, eventVars
<1> QED
  BY <1>4, <1>5, <1>6, <1>7

(* Events that arrive move the cursor to the end of the interval they fill. *)
LEMMA ClientMoves ==
  ASSUME Inv, UNCHANGED eventVars,
         NEW S \in SUBSET Sequence, NEW m \in client.cursor .. MaxEvents,
         \A s \in S : log[s] # "NONE",
         After(S, client.cursor) = client.cursor + 1 .. m
  PROVE  LET d == Consumed(client, S)
         IN /\ d \in Client /\ d.cursor = m
            /\ \/ d.mode = client.mode /\ d.outcome = client.outcome
               \/ d.mode = "settled" /\ d.outcome = "error"
            /\ seen \cup After(S, client.cursor) = 1 .. m
            /\ \A s \in 1 .. m : log[s] # "NONE"
            /\ \A s \in 1 .. m : log[s] = "RESULT" => d.result
<1> DEFINE d == Consumed(client, S)
<1>1. client \in Client /\ client.cursor \in Nat /\ m \in Nat /\ client.cursor <= m
  BY DEF Inv, TypeOK, Client
<1>2. /\ d \in Client /\ d.cursor = m
      /\ d.result <=> client.result \/ \E s \in client.cursor + 1 .. m : log[s] = "RESULT"
      /\ \/ d.mode = client.mode /\ d.outcome = client.outcome
         \/ d.mode = "settled" /\ d.outcome = "error"
  BY <1>1, ConsumedInterval
<1> HIDE DEF d
<1>3. seen = 1 .. client.cursor
  BY DEF Inv, StreamInv, SeenIsPrefix
<1>4. seen \cup After(S, client.cursor) = 1 .. m
  BY <1>1, <1>3
<1>5. \A s \in seen : log[s] # "NONE" /\ (log[s] = "RESULT" => client.result)
  BY DEF Inv, StreamInv, ResultInv
<1>6. \A s \in After(S, client.cursor) : log[s] # "NONE"
  BY DEF After
<1>7. \A s \in 1 .. m : log[s] # "NONE"
  BY <1>4, <1>5, <1>6
<1>8. ASSUME NEW s \in 1 .. m, log[s] = "RESULT"
      PROVE  d.result
  <2>1. s \in 1 .. client.cursor \/ s \in client.cursor + 1 .. m
    BY <1>1
  <2> QED
    BY <1>2, <1>3, <1>5, <1>8, <2>1
<1> QED
  BY <1>2, <1>4, <1>7, <1>8 DEF d

(* The client handles an event. *)
LEMMA HandlesEventInv ==
  ASSUME Inv, HandlesEvent
  PROVE  Inv'
<1> DEFINE n == Oldest(wire)
           d == Consumed(client, {n})
<1>1. UNCHANGED eventVars /\ UNCHANGED poll /\ UNCHANGED breaks
  BY DEF HandlesEvent
<1>2. EventsTypeOK' /\ LogInv' /\ EndingInv' /\ (ResultPublished <=> ResultPublished')
  BY <1>1, RunUntouched
<1>3. /\ client.mode = "stream" /\ wire = client.cursor + 1 .. server.cursor
      /\ client.cursor \in Nat /\ server.cursor \in 0 .. MaxEvents /\ wire # {}
      /\ client \in Client /\ server \in Server /\ wire \subseteq Sequence
      /\ client.outcome = "none"
  BY DEF HandlesEvent, Inv, TypeOK, StreamInv, Client, Server
<1>4. n = client.cursor + 1 /\ n \in wire /\ n \in client.cursor .. MaxEvents
  <2>1. client.cursor + 1 \in wire
    BY <1>3
  <2>2. wire \subseteq Nat /\ \A t \in wire : client.cursor + 1 <= t
    BY <1>3
  <2>3. n = client.cursor + 1
    BY <2>1, <2>2, OldestIs
  <2> QED
    BY <1>3, <2>1, <2>3
<1>5. After({n}, client.cursor) = client.cursor + 1 .. n
  BY <1>3, <1>4 DEF After
<1>6. {n} \in SUBSET Sequence /\ \A s \in {n} : log[s] # "NONE"
  BY <1>3, <1>4 DEF Inv, StreamInv
<1>7. /\ d \in Client /\ d.cursor = n
      /\ \/ d.mode = client.mode /\ d.outcome = client.outcome
         \/ d.mode = "settled" /\ d.outcome = "error"
      /\ seen \cup After({n}, client.cursor) = 1 .. n
      /\ \A s \in 1 .. n : log[s] # "NONE"
      /\ \A s \in 1 .. n : log[s] = "RESULT" => d.result
  BY <1>1, <1>4, <1>5, <1>6, ClientMoves
<1>8. client' = d /\ seen' = 1 .. n
  BY <1>7 DEF HandlesEvent
<1>9. IF d.mode = "settled" THEN CloseStream
      ELSE wire' = wire \ {n} /\ UNCHANGED <<server, told>>
  BY <1>8 DEF HandlesEvent
<1> HIDE DEF d, n
<1>10. log' = log /\ status' = status /\ tx' = tx /\ poll' = poll
  BY <1>1 DEF eventVars
<1>11. ResultInv'
  BY <1>7, <1>8, <1>10 DEF Inv, ResultInv, ResultPublished
<1>12. CASE d.mode = "settled"
  <2>1. wire' = {} /\ told' = "NONE" /\ server' \in Server /\ server'.stage = "closed"
    BY <1>3, <1>9, <1>12 DEF CloseStream, Server
  <2>2. StreamInv'
    BY <1>7, <1>8, <1>10, <1>12, <2>1 DEF StreamInv, SeenIsPrefix
  <2>3. TypeOK'
    BY <1>1, <1>2, <1>4, <1>7, <1>8, <2>1 DEF Inv, TypeOK, Client, Sequence
  <2> QED
    BY <1>2, <1>11, <2>2, <2>3 DEF Inv
<1>13. CASE d.mode # "settled"
  <2>1. wire' = wire \ {n} /\ UNCHANGED <<server, told>>
    BY <1>9, <1>13
  <2>2. d.mode = "stream" /\ d.outcome = "none"
    BY <1>3, <1>7, <1>13
  <2>3. wire' = n + 1 .. server.cursor /\ n <= server.cursor
    BY <1>3, <1>4, <2>1
  <2>4. \A s \in wire' : log'[s] # "NONE"
    BY <1>10, <2>1 DEF Inv, StreamInv
  <2>5. StreamInv'
    BY <1>7, <1>8, <1>10, <2>1, <2>2, <2>3, <2>4 DEF StreamInv, SeenIsPrefix
  <2>6. TypeOK'
    <3>1. wire' \subseteq Sequence /\ server' \in Server /\ seen' \subseteq Sequence
      BY <1>3, <1>4, <1>8, <2>1 DEF Sequence
    <3> QED
      BY <1>1, <1>2, <1>7, <1>8, <2>1, <3>1 DEF Inv, TypeOK
  <2> QED
    BY <1>2, <1>11, <2>5, <2>6 DEF Inv
<1> QED
  BY <1>12, <1>13

(* A response of the polling endpoint, of events read after the status.    *)
LEMMA PollAnswersInv ==
  ASSUME Inv, PollAnswers
  PROVE  Inv' /\ (client'.outcome = "COMPLETED" => client'.result)
<1> DEFINE d == Consumed(client, Published)
<1>1. UNCHANGED eventVars /\ UNCHANGED <<server, wire, told, breaks>> /\ poll' = NoSnapshot
  BY DEF PollAnswers
<1>2. EventsTypeOK' /\ LogInv' /\ EndingInv' /\ (ResultPublished <=> ResultPublished')
  BY <1>1, RunUntouched
<1>3. /\ client.mode = "poll" /\ client \in Client /\ client.cursor \in 0 .. MaxEvents
      /\ seen = 1 .. client.cursor /\ wire = {} /\ server.stage = "closed"
      /\ client.outcome = "none"
  BY DEF PollAnswers, Inv, TypeOK, StreamInv, SeenIsPrefix, Client, Server
<1>4. PICK n \in 0 .. MaxEvents : LogIsWhole(n)
  BY DEF Inv, LogInv
<1>5. Published = 1 .. n
  BY <1>4 DEF Published, LogIsWhole, Sequence
<1>6. client.cursor <= n
  <2>1. CASE client.cursor = 0
    BY <2>1
  <2>2. CASE client.cursor # 0
    <3>1. client.cursor \in seen /\ client.cursor \in Sequence
      BY <1>3, <2>2 DEF Sequence
    <3>2. log[client.cursor] # "NONE"
      BY <3>1 DEF Inv, StreamInv
    <3> QED
      BY <1>4, <3>1, <3>2 DEF LogIsWhole
  <2> QED
    BY <2>1, <2>2
<1>7. n \in client.cursor .. MaxEvents /\ After(Published, client.cursor) = client.cursor + 1 .. n
  BY <1>3, <1>5, <1>6 DEF After
<1>8. Published \in SUBSET Sequence /\ \A s \in Published : log[s] # "NONE"
  BY DEF Published
<1>9. /\ d \in Client /\ d.cursor = n
      /\ \/ d.mode = client.mode /\ d.outcome = client.outcome
         \/ d.mode = "settled" /\ d.outcome = "error"
      /\ seen \cup After(Published, client.cursor) = 1 .. n
      /\ \A s \in 1 .. n : log[s] # "NONE"
      /\ \A s \in 1 .. n : log[s] = "RESULT" => d.result
  BY <1>1, <1>7, <1>8, ClientMoves
<1>10. Response(poll, Snapshot) = [status |-> poll.status, published |-> Published]
  BY DEF Response, Snapshot
<1>11. /\ seen' = 1 .. n
       /\ client' = IF d.mode # "settled" /\ poll.status \in StreamTerminal
                    THEN SettleWith(d, poll.status) ELSE d
  BY <1>9, <1>10 DEF PollAnswers
<1> HIDE DEF d
<1>12. client' \in Client /\ client'.cursor = n /\ client'.result = d.result
  BY <1>9, <1>11 DEF SettleWith, Settle, Client, Outcome, StreamTerminal
<1>13. /\ client'.mode # "stream"
       /\ client'.mode # "settled" => client'.outcome = "none"
       /\ client'.outcome = "COMPLETED" => poll.status = "COMPLETED"
  BY <1>3, <1>9, <1>11 DEF SettleWith, Settle, Client, StreamTerminal
<1>14. client'.outcome = "COMPLETED" => client'.result
  <2>1. SUFFICES ASSUME client'.outcome = "COMPLETED"
                 PROVE  d.result
    BY <1>12
  <2>2. PICK s \in Sequence : log[s] = "RESULT"
    BY <1>13, <2>1 DEF Inv, ResultInv, ResultPublished
  <2>3. s \in 1 .. n
    BY <1>5, <2>2 DEF Published
  <2> QED
    BY <1>9, <2>2, <2>3
<1>15. log' = log /\ status' = status /\ tx' = tx
  BY <1>1 DEF eventVars
<1>16. StreamInv'
  BY <1>1, <1>3, <1>9, <1>11, <1>12, <1>13, <1>15 DEF StreamInv, SeenIsPrefix
<1>17. ResultInv'
  BY <1>1, <1>9, <1>11, <1>12, <1>15 DEF Inv, ResultInv, ResultPublished, NoSnapshot
<1>18. TypeOK'
  <2>1. seen' \subseteq Sequence
    BY <1>4, <1>11 DEF Sequence
  <2>2. poll' \in [status: Status \cup {"NONE"}, published: SUBSET Sequence]
    BY <1>1 DEF NoSnapshot
  <2> QED
    BY <1>1, <1>2, <1>12, <2>1, <2>2 DEF Inv, TypeOK
<1> QED
  BY <1>2, <1>14, <1>16, <1>17, <1>18 DEF Inv

(* What only moves the client, without events. *)
LEMMA ClientInv ==
  ASSUME Inv,
         HandlesStatus \/ SeesStreamEnd \/ ConnectionBreaks \/ TimesOut \/ PollReads \/ PollFails
  PROVE  Inv'
<1> USE DEF Inv, TypeOK
<1>1. UNCHANGED eventVars /\ seen' = seen
  BY DEF HandlesStatus, SeesStreamEnd, ConnectionBreaks, TimesOut, PollReads, PollFails
<1>2. EventsTypeOK' /\ LogInv' /\ EndingInv' /\ (ResultPublished <=> ResultPublished')
  BY <1>1, RunUntouched
<1>3. log' = log /\ status' = status /\ tx' = tx
  BY <1>1 DEF eventVars
<1>4. client' \in Client /\ client'.cursor = client.cursor /\ client'.result = client.result
  <2>1. ASSUME client.reconnects <= MaxReconnects
        PROVE  /\ OnError \in Client
               /\ OnError.cursor = client.cursor /\ OnError.result = client.result
    <3> DEFINE r == client.reconnects + 1
               w == IF client.reconnects < MaxReconnects THEN "connecting" ELSE "poll"
    <3>1. r \in 0 .. MaxReconnects + 1
      BY <2>1 DEF Client
    <3>2. w \in {"connecting", "poll"}
      OBVIOUS
    <3>3. OnError = [client EXCEPT !.reconnects = r, !.mode = w]
      BY DEF OnError
    <3> HIDE DEF r, w
    <3> QED
      BY <3>1, <3>2, <3>3 DEF Client
  <2>2. ASSUME NEW o \in Outcome
        PROVE  /\ Settle(client, o) \in Client
               /\ Settle(client, o).cursor = client.cursor
               /\ Settle(client, o).result = client.result
    BY DEF Settle, Client
  <2>3. CASE HandlesStatus
    BY <2>2, <2>3 DEF HandlesStatus, SettleWith, Outcome
  <2>4. CASE SeesStreamEnd \/ ConnectionBreaks
    BY <2>1, <2>4 DEF SeesStreamEnd, ConnectionBreaks
  <2>5. CASE TimesOut \/ PollFails
    BY <2>2, <2>5 DEF TimesOut, PollFails, Outcome
  <2> QED
    BY <2>3, <2>4, <2>5 DEF PollReads
<1>5. wire' = {} /\ server' \in Server /\ server'.stage = "closed" /\ told' \in {told, "NONE"}
  BY DEF HandlesStatus, SeesStreamEnd, ConnectionBreaks, TimesOut, PollReads, PollFails,
         CloseStream, Server, StreamInv
<1>6. client'.mode # "stream" /\ (client'.mode # "settled" => client'.outcome = "none")
  BY DEF HandlesStatus, SeesStreamEnd, ConnectionBreaks, TimesOut, PollReads, PollFails,
         OnError, SettleWith, Settle, Client, StreamInv
<1>7. poll' \in {poll, Snapshot, NoSnapshot} /\ breaks' \in 0 .. MaxBreaks
  BY DEF HandlesStatus, SeesStreamEnd, ConnectionBreaks, TimesOut, PollReads, PollFails
<1>8. TypeOK'
  <2>1. Snapshot \in [status: Status \cup {"NONE"}, published: SUBSET Sequence]
    BY DEF Snapshot, Published, EventsTypeOK
  <2>2. NoSnapshot \in [status: Status \cup {"NONE"}, published: SUBSET Sequence]
    BY DEF NoSnapshot
  <2> QED
    BY <1>1, <1>2, <1>4, <1>5, <1>7, <2>1, <2>2
<1>9. StreamInv'
  BY <1>1, <1>3, <1>4, <1>5, <1>6 DEF StreamInv, SeenIsPrefix
<1>10. ResultInv'
  BY <1>1, <1>2, <1>3, <1>4, <1>7 DEF ResultInv, Snapshot, NoSnapshot
<1> QED
  BY <1>2, <1>8, <1>9, <1>10

(* Every step keeps the invariant. *)
LEMMA NextInv ==
  ASSUME Inv, [Next]_vars
  PROVE  Inv'
<1>1. CASE UNCHANGED vars
  BY <1>1
     DEF vars, Inv, TypeOK, EventsTypeOK, LogInv, LogIsWhole, EndingInv, Taken, StreamInv,
         SeenIsPrefix, ResultInv, ResultPublished
<1> QED
  BY <1>1, RunChangesInv, ServerInv, HandlesEventInv, PollAnswersInv, ClientInv
     DEF Next, StreamStep

(* The invariant holds in every behaviour. *)
LEMMA AlwaysInv == Spec => []Inv
<1>1. Init => Inv
  BY InitInv
<1>2. Inv /\ [Next]_vars => Inv'
  BY NextInv
<1> QED
  BY <1>1, <1>2, PTL DEF Spec

-----------------------------------------------------------------------------
(* Numbers are given out without gaps, in the order of the commits, by any *)
(* mix of the transactions that write to a run.                            *)
THEOREM EventsHaveNoGaps == Spec => []NoGaps
<1>1. Inv => NoGaps
  BY WholeHasNoGaps DEF Inv
<1> QED
  BY <1>1, AlwaysInv, PTL

(* The client hands every event up to its cursor to its callbacks, through *)
(* broken connections, reconnects and polling.                             *)
THEOREM ClientSeesAll == Spec => []SeenIsPrefix
<1>1. Inv => SeenIsPrefix
  BY DEF Inv, StreamInv
<1> QED
  BY <1>1, AlwaysInv, PTL

(* The log of a run, the transactions that append to it and the client     *)
(* that reads it keep their types, whatever is sent, lost or reopened.     *)
THEOREM StreamTyped == Spec => []TypeOK
<1>1. Inv => TypeOK
  BY DEF Inv
<1> QED
  BY <1>1, AlwaysInv, PTL

(* A transaction that publishes an event never overwrites an ending that   *)
(* it has not read.                                                        *)
THEOREM EndingsAreNotOverwritten == Spec => NoStaleOverwrite
<1>1. ASSUME Inv, [Next]_vars
      PROVE  [\A x \in Writers :
                (/\ tx[x].kind # "resume"
                 /\ tx[x].stage = "locked" /\ tx'[x].stage = "none"
                 /\ status \in Ending /\ status' # status)
                => tx[x].was = status]_eventVars
  <2>1. CASE RunChanges
    BY <1>1, <2>1, OverwriteStep DEF RunChanges, Inv, TypeOK
  <2>2. CASE UNCHANGED eventVars
    BY <2>2
  <2> QED
    BY <1>1, <2>1, <2>2
       DEF Next, StreamStep, Connects, WritesBatch, WritesStatus, Sleeps, StreamEnds,
           HandlesEvent, HandlesStatus, SeesStreamEnd, ConnectionBreaks, TimesOut,
           PollReads, PollAnswers, PollFails, vars, eventVars
<1> QED
  BY <1>1, AlwaysInv, PTL DEF NoStaleOverwrite, Spec

(* A client that polls never settles a completed run without its result.   *)
THEOREM PollingFindsResult == Spec => PollKnowsResult
<1>1. ASSUME Inv, [Next]_vars
      PROVE  [client.mode = "poll" /\ client'.outcome = "COMPLETED" => client'.result]_vars
  <2>1. SUFFICES ASSUME Next, client.mode = "poll", client'.outcome = "COMPLETED"
                 PROVE  client'.result
    BY <1>1
  <2>2. CASE PollAnswers
    BY <1>1, <2>1, <2>2, PollAnswersInv
  <2>3. client \in Client /\ client.outcome = "none" /\ server.stage = "closed"
    BY <1>1, <2>1 DEF Inv, TypeOK, StreamInv, Client, Server
  <2>4. CASE client' = client
    BY <2>1, <2>3, <2>4
  <2>5. CASE TimesOut \/ PollFails
    BY <2>1, <2>3, <2>5 DEF TimesOut, PollFails, Settle, Client
  <2> QED
    BY <2>1, <2>2, <2>3, <2>4, <2>5
       DEF Next, StreamStep, RunChanges, streamVars, Connects, WritesBatch, WritesStatus, Sleeps,
           StreamEnds, HandlesEvent, HandlesStatus, SeesStreamEnd, ConnectionBreaks, PollReads
<1> QED
  BY <1>1, AlwaysInv, PTL DEF PollKnowsResult, Spec
=============================================================================
