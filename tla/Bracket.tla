------------------------------- MODULE Bracket -------------------------------
(***************************************************************************)
(* The single elimination bracket that SingleEliminationBracketGenerator   *)
(* plans.  A match is named by its position, round and index, which is     *)
(* unique in tournament_match; an entry is named by its place after the    *)
(* shuffle.                                                                *)
(***************************************************************************)
EXTENDS Integers, Sequences

CONSTANTS
  Sizes,    \* the number of matches by round, <<8, 4, 2, 1>> for 16 entries
  NoEntry   \* an empty slot

Rounds == Len(Sizes)
Entries == 0 .. 2 * Sizes[1] - 1

ASSUME BracketAssumption ==
  /\ Sizes \in Seq(Nat \ {0})
  /\ Rounds > 0 /\ Sizes[Rounds] = 1
  /\ \A r \in 1 .. Rounds - 1 : Sizes[r] = 2 * Sizes[r + 1]
  /\ NoEntry \notin Entries

Matches == UNION {{r} \X (0 .. Sizes[r] - 1) : r \in 1 .. Rounds}
Final == <<Rounds, 0>>

NextMatch(m) == <<m[1] + 1, m[2] \div 2>>
NextSlot(m) == IF m[2] % 2 = 0 THEN "left" ELSE "right"

Empty == [left |-> NoEntry, right |-> NoEntry, winner |-> NoEntry]

(* Mutant: the pairs of the first round overlap. *)
PlannedShifted(m) ==
  IF m[1] = 1 THEN [Empty EXCEPT !.left = 2 * m[2] + 1, !.right = 2 * m[2] + 2] ELSE Empty

(* The row of a match before any vote: only the first round has entries.   *)
Planned(m) ==
  IF m[1] = 1 THEN [Empty EXCEPT !.left = 2 * m[2], !.right = 2 * m[2] + 1] ELSE Empty
=============================================================================
