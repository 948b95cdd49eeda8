---------------------------- MODULE MCReportGraph ----------------------------
(* Instances of ReportGraph for TLC. *)
EXTENDS ReportGraph, SequencesExt, TLC

\* The matches of a bracket of 2^n songs, by round and index, that the song at place c wins.
RECURSIVE Decided(_, _)
Decided(n, c) ==
  IF n = 0 THEN <<>>
  ELSE [i \in 1..2^(n-1) |-> i = c \div 2 + 1] \o Decided(n - 1, c \div 2)

\* 16 songs won by the first, 32 won by one in the middle.
Sixteen == Decided(4, 0)
ThirtyTwo == Decided(5, 19)
Both == {Sixteen, ThirtyTwo}

PageSymmetry == Permutations(Page)
=============================================================================
