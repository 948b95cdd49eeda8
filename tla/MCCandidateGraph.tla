--------------------------- MODULE MCCandidateGraph ---------------------------
(* Instances of CandidateGraph for TLC. *)
EXTENDS CandidateGraph

CONSTANTS anita, bo

\* Two songs of one artist, the first in two releases, and a song of another.
Songs4 == {"a1", "a1live", "a2", "b1"}
Performer(r) == IF r = "b1" THEN bo ELSE anita
Version(r) == IF r = "a1live" THEN "a1" ELSE r
OnPages == {"a1live", "b1"}

Ask(locked, ids, confirmed) == [locked |-> locked, seeds |-> ids, confirmed |-> confirmed]
Asked == {Ask(FALSE, {}, {}), Ask(TRUE, {anita}, {}), Ask(TRUE, {}, {anita})}
=============================================================================
