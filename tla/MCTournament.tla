---------------------------- MODULE MCTournament -----------------------------
(* Tournament on small instances.  Clients and handlers are                *)
(* interchangeable.                                                        *)
EXTENDS Tournament, TLC

FourEntries == <<2, 1>>
EightEntries == <<4, 2, 1>>

Symmetry == Permutations(Clients) \cup Permutations(Handlers)

(* Bounds: everybody prefers the entry on the left, except in the match    *)
(* FreeMatch, where votes may disagree and either side may win; and of the *)
(* matches that wait for their second side only the final gets votes.      *)
FreeMatch == <<1, 0>>
Expected(m, e) ==
  e # NoEntry =>
    /\ m = FreeMatch \/ e = match[m].left
    /\ m = Final \/ NoEntry \notin {match[m].left, match[m].right}
Preferences == \A c \in Clients : Expected(client[c].match, client[c].entry)
=============================================================================
