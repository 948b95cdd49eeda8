----------------------------- MODULE MCMusicCards -----------------------------
(* Instances of MusicCards for TLC. *)
EXTENDS MusicCards, TLC

CONSTANTS p1, p2, p3, catalogue, hebe, tanya, none

\* Two songs of one artist and one of another; the first has a second spelling, and a
\* draft may name what no catalogue knows.
Songs3 == {"r1", "r2", "r3"}
Performer(r) == IF r = "r3" THEN tanya ELSE hebe
Keys5 == {"k1", "k1b", "k2", "k3", "k4"}
KeyOfSong(r) == CASE r = "r1" -> "k1" [] r = "r2" -> "k2" [] OTHER -> "k3"
SingerOf(k) == IF k \in {"k3", "k4"} THEN tanya ELSE hebe
Denotes(k) == CASE k \in {"k1", "k1b"} -> "r1" [] k = "k2" -> "r2" [] k = "k3" -> "r3" [] OTHER -> none

D(k, p) == [key |-> k, page |-> p]
Drafts == {<<D("k1", p1), D("k2", p2), D("k3", p1)>>, <<D("k2", p2), D("k1b", p1), D("k1", p2)>>,
           <<D("k4", p1), D("k3", p3)>>, <<>>}
People == {<<>>, <<[artist |-> tanya, page |-> p1], [artist |-> hebe, page |-> p3]>>}

Wish == [wish |-> "recommend", fresh |-> FALSE, noArtists |-> FALSE, named |-> {}, fullText |-> FALSE]
Asked == {Wish, [Wish EXCEPT !.named = {hebe}, !.fresh = TRUE],
          [Wish EXCEPT !.named = {hebe, tanya}], [Wish EXCEPT !.noArtists = TRUE],
          [Wish EXCEPT !.wish = "analyse"], [Wish EXCEPT !.wish = "analyse", !.fullText = TRUE]}
AllPages == {p1, p2, p3}
Found == {<<>>, <<p1>>, <<p2, p3>>}
C(fact, refs, confidence, status) ==
  [fact |-> fact, refs |-> refs, confidence |-> confidence, status |-> status]
Claims == {<<C(TRUE, {2, 3}, "high", "supported"), C(FALSE, {}, "medium", "partial")>>,
           <<C(FALSE, {2}, "high", "supported")>>}
Verdict3 == {[refs |-> {1, 2}, verdict |-> "supported"], [refs |-> {3}, verdict |-> "supported"],
             [refs |-> {}, verdict |-> "conflicting"]}
StrongPages == {p1}
FairPages == {p2}
=============================================================================
