------------------------- MODULE MCConversationGraph -------------------------
(* Instances of ConversationGraph for TLC. *)
EXTENDS ConversationGraph, TLC

CONSTANTS s1, s2, hebe, w1, api

Says(traits) == [traits |-> traits, named |-> {}, confirmed |-> {}, forced |-> "none"]
Recommend == [Says({"recommend"}) EXCEPT !.named = {hebe}]
Pursue == Says({"analysis_card", "pursue", "facts", "dimension"})
Analyse == Says({"analyse", "preference", "subject", "facts", "dimension"})
Launch == Says({"launch", "no_game", "recommend"})

TurnMessages ==
  {Recommend, Pursue, Launch, Says({"launch", "no_launch", "game"}), Says({"terse"}),
   [Says({}) EXCEPT !.forced = "generate_exploration_report"]}
TurnDirections == {Recommend, Analyse}
TwoSources == {s1, s2}
OneSource == {s1}
SiteOf(s) == s
AboutOf(s) == IF s = s1 THEN {hebe} ELSE {}
FullyRead == {s2}
=============================================================================
