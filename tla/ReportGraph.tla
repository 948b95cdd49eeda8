----------------------------- MODULE ReportGraph -----------------------------
(***************************************************************************)
(* The graph that writes the preference report of a finished tournament:   *)
(* a supervisor node asks the model for the next action and overrides what *)
(* the quality gates do not allow, an execute node carries it out, until   *)
(* the report is submitted or given up.  A round of both nodes is a step.  *)
(*                                                                         *)
(* The model proposes any action and writes any report of the schema.  Of  *)
(* a report the model keeps how many songs it recommends from the catalog  *)
(* and from the web, the pages it names, and whether the rest would pass   *)
(* the critic; of the facts, which matches the champion won.               *)
(***************************************************************************)
EXTENDS Naturals, FiniteSets, FiniteSetsExt, Sequences

CONSTANTS
  Page,                  \* web pages a report may name
  Brackets,              \* decided brackets: the matches in order, won by the champion or not
  MinSongs, MaxSongs,    \* 5 and 7 song recommendations
  MaxFound,              \* at most 5 songs are discovered on the web
  MinCards, MaxCards,    \* 3 to 5 cards tell the choices
  FreeRounds,            \* 8 rounds are the model's to choose
  Calls                  \* 10 calls of subagents

ASSUME ReportAssumption ==
  /\ {MinSongs, MaxSongs, MaxFound, MinCards, MaxCards, FreeRounds, Calls} \subseteq Nat \ {0}
  /\ MinSongs <= MaxSongs /\ MaxFound <= MaxSongs /\ MinCards <= MaxCards /\ 2 < MaxCards
  /\ \A b \in Brackets : \* its last match is the final, and others have won matches too
       b \in Seq(BOOLEAN) /\ Len(b) >= MinCards /\ b[Len(b)] /\ \E i \in DOMAIN b : ~b[i]

Actions == {"analyze_tournament", "search_web", "search_domestic_content", "search_knowledge",
            "draft_report", "critique_report", "submit_report", "finish_degraded"}

\* A report as PreferenceReport accepts it; sound: its ids are entries, its disclaimer stands.
Report == [catalog : 0..MaxSongs, web : 0..MaxSongs, songPages : SUBSET Page,
           artistPages : SUBSET Page, sound : BOOLEAN, fallback : BOOLEAN,
           cards : UNION {SUBSET (1..Len(b)) : b \in Brackets}]
NoReport == [catalog |-> 0, web |-> 0, songPages |-> {}, artistPages |-> {},
             sound |-> FALSE, fallback |-> FALSE, cards |-> {}]

VARIABLES
  bracket,     \* facts_snapshot
  domestic,    \* is a provider of Chinese communities configured?
  analyzed,    \* preference_signals
  searched,    \* is there a network_sources, and
  sources,     \* the pages in it
  known,       \* knowledge_context
  report,      \* result
  critique, iteration,
  calls,       \* subagent_calls
  late,        \* has deadline_at passed?
  outcome

evidence == <<analyzed, searched, sources, known>>
vars == <<bracket, domestic, evidence, report, critique, iteration, calls, late, outcome>>

TypeOK ==
  /\ bracket \in Brackets /\ {domestic, analyzed, searched, known, late} \subseteq BOOLEAN
  /\ sources \subseteq Page /\ (sources # {} => searched)
  /\ report \in Report /\ report.catalog + report.web <= MaxSongs
  /\ (report.web = 0) = (report.songPages = {})
  /\ critique \in {"none", "passed", "failed"} /\ (critique # "none" => report # NoReport)
  /\ iteration \in Nat /\ calls \in 0..Calls
  /\ outcome \in {"none", "delivered", "rejected", "raised"}

Drafted == report # NoReport

-----------------------------------------------------------------------------
(* The cards: decided by the facts alone. *)

Latest(n, set) == {i \in set : Cardinality({j \in set : j > i}) < n}
Won(b) == {i \in DOMAIN b : b[i]}

\* The last two wins are the anchor.  (Mutant: all of the champion's path.)
WholePath(b) == Latest(MaxCards, Won(b))
AnchorPath(b) == Latest(2, Won(b))

\* _choice_trajectory_from_facts: then others' wins, then more of the champion's, the latest first.
ChoiceTrajectory(b) ==
  LET anchor == AnchorPath(b)
      boundary == Latest(MaxCards - Cardinality(anchor), DOMAIN b \ Won(b))
      both == anchor \cup boundary
  IN  both \cup Latest(MaxCards - Cardinality(both), Won(b) \ anchor)

FallbackReport ==
  [catalog |-> MinSongs, web |-> 0, songPages |-> {}, artistPages |-> {},
   sound |-> TRUE, fallback |-> TRUE, cards |-> ChoiceTrajectory(bracket)]

\* What generate returns, once validated.
Written ==
  {r \in [catalog : 0..MaxSongs, web : 0..MaxSongs, songPages : SUBSET Page,
          artistPages : SUBSET Page, sound : BOOLEAN, fallback : {FALSE},
          cards : {ChoiceTrajectory(bracket)}] :
     /\ r.catalog + r.web \in MinSongs..MaxSongs
     /\ (r.web = 0) = (r.songPages = {}) /\ Cardinality(r.songPages) <= r.web}

\* CriticSubagent.review.
Passes(r) ==
  r.sound /\ r.songPages \cup r.artistPages \subseteq sources /\ Cardinality(r.cards) >= MinCards

-----------------------------------------------------------------------------
(* The supervisor. *)

NextEligible ==
  IF ~analyzed THEN "analyze_tournament"
  ELSE IF ~searched THEN "search_web"
  ELSE IF ~known THEN "search_knowledge"
  ELSE IF ~Drafted THEN "draft_report"
  ELSE IF critique = "none" THEN "critique_report" ELSE "submit_report"

Duplicate(p) ==
  \/ p = "analyze_tournament" /\ analyzed
  \/ p = "search_web" /\ searched
  \/ p = "search_domestic_content" /\ ~domestic
  \/ p = "search_knowledge" /\ known

Gated(p) ==
  LET drafting == IF p = "submit_report" /\ ~Drafted THEN "draft_report" ELSE p
  IN  IF drafting = "submit_report" /\ critique = "none" THEN "critique_report" ELSE drafting

\* (Mutant: only a reviewed report ends the run.)
BudgetedLoosely(p) ==
  IF iteration >= FreeRounds /\ critique # "none" THEN "submit_report" ELSE p
Budgeted(p) ==
  IF iteration < FreeRounds THEN p
  ELSE IF Drafted /\ critique # "none" THEN "submit_report" ELSE "finish_degraded"

Decision(p) == Budgeted(Gated(IF Duplicate(p) THEN NextEligible ELSE p))

Init ==
  /\ bracket \in Brackets /\ domestic \in BOOLEAN
  /\ analyzed = FALSE /\ searched = FALSE /\ sources = {} /\ known = FALSE
  /\ report = NoReport /\ critique = "none"
  /\ iteration = 0 /\ calls = 0 /\ late = FALSE /\ outcome = "none"

\* A step of the supervisor that ends in action a; the deadline may pass meanwhile.
Chooses(a) ==
  /\ outcome = "none"
  /\ \E p \in Actions : Decision(p) = a
  /\ iteration' = iteration + 1
  /\ late' \in {late, TRUE}
  /\ UNCHANGED <<bracket, domestic>>

\* RuntimeBudget.check for n calls in a row; one that fails ends the run where nothing
\* catches it.
Allows(n) == ~late' /\ calls + n <= Calls
Uncaught == outcome' = "raised" /\ UNCHANGED <<evidence, report, critique, calls>>

-----------------------------------------------------------------------------
(* Actions. *)

AnalyzeTournament ==
  /\ Chooses("analyze_tournament")
  /\ \/ ~Allows(1) /\ Uncaught
     \/ /\ Allows(1) /\ calls' = calls + 1 /\ analyzed' = TRUE
        /\ UNCHANGED <<searched, sources, known, report, critique, outcome>>

\* An exception, a timeout or a spent budget is a search without results.
SearchWeb ==
  /\ Chooses("search_web")
  /\ searched' = TRUE
  /\ \/ Allows(1) /\ calls' = calls + 1 /\ sources' \in SUBSET Page
     \/ ~Allows(1) /\ sources' = {} /\ UNCHANGED calls
  /\ UNCHANGED <<analyzed, known, report, critique, outcome>>

\* The tool budget of 10 is a search without results too.
SearchDomesticContent ==
  /\ Chooses("search_domestic_content")
  /\ \/ UNCHANGED <<searched, sources>>
     \/ \E found \in SUBSET Page :
          /\ late' => found = {}
          /\ searched' = TRUE /\ sources' = sources \cup found
  /\ UNCHANGED <<analyzed, known, report, critique, calls, outcome>>

SearchKnowledge ==
  /\ Chooses("search_knowledge")
  /\ known' = TRUE
  /\ UNCHANGED <<analyzed, searched, sources, report, critique, calls, outcome>>

\* Of what the model discovers, only what names a source is kept.
AllowedPages == SUBSET sources

\* Discovered songs and artists replace those the report took from the web.
\* (Mutant: and push no song of the catalog out.)
WithSongsOnTop(r, n, pages) ==
  IF n = 0 THEN r ELSE [r EXCEPT !.web = n, !.songPages = pages]
WithSongs(r, n, pages) ==
  IF n = 0 THEN r
  ELSE [r EXCEPT !.web = n, !.songPages = pages, !.catalog = Min({@, MaxSongs - n})]
WithArtists(r, pages) == IF pages = {} THEN r ELSE [r EXCEPT !.artistPages = pages]

\* (Mutant: the critique of the last draft stays.)
LeaveCritique == UNCHANGED critique
ClearCritique == critique' = "none"

\* generate, discover_from_web, and the validation, which only warns.
DraftReport ==
  /\ Chooses("draft_report")
  /\ \/ ~Allows(3) /\ Uncaught
     \/ /\ Allows(3) /\ calls' = calls + 3 /\ ClearCritique
        /\ \E draft \in Written \cup {FallbackReport}, n \in 0..MaxFound,
              songs, artists \in AllowedPages :
             /\ (n = 0) = (songs = {}) /\ Cardinality(songs) <= n
             /\ report' = WithArtists(WithSongs(draft, n, songs), artists)
        /\ UNCHANGED <<evidence, outcome>>

Review(r) == critique' = IF Passes(r) THEN "passed" ELSE "failed"

CritiqueReport ==
  /\ Chooses("critique_report")
  /\ \/ ~Drafted /\ UNCHANGED <<evidence, report, critique, calls, outcome>>
     \/ Drafted /\ ~Allows(1) /\ Uncaught
     \/ /\ Drafted /\ Allows(1) /\ calls' = calls + 1 /\ Review(report)
        /\ UNCHANGED <<evidence, report, outcome>>

SubmitReport ==
  /\ Chooses("submit_report")
  /\ outcome' = IF Drafted /\ critique = "passed" THEN "delivered" ELSE "rejected"
  /\ UNCHANGED <<evidence, report, critique, calls>>

\* The critic is asked directly, outside the budget.
FinishDegraded ==
  /\ Chooses("finish_degraded")
  /\ LET final == IF Drafted THEN report ELSE FallbackReport
     IN  /\ Review(final) /\ report' = final
         /\ outcome' = IF Passes(final) THEN "delivered" ELSE "rejected"
  /\ UNCHANGED <<evidence, calls>>

Next ==
  \/ AnalyzeTournament \/ SearchWeb \/ SearchDomesticContent \/ SearchKnowledge
  \/ DraftReport \/ CritiqueReport \/ SubmitReport \/ FinishDegraded
  \/ (outcome # "none" /\ UNCHANGED vars)

Spec == Init /\ [][Next]_vars

-----------------------------------------------------------------------------
(* Properties. *)

\* What is delivered passes the critic against the sources of now, although reports are
\* drafted again after a review and searches go on after it.
DeliveredIsReviewed ==
  (critique = "passed" \/ outcome = "delivered") => Drafted /\ Passes(report)

\* The cards hold the final and, beside the champion's wins, a choice between two others,
\* however long the champion's path is.
TrajectoryTellsBothSides ==
  Drafted =>
    /\ Cardinality(report.cards) \in MinCards..MaxCards
    /\ Len(bracket) \in report.cards
    /\ \E i \in report.cards : ~bracket[i]

\* The ninth round ends the run, with a report, a rejection or an exception.
EndsInTime ==
  /\ iteration <= FreeRounds + 1
  /\ iteration = FreeRounds + 1 => outcome # "none"
=============================================================================
