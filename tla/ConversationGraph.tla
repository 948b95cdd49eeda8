--------------------------- MODULE ConversationGraph ---------------------------
(***************************************************************************)
(* One turn of the unified music agent: conversation_graph.py's LangGraph  *)
(* of three nodes (initialize, supervisor, execute_action), the overrides  *)
(* that decide() lays over the model's proposal, the mailbox of directions *)
(* a user adds while the turn runs, and the worker that runs the graph     *)
(* again, on the same checkpoint thread, when an attempt fails.            *)
(*                                                                         *)
(* The model's proposal, what a search returns and what a page holds are   *)
(* nondeterministic.  A message is the record of what the code's regular   *)
(* expressions read in it; a source is a model value.                      *)
(***************************************************************************)
EXTENDS Naturals, FiniteSets, SequencesExt, FiniteSetsExt

CONSTANTS
  Messages,             \* the first messages of a turn
  Directions,           \* what the message says once a direction is added to it
  Source,               \* the public pages research can find
  Site(_),              \* the host of a page
  Dimensional,          \* pages whose summary covers the chosen dimensions
  Artists, About(_),    \* the artists a page names
  Workers, Api,         \* processes, each with its own MemorySaver
  HasModel, HasCatalog, HasLastfm, HasPool,   \* what is configured
  AnalysisIterations, PlainIterations,        \* 11 and 7
  AnalysisSearches, PlainSearches, MaxReads,  \* 5, 3 and 5
  EnoughSources,        \* 6
  MaxRefs,              \* 16: sources that have a ref S1, S2, ...
  RecursionLimit,       \* 24
  MaxAttempts,          \* 3
  MaxDirections         \* bound on directions per turn

Research == {"research_musicbrainz", "search_wikimedia", "search_lastfm"}
Actions == Research \cup
  {"search_web", "read_source", "search_knowledge", "recommend_music",
   "analyze_music", "clarify", "propose_tournament", "build_candidate_pool",
   "generate_exploration_report", "respond"}

\* The past actions that a later decision looks for.
Remembered == {"search_web", "search_knowledge", "clarify"}

\* What the regular expressions of the code find in a message, and what the
\* conversation's cards add to it.
Traits ==
  {"analyse", "preference", "subject", "pursue", "analysis_card",    \* deep_analysis_intent
   "recommend", "adjust", "songs_card",                              \* _recommendation_intent
   "launch", "no_launch", "game", "no_game",                         \* the tournament
   "report", "ask", "terse",                                         \* _fallback_decision
   "facts", "dimension"}                                             \* what its analysis needs

\* The traits that the question and the dimensions of a workspace keep of a message.
Needs == {"facts", "dimension"}

\* What a client may ask for beside its words; decide takes no other forced action.
Forced == {"build_candidate_pool", "generate_exploration_report", "propose_tournament",
           "clarify", "respond"}

Message == [traits : SUBSET Traits, named : SUBSET Artists, confirmed : SUBSET Artists,
            forced : Forced \cup {"none"}]

ASSUME ConversationAssumption ==
  /\ Messages \subseteq Message /\ Directions \subseteq Message
  /\ Api \notin Workers /\ IsFiniteSet(Source)

\* An analysis searches no less than another turn, and the framework's limit leaves room
\* for every decision of a turn without one: two supersteps each.
ASSUME BudgetAssumption ==
  /\ {AnalysisIterations, PlainIterations, AnalysisSearches, PlainSearches, MaxReads,
       EnoughSources, MaxRefs, RecursionLimit, MaxAttempts} \subseteq Nat \ {0}
  /\ MaxDirections \in Nat
  /\ PlainSearches <= AnalysisSearches
  /\ 2 * (PlainIterations + 1) < RecursionLimit

VARIABLES
  pc, steps, process, attemptNo,   \* where the turn is, and who runs it
  message, heard,                  \* the effective message; directions merged into it
  posted, marked, applied,         \* directions persisted, marked APPLIED, seen by the graph
  workspace, needs,                \* is there a workspace, and what it asks evidence for
  ambiguous, history, iteration, decision,
  sources, excerpts, readRefs, gaps, research, attempts,
  barren,                          \* research sources that last added nothing new
  saved,                           \* the "result" channel each process keeps for the thread
  asked                            \* the request the queue delivered

turn == <<message, heard, workspace, needs, ambiguous, history, iteration, decision>>
evidence == <<sources, excerpts, readRefs, gaps, research, attempts, barren>>
mail == <<posted, marked, applied>>
vars == <<pc, steps, process, attemptNo, turn, evidence, mail, saved, asked>>

NoResult == [action |-> "none", card |-> "none", heard |-> 0]
Results == [action : Actions \cup {"none"},
            card : {"none", "clarification", "other"}, heard : 0..MaxDirections]
Processes == Workers \cup {Api}

TypeOK ==
  /\ pc \in {"initialize", "supervisor", "execute_action", "end", "raised",
             "published", "waiting", "failed"}
  /\ steps \in 0..RecursionLimit /\ process \in Processes /\ attemptNo \in 1..MaxAttempts
  /\ message \in Message /\ asked \in Message
  /\ heard \in 0..MaxDirections /\ applied \in 0..marked /\ marked \in 0..posted
  /\ posted \in 0..MaxDirections
  /\ workspace \in BOOLEAN /\ needs \in SUBSET Needs /\ ambiguous \in BOOLEAN /\ gaps \in BOOLEAN
  /\ history \subseteq Remembered /\ iteration \in Nat /\ decision \in Actions \cup {"none"}
  /\ sources \in Seq(Source) /\ IsInjective(sources)
  /\ excerpts \subseteq ToSet(sources) /\ readRefs \subseteq 1..Cardinality(Source)
  /\ research \in {"none", "ready", "not_ready"} /\ attempts \in Nat
  /\ barren \subseteq Research
  /\ saved \in [Processes -> Results]

-----------------------------------------------------------------------------
(* What the helpers compute. *)

\* deep_analysis_intent: an analysis of music, or the pursuit of an earlier one; a summary
\* of one's own preferences is not, unless it names some music.
DeepAnalysis(m) ==
  \/ "analyse" \in m.traits /\ ("preference" \in m.traits => "subject" \in m.traits)
  \/ {"analysis_card", "pursue"} \subseteq m.traits

\* _recommendation_intent: a request, or an adjustment of a card that is there.
RecommendationIntent(m) ==
  "recommend" \in m.traits \/ {"songs_card", "adjust"} \subseteq m.traits

\* _explicit_pool_request, _explicit_tournament_request: a refusal goes before every wish,
\* and each looks for its own refusal only.
PoolRequest(m) == "launch" \in m.traits /\ "no_launch" \notin m.traits
TournamentRequest(m) ==
  "no_game" \notin m.traits /\ (PoolRequest(m) \/ "game" \in m.traits)

\* Mutant: the URLs already kept are not looked at.
MergeDuplicates(existing, incoming, preferIncoming) ==
  IF preferIncoming THEN incoming \o existing ELSE existing \o incoming

\* A list, and after it what another adds to it, in the other's order.
Beyond(kept, more) ==
  LET added == {i \in DOMAIN more : more[i] \notin ToSet(kept)}
      Nth(k) == CHOOSE i \in added : Cardinality({j \in added : j <= i}) = k
  IN kept \o [k \in 1..Cardinality(added) |-> more[Nth(k)]]

\* _merge_web_sources: one entry per page, the preferred list's copy and order.
MergeWebSources(existing, incoming, preferIncoming) ==
  IF preferIncoming THEN Beyond(incoming, existing) ELSE Beyond(existing, incoming)

\* Excerpts that survive a merge: a page found again replaces the copy that was read.
MergedExcerpts(incoming, preferIncoming) ==
  IF preferIncoming THEN excerpts \ ToSet(incoming) ELSE excerpts

\* _assess_research: the artists named are covered, or there is enough material.
AssessResearch(found) ==
  LET covered == UNION {About(s) : s \in ToSet(found)}
      n == Cardinality(asked.named)
  IN IF IF n > 0 THEN asked.named \subseteq covered /\ Len(found) >= Min({5, 2 * n})
                 ELSE Len(found) >= EnoughSources
     THEN "ready" ELSE "not_ready"

\* assess_analysis_evidence: whether blocking_gaps is non-empty.
BlockingGaps(asks, found, read) ==
  \/ "facts" \in asks /\ read = {}
  \/ "facts" \in asks /\ Cardinality({Site(s) : s \in ToSet(found)}) < 2
  \/ "dimension" \in asks /\ ToSet(found) \cap (Dimensional \cup read) = {}

Refs == 1..Min({MaxRefs, Len(sources)})
Unread == Refs \ readRefs

-----------------------------------------------------------------------------
(* decide: the model proposes an action, the code overrides it.  Each rule *)
(* is tried in the order of the source; the first that applies returns.    *)

AnalysisMode(m) == workspace \/ DeepAnalysis(m)
SearchLimit(m) == IF AnalysisMode(m) THEN AnalysisSearches ELSE PlainSearches
NotReady == research = "not_ready"
NoSources == sources = <<>>
MaySearchOnceMore == attempts <= AnalysisSearches     \* mutant
MaySearch == attempts < AnalysisSearches             \* analysis_search_limit
MayFillGap == NotReady /\ attempts < PlainSearches
Either(test, yes, no) == IF test THEN yes ELSE no

\* _fallback_decision: no model, or its answer was not a decision.
FallbackDecision(m) ==
  LET researched == history \cap {"search_web", "search_knowledge"} # {}
      report == "report" \in m.traits
  IN CASE researched /\ report -> "generate_exploration_report"
       [] researched /\ ~report -> Either(AnalysisMode(m), "analyze_music",
                                     Either(RecommendationIntent(m), "recommend_music", "respond"))
       [] ~researched /\ PoolRequest(m) -> "build_candidate_pool"
       [] ~researched /\ report /\ ~PoolRequest(m) -> "generate_exploration_report"
       [] OTHER -> Either(TournamentRequest(m), "propose_tournament",
                   Either(AnalysisMode(m) \/ "ask" \in m.traits \/ RecommendationIntent(m),
                          "search_web", Either("terse" \in m.traits, "clarify", "respond")))

\* A proposal that an unconfigured or exhausted research source cannot serve.
RedirectResearch(m, p) ==
  CASE p = "search_lastfm" /\ ~HasLastfm -> "search_web"
    [] p = "research_musicbrainz" /\ ~HasCatalog -> "search_wikimedia"
    [] OTHER -> Either(AnalysisMode(m) /\ gaps /\ MaySearch, "search_web",
                Either(AnalysisMode(m), "analyze_music", "respond"))
NeedsRedirect(p) ==
  \/ p = "search_lastfm" /\ ~HasLastfm
  \/ p = "research_musicbrainz" /\ ~HasCatalog
  \/ p \in barren

\* The tournament is an explicit-intent capability.
UnaskedTournament(m, p) ==
  p \in {"propose_tournament", "build_candidate_pool"} /\ ~TournamentRequest(m)

\* A tournament nobody asked for becomes the turn's ordinary next step.
InsteadOfTournament(m) ==
  IF AnalysisMode(m) THEN Either(NoSources /\ MaySearch, "search_web", "analyze_music")
  ELSE IF RecommendationIntent(m)
       THEN Either((NoSources \/ NotReady) /\ attempts < PlainSearches,
                   "search_web", "recommend_music")
       ELSE "respond"

\* Answers offered too early, and what evidence they still need.
NeedsEvidence(m, p) ==
  \/ p = "analyze_music" /\ NoSources /\ MaySearch
  \/ p = "analyze_music" /\ AnalysisMode(m) /\ gaps /\ Unread = {} /\ MaySearch
  \/ p = "respond" /\ AnalysisMode(m) /\ NoSources /\ MaySearch
  \/ p = "respond" /\ ~AnalysisMode(m) /\ RecommendationIntent(m) /\ NoSources
  \/ p = "recommend_music" /\ NoSources
NeedsReading(m, p) ==
  /\ p = "analyze_music" /\ AnalysisMode(m) /\ gaps
  /\ Unread # {} /\ Cardinality(readRefs) < MaxReads

\* The last rules: a recommendation is a contract, and a source asked twice is enough.
SettleProposal(m, p) ==
  CASE PoolRequest(m) /\ p = "propose_tournament" -> "build_candidate_pool"
    [] p = "respond" /\ "search_web" \in history /\ RecommendationIntent(m) ->
         Either(MayFillGap, "search_web", "recommend_music")
    [] p = "recommend_music" /\ RecommendationIntent(m) /\ MayFillGap -> "search_web"
    [] p = "search_web" /\ p \in history /\ attempts >= SearchLimit(m) ->
         Either(AnalysisMode(m), "analyze_music", Either(RecommendationIntent(m), "recommend_music", "respond"))
    [] p = "search_knowledge" /\ p \in history ->
         Either(AnalysisMode(m), "analyze_music", "respond")
    [] OTHER -> p

Override(m, p) ==
  IF NeedsRedirect(p) THEN RedirectResearch(m, p)
  ELSE IF p = "read_source" /\ AnalysisMode(m) /\ NoSources THEN "search_web"
  ELSE IF p = "read_source" /\ AnalysisMode(m) /\ Unread = {}
       THEN Either(gaps /\ MaySearch, "search_web", "analyze_music")
  ELSE IF UnaskedTournament(m, p) THEN InsteadOfTournament(m)
  ELSE IF NeedsReading(m, p) THEN "read_source"
  ELSE IF NeedsEvidence(m, p) THEN "search_web"
  ELSE IF p = "respond" /\ AnalysisMode(m) THEN "analyze_music"
  ELSE SettleProposal(m, p)

\* decide: every decision the supervisor can reach for the effective message.
Decide(m) ==
  IF m.forced # "none" THEN {m.forced}
  ELSE IF ambiguous /\ "clarify" \notin history THEN {"clarify"}
  ELSE IF ~HasModel THEN {FallbackDecision(m)}
  ELSE {FallbackDecision(m)} \cup {Override(m, p) : p \in Actions}

-----------------------------------------------------------------------------
(* The graph's nodes. *)

Init ==
  /\ asked \in Messages /\ message = asked
  /\ pc = "initialize" /\ steps = 0 /\ process \in Workers /\ attemptNo = 1
  /\ heard = 0 /\ posted = 0 /\ marked = 0 /\ applied = 0
  /\ workspace = FALSE /\ needs = {} /\ ambiguous = FALSE /\ history = {} /\ iteration = 0
  /\ decision = "none" /\ sources = <<>> /\ excerpts = {} /\ readRefs = {}
  /\ gaps = FALSE /\ research = "none" /\ attempts = 0 /\ barren = {}
  /\ saved = [p \in Processes |-> NoResult]

\* A run of the graph is over: of what its thread keeps only "result" is read again,
\* for the next run begins with initialize, which overwrites every other channel.
Forget ==
  /\ message' = asked /\ heard' = 0 /\ workspace' = FALSE /\ needs' = {} /\ ambiguous' = FALSE
  /\ history' = {} /\ iteration' = 0 /\ decision' = "none"
  /\ sources' = <<>> /\ excerpts' = {} /\ readRefs' = {} /\ gaps' = FALSE
  /\ research' = "none" /\ attempts' = 0 /\ barren' = {}

\* Entering a node is a superstep; the framework counts them against the limit.
Enter(node) == pc = node /\ steps < RecursionLimit /\ steps' = steps + 1

\* resolve_entities: a mention the catalogue cannot pin down, unless the user confirmed it.
ResolveEntities(m) ==
  IF ~HasCatalog \/ m.named \subseteq m.confirmed THEN {FALSE} ELSE BOOLEAN

\* inherited_analysis_sources: an analysis starts from the pages of the latest card.
InheritedSources(m) ==
  IF DeepAnalysis(m) /\ "analysis_card" \in m.traits THEN SUBSET Source ELSE {{}}

\* plan_analysis_workspace: the dimensions found in the message and what the model adds to
\* them; the model words the question anew.  Without a model both are the message's, or an
\* earlier card's.
PlannedNeeds(m) ==
  {asks \in SUBSET Needs :
     /\ "dimension" \in m.traits => "dimension" \in asks
     /\ ~HasModel => /\ "facts" \in m.traits => "facts" \in asks
                     /\ asks \subseteq m.traits \/ "analysis_card" \in m.traits}

\* A direction is added to the question, which is cut off at its length; the dimensions stay.
AdjustedNeeds(m) == {needs, needs \cup ({"facts"} \cap m.traits)}

\* The mailbox is replayed from sequence 0.  (Mutant: from where the thread left it.)
MailboxFromCursor == heard' = 0 /\ UNCHANGED applied
MailboxFromStart == heard' = 0 /\ applied' = 0

\* initialize: a fresh turn over the thread's channels; "result" is not reset.
Initialize ==
  /\ Enter("initialize") /\ pc' = "supervisor"
  /\ ambiguous' \in ResolveEntities(message)
  /\ workspace' = DeepAnalysis(message)
  /\ needs' \in IF workspace' THEN PlannedNeeds(message) ELSE {{}}
  /\ \E inherited \in InheritedSources(message) :
       /\ sources' = SetToSeq(inherited)
       /\ gaps' = (workspace' /\ BlockingGaps(needs', sources', {}))
  /\ excerpts' = {} /\ readRefs' = {} /\ research' = "none" /\ attempts' = 0 /\ barren' = {}
  /\ history' = {} /\ iteration' = 0 /\ MailboxFromStart
  /\ UNCHANGED <<process, attemptNo, message, decision, posted, marked, saved, asked>>

\* The iteration budget of a turn: 11 decisions with a workspace, 7 without.
Budget == IF workspace THEN AnalysisIterations ELSE PlainIterations
SpentLate(at) == at > Budget     \* mutant
Spent(at) == at >= Budget

\* supervisor: poll the mailbox, merge what is new, decide, enforce the budget.
Supervisor ==
  /\ Enter("supervisor") /\ pc' = "execute_action"
  /\ LET polls == process \in Workers
         through == IF polls THEN posted ELSE applied
         adjusted == through > applied
         at == IF adjusted THEN 0 ELSE iteration
     IN /\ applied' = through
        /\ marked' = IF polls /\ through > marked THEN through ELSE marked
        /\ heard' = heard + (through - applied)
        /\ message' \in IF adjusted
                        THEN {[d EXCEPT !.forced = message.forced] : d \in Directions}
                        ELSE {message}
        /\ needs' \in IF adjusted /\ workspace THEN AdjustedNeeds(message') ELSE {needs}
        /\ decision' \in IF Spent(at)
                         THEN {Either(workspace, "analyze_music", "respond")}
                         ELSE Decide(message')
        /\ iteration' = at + 1
        /\ history' = history \cup ({decision'} \cap Remembered)
  /\ UNCHANGED <<process, attemptNo, workspace, ambiguous, evidence, posted, saved, asked>>

\* The mailbox could not be read or acknowledged: the attempt fails.
MailboxFails ==
  /\ pc = "supervisor" /\ process \in Workers /\ pc' = "raised"
  /\ marked' \in {marked, posted}
  /\ Forget /\ UNCHANGED <<steps, process, attemptNo, posted, applied, saved, asked>>

\* What every research step leaves: merged sources, and coverage if there is a workspace.
Found(found, preferIncoming) ==
  /\ sources' = MergeWebSources(sources, SetToSeq(found), preferIncoming)
  /\ excerpts' = MergedExcerpts(SetToSeq(found), preferIncoming)
Covers == gaps' = IF workspace THEN BlockingGaps(needs, sources', excerpts') ELSE gaps

\* A node that ends without a result goes back to the supervisor, by route.
NoAnswer == UNCHANGED saved

\* search_web: results found later are put first, and so take the first refs.
SearchWeb ==
  /\ decision = "search_web"
  /\ \E found \in SUBSET Source : Found(found, attempts > 0)
  /\ research' = AssessResearch(sources') /\ attempts' = attempts + 1
  /\ Covers /\ UNCHANGED <<readRefs, barren>> /\ NoAnswer

\* read_source: the requested ref if it is unread, or else the first unread one
\* (with a workspace, decide never asks for a reading when none is unread).
ReadSource ==
  /\ decision = "read_source" /\ workspace
  /\ \E ref \in Unread : /\ readRefs' = readRefs \cup {ref}
                        /\ excerpts' \in {excerpts, excerpts \cup {sources[ref]}}
  /\ UNCHANGED sources /\ Covers
  /\ UNCHANGED <<research, attempts, barren>> /\ NoAnswer

\* research_musicbrainz, search_wikimedia, search_lastfm: appended, and what was new is noted.
ConsultSource ==
  /\ decision \in Research
  /\ \E found \in SUBSET Source :
       /\ (decision = "search_lastfm" => HasLastfm) \/ found = {}
       /\ Found(found, FALSE)
       /\ barren' = IF found \subseteq ToSet(sources) THEN barren \cup {decision}
                                                      ELSE barren \ {decision}
  /\ IF decision = "search_lastfm" THEN UNCHANGED gaps ELSE Covers
  /\ UNCHANGED <<readRefs, research, attempts>> /\ NoAnswer

SearchKnowledge ==
  /\ decision = "search_knowledge"
  /\ UNCHANGED <<sources, excerpts>> /\ Covers
  /\ UNCHANGED <<readRefs, research, attempts, barren>> /\ NoAnswer

\* recommend_music: a draft that leaves gaps is repaired by more research, three searches at most.
RecommendationIncomplete ==
  /\ decision = "recommend_music" /\ HasModel /\ attempts < PlainSearches
  /\ research' = "not_ready"
  /\ UNCHANGED <<sources, excerpts, readRefs, gaps, attempts, barren>> /\ NoAnswer

\* The card an answer carries: only a clarification makes the run wait for the user.
Card(action) ==
  CASE action = "clarify" -> {"clarification"}
    [] action = "build_candidate_pool" /\ HasPool -> {"clarification", "other"}
    [] action = "respond" /\ NoSources -> {"none"}
    [] OTHER -> {"other"}

\* finalize and the composite tools: an answer goes into the thread's result channel.
Answer ==
  /\ decision \in {"respond", "clarify", "propose_tournament", "recommend_music",
                   "analyze_music", "generate_exploration_report", "build_candidate_pool"}
  /\ LET action == IF decision = "build_candidate_pool" /\ ~HasPool
                   THEN "propose_tournament" ELSE decision
     IN \E card \in Card(action) :
          saved' = [saved EXCEPT ![process] =
                      [action |-> action, card |-> card, heard |-> heard]]
  /\ Forget

\* execute_action, and route: the turn ends as soon as the channel holds a result.
Execute ==
  /\ Enter("execute_action")
  /\ \/ Answer
     \/ /\ SearchWeb \/ ReadSource \/ ConsultSource \/ SearchKnowledge
             \/ RecommendationIncomplete
        /\ UNCHANGED <<message, heard, workspace, needs, ambiguous, history, iteration>>
        /\ decision' = "none"
  /\ pc' = IF saved'[process] # NoResult THEN "end" ELSE "supervisor"
  /\ UNCHANGED <<process, attemptNo, mail, asked>>

\* Outside an analysis there is no workspace to validate; a pool may fail inside its own graph.
ExecuteRaises ==
  /\ Enter("execute_action") /\ pc' = "raised"
  /\ \/ decision = "read_source" /\ ~workspace
     \/ decision = "build_candidate_pool" /\ HasPool
  /\ Forget /\ UNCHANGED <<process, attemptNo, mail, saved, asked>>

\* GraphRecursionError: another superstep is due and the limit is used up.
OutOfSteps ==
  /\ pc \in {"initialize", "supervisor", "execute_action"} /\ steps = RecursionLimit
  /\ pc' = "raised"
  /\ Forget /\ UNCHANGED <<steps, process, attemptNo, mail, saved, asked>>

-----------------------------------------------------------------------------
(* The worker around the graph, and the user beside it. *)

Running == pc \in {"initialize", "supervisor", "execute_action", "end", "raised"}

\* AgentRunController.intervene: a direction for a run that is queued or running, once.
Direct ==
  /\ Running /\ process \in Workers /\ posted < MaxDirections
  /\ posted' = posted + 1
  /\ UNCHANGED <<pc, steps, process, attemptNo, turn, evidence, marked, applied, saved, asked>>

\* execute's end: a clarification waits for the user, any other answer completes the run.
Publish ==
  /\ pc = "end"
  /\ pc' = IF saved[process].card = "clarification" /\ process \in Workers
           THEN "waiting" ELSE "published"
  /\ UNCHANGED <<steps, process, attemptNo, turn, evidence, mail, saved, asked>>

\* The callback that completes the run fails: the attempt ends as any other failure.
PublishRaises ==
  /\ pc = "end" /\ process \in Workers /\ pc' = "raised"
  /\ UNCHANGED <<steps, process, attemptNo, turn, evidence, mail, saved, asked>>

\* (Mutant: the attempt is not counted.)
SameAttempt == attemptNo < MaxAttempts /\ UNCHANGED attemptNo
NextAttempt == attemptNo < MaxAttempts /\ attemptNo' = attemptNo + 1

\* The task is delivered again: the same thread id, in whichever process takes it.
Retry ==
  /\ pc = "raised" /\ process \in Workers /\ NextAttempt /\ process' \in Workers
  /\ pc' = "initialize" /\ steps' = 0
  /\ Forget /\ UNCHANGED <<mail, saved, asked>>

GiveUp ==
  /\ pc = "raised" /\ (attemptNo = MaxAttempts \/ process = Api)
  /\ pc' = "failed"
  /\ UNCHANGED <<steps, process, attemptNo, turn, evidence, mail, saved, asked>>

\* resume: the answered turn runs in the API process, with what the user confirmed.
Resume ==
  /\ pc = "waiting"
  /\ pc' = "initialize" /\ process' = Api /\ steps' = 0
  /\ asked' \in {[m EXCEPT !.forced = "none"] : m \in Messages} /\ message' = asked'
  /\ UNCHANGED <<attemptNo, heard, workspace, needs, ambiguous, history, iteration,
                 decision, evidence, mail, saved>>

\* resume for an artist identity: straight to the pool, without the conversation graph.
ResumePool ==
  /\ pc = "waiting" /\ saved[process].action = "build_candidate_pool"
  /\ pc' \in {"published", "failed"}
  /\ UNCHANGED <<steps, process, attemptNo, turn, evidence, mail, saved, asked>>

Step == Initialize \/ Supervisor \/ Execute
Failure == MailboxFails \/ ExecuteRaises \/ OutOfSteps
Next == Step \/ Failure \/ Direct \/ Publish \/ Retry \/ GiveUp \/ Resume \/ ResumePool
          \/ (pc \in {"published", "waiting", "failed"} /\ UNCHANGED vars)
Spec == Init /\ [][Next]_vars /\ WF_vars(Step \/ Failure) /\ WF_vars(Publish)
                /\ WF_vars(Retry \/ GiveUp)

\* The same turn when the control plane may refuse the answer.
FaultySpec == Init /\ [][Next \/ PublishRaises]_vars

-----------------------------------------------------------------------------
(* Properties. *)

\* An answer is published only if it was formed with every direction that the control
\* plane shows as applied: a retry, in the same process or another, replays the mailbox
\* from the start.  (While the callback that publishes the answer succeeds: see below.)
AnswerHeedsDirections ==
  pc \in {"published", "waiting"} /\ process \in Workers => saved[process].heard = marked

\* Past its search budget a turn searches only while it has found nothing at all
\* (and if the listener source is off, whose requests become searches unchecked).
SearchBudgetHolds ==
  [][attempts' > attempts /\ HasLastfm /\ attempts >= SearchLimit(message)
       => NoSources]_vars

\* Two supersteps per decision use the framework's limit up before an analysis has used its
\* budget up, and a direction restarts the budget but not the limit; no other turn is ever
\* cut off by GraphRecursionError.
OnlyProlongedTurnsAreCutOff ==
  pc \in {"supervisor", "execute_action"} /\ steps = RecursionLimit
    => workspace \/ applied > 0

\* Every turn comes to an end: an answer, a question for the user, or a failure.
TurnEnds == <>(pc \in {"published", "waiting", "failed"})

\* What spec 21 says of a retry (L89), when a completion callback can fail: the mailbox is
\* replayed from sequence 0 and no direction is lost.
RetryKeepsDirections == AnswerHeedsDirections
=============================================================================
