--------------------------- MODULE CandidateGraph ---------------------------
(***************************************************************************)
(* The graph that gathers a candidate pool: a supervisor node asks the     *)
(* model for the next action and overrides what it may not choose, and an  *)
(* execute node carries it out, until an action leaves a result.  The two  *)
(* nodes alternate and nothing runs between them, so a round is one step.  *)
(*                                                                         *)
(* The model proposes any action.  Of a recording the model keeps who      *)
(* performs it and which version it is; of a hint, the recording that a    *)
(* page speaks of, which MusicBrainz may or may not confirm.               *)
(***************************************************************************)
EXTENDS Naturals, FiniteSets, FiniteSetsExt

CONSTANTS
  Recording, Artist,
  ArtistOf(_), VersionOf(_),   \* recordings of one version have one artist and title
  Hinted,                      \* the recordings that public pages speak of
  Requests,                    \* what users ask for
  Size,                        \* the active half of a pool; as many wait in reserve
  Batch,                       \* 16 hints are resolved at once
  Rounds,                      \* 5 discovery rounds before a short pool is accepted
  MaxIterations,               \* 47
  StagnationLimit,             \* 3
  CheckedUntil                 \* 9: from here on the quality gate sends nothing back

Target == 2 * Size

ASSUME PoolAssumption ==
  /\ \A r \in Recording : ArtistOf(r) \in Artist
  /\ \A r, s \in Recording : VersionOf(r) = VersionOf(s) => ArtistOf(r) = ArtistOf(s)
  /\ Hinted \subseteq Recording
  /\ {Size, Batch, Rounds, MaxIterations, StagnationLimit, CheckedUntil} \subseteq Nat \ {0}
  /\ CheckedUntil <= MaxIterations /\ IsFiniteSet(Recording)

Searches == {"search_web", "search_spotify", "search_domestic_content"}
Actions == {"understand_preference", "resolve_named_entities", "request_clarification",
            "search_catalog", "expand_artist_catalog", "search_knowledge",
            "resolve_musicbrainz", "rerank_candidates", "submit_candidates",
            "finish_insufficient"} \cup Searches

Policy == [mode : {"NONE", "OPEN_DISCOVERY", "ARTIST_SEEDED", "ARTIST_LOCKED"},
           ids : SUBSET Artist, names : SUBSET Artist]
Request == [locked : BOOLEAN, seeds : SUBSET Artist, confirmed : SUBSET Artist]

ASSUME RequestsAssumption == Requests \subseteq Request

VARIABLES
  request,     \* does its text lock the artists, which ids does it carry, which are confirmed
  policy,      \* intent_policy
  resolved,    \* entity_resolution_complete
  reformed,    \* was the policy formed anew after that?
  clarify,     \* are there clarifications to ask for?
  seeds,       \* artist_seeds
  expanded,    \* artist_catalog_expanded
  hints,       \* discovery_hints
  recordings,
  ranked,
  rounds,      \* discovery_rounds, counted up to Rounds
  tried,       \* which of the catalogue and the web were chosen so far
  recent,      \* the last action, and whether the one before it was the same
  noGain,      \* did the last observation bring nothing?
  stagnation, iteration,
  terminated,  \* termination_reason
  result

pool == <<recordings, ranked, hints, rounds>>
scope == <<policy, resolved, reformed, clarify, seeds, expanded>>
control == <<tried, recent, stagnation, iteration, terminated>>
vars == <<request, scope, pool, control, noGain, result>>

NoResult == [status |-> "none", items |-> {}]
Statuses == {"none", "needs_clarification", "ready_for_confirmation", "insufficient_candidates"}

Performers(set) == {ArtistOf(r) : r \in set}
Versions(set) == {VersionOf(r) : r \in set}
Enough == Cardinality(recordings) >= Target

TypeOK ==
  /\ request \in Request /\ policy \in Policy
  /\ resolved \in BOOLEAN /\ reformed \in BOOLEAN /\ clarify \in BOOLEAN
  /\ expanded \in BOOLEAN /\ noGain \in BOOLEAN
  /\ seeds \subseteq Artist /\ hints \subseteq Hinted /\ recordings \subseteq Recording
  /\ ranked \subseteq recordings /\ Cardinality(ranked) <= Target
  /\ Cardinality(Versions(ranked)) = Cardinality(ranked)
  /\ rounds \in 0..Rounds /\ tried \subseteq {"search_catalog", "search_web"}
  /\ recent \in [action : Actions \cup {"none"}, twice : BOOLEAN]
  /\ stagnation \in 0..StagnationLimit /\ iteration \in Nat
  /\ terminated \in {"no", "STAGNATION_LIMIT_REACHED", "BUDGET_EXHAUSTED"}
  /\ result \in [status : Statuses, items : SUBSET Recording]

-----------------------------------------------------------------------------
(* What a policy allows. *)

\* _candidate_allowed: ids of the request are stronger evidence than names.  (Mutant: a
\* name of the model's is as good.)
AllowedByEither(r) ==
  policy.mode = "ARTIST_LOCKED" => ArtistOf(r) \in policy.ids \cup policy.names
Allowed(r) ==
  policy.mode = "ARTIST_LOCKED" =>
    ArtistOf(r) \in (IF policy.ids # {} THEN policy.ids ELSE policy.names)

\* _hint_allowed: without names the import is left to decide.
HintAllowed(r) ==
  policy.mode = "ARTIST_LOCKED" /\ policy.names # {} => ArtistOf(r) \in policy.names

\* infer_intent and its local baseline: the model names artists, but the text alone locks.
InferIntent ==
  IF request.locked
  THEN [mode : {"ARTIST_LOCKED"}, ids : {request.seeds}, names : SUBSET Artist]
  ELSE [mode : {"OPEN_DISCOVERY", "ARTIST_SEEDED"}, ids : {{}}, names : {{}}]

-----------------------------------------------------------------------------
(* The supervisor: the model proposes p, and each rule may replace it. *)

Finishing == IF ranked = {} THEN "rerank_candidates" ELSE "submit_candidates"

\* An open request that only one artist answers.
Narrow ==
  /\ policy.mode = "OPEN_DISCOVERY"
  /\ Cardinality(recordings) >= Size /\ Cardinality(Performers(recordings)) <= 1
MustBroaden == Narrow /\ "search_web" \notin tried

PrerequisitesFirst(p) ==
  IF policy.mode = "NONE" THEN "understand_preference"
  ELSE IF ~resolved THEN "resolve_named_entities"
  ELSE IF clarify THEN "request_clarification"
  ELSE IF p = "resolve_named_entities"
    THEN IF "search_catalog" \in tried THEN "search_web" ELSE "search_catalog"
  ELSE IF seeds # {} /\ ~expanded /\ ~Enough THEN "expand_artist_catalog"
  ELSE IF hints # {} /\ p \in {"search_web", "search_spotify", "search_catalog", "rerank_candidates"}
    THEN "resolve_musicbrainz"
  ELSE IF p = "search_knowledge" /\ ~Enough THEN "search_web"
  ELSE p

\* A short pool is accepted only after so many rounds.  (Mutant: after any.)
AnyRounds(p) == p
TryExpansion(p) ==
  IF p \notin {"submit_candidates", "finish_insufficient"} \/ Enough THEN p
  ELSE IF rounds < Rounds THEN "search_web"
  ELSE IF hints # {} THEN "resolve_musicbrainz" ELSE p

OnlineFirst(p) ==
  IF /\ p = "search_catalog" /\ resolved /\ ~Enough /\ rounds = 0
     /\ ~(policy.mode = "ARTIST_LOCKED" /\ request.seeds # {})
  THEN "search_web" ELSE p

LockIsFull(p) ==
  IF policy.mode = "ARTIST_LOCKED" /\ Enough /\ p = "search_web" THEN Finishing ELSE p

\* (Mutant: an open pool of one artist is as good as any.)
AsNarrow(p) == p
Broaden(p) ==
  IF MustBroaden /\ p \in {"rerank_candidates", "submit_candidates", "finish_insufficient"}
  THEN "search_web" ELSE p

StopDiscovery(p) ==
  IF /\ Enough /\ ~MustBroaden
     /\ p \in {"search_catalog", "expand_artist_catalog", "search_web", "search_spotify",
               "resolve_musicbrainz"}
  THEN Finishing ELSE p

ConsumeHints(p) ==
  IF ~Enough /\ hints # {} /\ p \notin {"resolve_musicbrainz", "request_clarification"}
  THEN "resolve_musicbrainz" ELSE p

Stagnation == IF noGain THEN Min({stagnation + 1, StagnationLimit}) ELSE 0

\* Once given, a termination reason is kept, or replaced by a later one.
Termination ==
  IF Stagnation >= StagnationLimit THEN "STAGNATION_LIMIT_REACHED"
  ELSE IF iteration >= MaxIterations THEN "BUDGET_EXHAUSTED" ELSE terminated

Closing(p) ==
  IF Termination # "no"
  THEN IF Cardinality(recordings) >= Size THEN "submit_candidates" ELSE "finish_insufficient"
  ELSE IF recent.twice /\ recent.action = p /\ ~(p = "resolve_musicbrainz" /\ hints # {})
  THEN "rerank_candidates" ELSE p

Decision(p) ==
  Closing(ConsumeHints(StopDiscovery(Broaden(LockIsFull(OnlineFirst(
    TryExpansion(PrerequisitesFirst(p))))))))

Init ==
  /\ request \in Requests
  /\ policy = [mode |-> "NONE", ids |-> {}, names |-> {}]
  /\ resolved = FALSE /\ reformed = FALSE /\ clarify = FALSE /\ seeds = {} /\ expanded = FALSE
  /\ hints = {} /\ recordings = {} /\ ranked = {} /\ rounds = 0
  /\ tried = {} /\ recent = [action |-> "none", twice |-> FALSE] /\ noGain = FALSE
  /\ stagnation = 0 /\ iteration = 0 /\ terminated = "no" /\ result = NoResult

\* One supervisor step that ends in action a, and what it leaves in the state.
Chooses(a) ==
  /\ result = NoResult
  /\ \E p \in Actions : Decision(p) = a
  /\ tried' = tried \cup ({a} \cap {"search_catalog", "search_web"})
  /\ recent' = [action |-> a, twice |-> recent.action = a]
  /\ stagnation' = Stagnation /\ terminated' = Termination /\ iteration' = iteration + 1
  /\ UNCHANGED request

-----------------------------------------------------------------------------
(* Actions.  A model or tool call that raises, or that invoke_with_budget refuses or cuts   *)
(* off, is the failed outcome; it is an observation without gain.                            *)

\* Failing, the local rules decide: one of the same policies.  Chosen again, it replaces the
\* policy, and the names are the model's, whatever the lock was narrowed to.
UnderstandPreference ==
  /\ Chooses("understand_preference")
  /\ policy' \in InferIntent /\ reformed' = resolved /\ noGain' = FALSE
  /\ UNCHANGED <<resolved, clarify, seeds, expanded, pool, result>>

\* A lock narrows to the artists found; confirmed names count among them.
ResolveNamedEntities ==
  /\ Chooses("resolve_named_entities")
  /\ resolved' = TRUE
  /\ \/ request.seeds # {} /\ noGain' = FALSE /\ UNCHANGED <<policy, clarify, seeds>>
     \/ request.seeds = {} /\ noGain' = TRUE /\ UNCHANGED <<policy, clarify, seeds>>
     \/ /\ request.seeds = {} /\ noGain' = FALSE
        /\ clarify' \in BOOLEAN
        /\ \E found \in SUBSET Artist :
             /\ seeds' = found \cup request.confirmed
             /\ policy' = IF policy.mode = "ARTIST_LOCKED" /\ seeds' # {}
                          THEN [policy EXCEPT !.names = seeds'] ELSE policy
  /\ UNCHANGED <<reformed, expanded, pool, result>>

RequestClarification ==
  /\ Chooses("request_clarification")
  /\ result' = [status |-> "needs_clarification", items |-> {}]
  /\ UNCHANGED <<scope, pool, noGain>>

SearchCatalog ==
  /\ Chooses("search_catalog")
  /\ \E accepted \in SUBSET {r \in Recording : Allowed(r)} :
       recordings' = recordings \cup accepted /\ noGain' = (accepted = {})
  /\ UNCHANGED <<scope, ranked, hints, rounds, result>>

\* An empty answer leaves the expansion to be tried again; an exception does not.
ExpandArtistCatalog ==
  /\ Chooses("expand_artist_catalog")
  /\ \E imported \in SUBSET {r \in Recording : Allowed(r) /\ ArtistOf(r) \in seeds} :
       /\ recordings' = recordings \cup imported /\ noGain' = (imported = {})
       /\ expanded' \in {imported # {}, TRUE}
  /\ UNCHANGED <<policy, resolved, reformed, clarify, seeds, ranked, hints, rounds, result>>

SearchKnowledge ==
  /\ Chooses("search_knowledge")
  /\ noGain' \in BOOLEAN
  /\ UNCHANGED <<scope, pool, result>>

\* search_web, search_spotify (skipped if not configured) and search_domestic_content.
Discover(a) ==
  /\ Chooses(a)
  /\ \/ noGain' = TRUE /\ UNCHANGED pool
     \/ \E accepted \in SUBSET {r \in Hinted : HintAllowed(r)} :
          /\ hints' = hints \cup accepted /\ noGain' = (accepted = {})
          /\ rounds' = Min({rounds + 1, Rounds})
          /\ UNCHANGED <<recordings, ranked>>
  /\ UNCHANGED <<scope, result>>

\* A failed resolution drops every hint, the first Batch and the rest.
ResolveMusicBrainz ==
  /\ Chooses("resolve_musicbrainz")
  /\ \/ hints' = {} /\ noGain' = TRUE /\ UNCHANGED recordings
     \/ \E taken \in kSubset(Min({Batch, Cardinality(hints)}), hints) :
        \E imported \in SUBSET {r \in taken : Allowed(r)} :
          /\ hints' = hints \ taken /\ noGain' = (imported = {})
          /\ recordings' = recordings \cup imported
  /\ UNCHANGED <<scope, ranked, rounds, result>>

\* _deduplicate_versions keeps the first recording of each version.  (Mutant: all.)
AllVersions(set) == {set}
Deduplicated(set) ==
  {kept \in SUBSET set : /\ Versions(kept) = Versions(set)
                         /\ Cardinality(kept) = Cardinality(Versions(set))}

\* At most n of a set, as slicing the first n of a list.
FirstOf(set, n) == kSubset(Min({n, Cardinality(set)}), set)

RerankCandidates ==
  /\ Chooses("rerank_candidates")
  /\ \E available \in Deduplicated(recordings) : ranked' \in FirstOf(available, Target)
  /\ noGain' = FALSE
  /\ UNCHANGED <<scope, recordings, hints, rounds, result>>

-----------------------------------------------------------------------------
(* The end of a run. *)

\* _validate_candidate_quality: enough that is allowed, and no version twice.  A ranked
\* list has none twice; an unranked pool is looked at as it is.
PassesGate(available) ==
  /\ Cardinality({r \in available : Allowed(r)}) >= Size
  /\ ranked = {} => available = recordings

\* _build_result: what the policy of now allows, ready only if both halves are full.
Eligible(set) == {r \in set : Allowed(r)}
BuildResult(available, insufficient) ==
  \E items \in FirstOf(Eligible(available), Target) :
    result' = [status |-> IF insufficient \/ Cardinality(items) < Target
                          THEN "insufficient_candidates" ELSE "ready_for_confirmation",
               items |-> items]

Available == IF ranked # {} THEN {ranked} ELSE Deduplicated(recordings)

\* The gate sends a pool back only while there is time for more.  (Mutant: always.)
SentBackAlways(available) == ~PassesGate(available) /\ Cardinality(recordings) >= Size
SentBack(available) ==
  ~PassesGate(available) /\ Cardinality(recordings) >= Size /\ iteration + 1 < CheckedUntil

SubmitCandidates ==
  /\ Chooses("submit_candidates")
  /\ \E available \in Available :
       \/ SentBack(available) /\ noGain' = FALSE /\ UNCHANGED result
       \/ ~SentBack(available) /\ BuildResult(available, FALSE) /\ UNCHANGED noGain
  /\ UNCHANGED <<scope, pool>>

FinishInsufficient ==
  /\ Chooses("finish_insufficient")
  /\ \E available \in Available : BuildResult(available, TRUE)
  /\ UNCHANGED <<scope, pool, noGain>>

Next ==
  \/ UnderstandPreference \/ ResolveNamedEntities \/ RequestClarification
  \/ SearchCatalog \/ ExpandArtistCatalog \/ SearchKnowledge
  \/ \E a \in Searches : Discover(a)
  \/ ResolveMusicBrainz \/ RerankCandidates \/ SubmitCandidates \/ FinishInsufficient
  \/ (result # NoResult /\ UNCHANGED vars)

Spec == Init /\ [][Next]_vars

-----------------------------------------------------------------------------
(* Properties. *)

\* A pool offered for a tournament has both halves and no song twice.  When the user's words
\* lock the artists it holds nothing but theirs: with ids in the request those artists,
\* however often the policy was formed anew and whatever names the model gave it; without
\* ids, the artists found or confirmed, as long as the policy was not formed anew after
\* they were resolved (the code then takes the model's names).  Words that do not lock are
\* never read as a lock.
PoolIsPlayable ==
  /\ policy.mode = "ARTIST_LOCKED" => request.locked
  /\ result.status = "ready_for_confirmation" =>
       /\ Cardinality(result.items) = Target /\ Cardinality(Versions(result.items)) = Target
       /\ request.locked /\ request.seeds # {} => Performers(result.items) \subseteq request.seeds
       /\ request.locked /\ request.seeds = {} /\ seeds # {} /\ ~reformed =>
            Performers(result.items) \subseteq seeds

\* A run with too few recordings gives up only when its budget or its patience is spent,
\* or when it has searched the agreed number of rounds and resolved every hint.
GivesUpLast ==
  result.status = "insufficient_candidates" /\ ~Enough =>
    terminated # "no" \/ (rounds >= Rounds /\ hints = {})

\* An open request that one artist answers is not offered before the web was tried.
OpenPoolIsBroadened ==
  result.status = "ready_for_confirmation" /\ Narrow =>
    "search_web" \in tried \/ terminated # "no"

\* A run takes at most the 48 decisions it tells the model of, whatever the gate rejects.
WithinBudget == iteration <= MaxIterations + 1
=============================================================================
