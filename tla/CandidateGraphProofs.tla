------------------------- MODULE CandidateGraphProofs -------------------------
(***************************************************************************)
(* Proofs about the graph that gathers a candidate pool, for every         *)
(* catalogue, request, size of a pool and budget.                          *)
(***************************************************************************)
EXTENDS CandidateGraph, FiniteSetTheorems, TLAPS

(* What the assumptions say of the constants, one by one.                  *)
LEMMA Bounds ==
  /\ Size \in Nat \ {0} /\ Batch \in Nat \ {0} /\ Rounds \in Nat \ {0}
  /\ MaxIterations \in Nat \ {0} /\ StagnationLimit \in Nat \ {0}
  /\ CheckedUntil \in Nat \ {0} /\ CheckedUntil <= MaxIterations
  BY PoolAssumption

USE Bounds

(* A pool has at least one recording.                                      *)
LEMMA TargetIsPositive == Target \in Nat \ {0}
  BY DEF Target

-----------------------------------------------------------------------------
(* The inductive invariant *)

Chosen == [action : Actions \cup {"none"}, twice : BOOLEAN]
Result == [status : Statuses, items : SUBSET Recording]

(* A run without a policy has done nothing yet: no rule of the supervisor  *)
(* can put another action before the understanding of the request.         *)
UnderstandsFirst ==
  policy.mode = "NONE" =>
    /\ iteration = 0 /\ stagnation = 0 /\ terminated = "no" /\ ~noGain /\ ~recent.twice
    /\ hints = {} /\ recordings = {} /\ result = NoResult

(* The text alone locks, and the ids of the request are the lock's.        *)
HeedsTheWords ==
  policy.mode # "NONE" =>
    /\ policy.mode = "ARTIST_LOCKED" <=> request.locked
    /\ request.locked => policy.ids = request.seeds

(* Without ids the lock's names are the artists resolved, until the policy *)
(* is formed anew.                                                         *)
NamesTheResolved ==
  /\ ~resolved => seeds = {}
  /\ request.locked /\ request.seeds = {} /\ seeds # {} /\ ~reformed => policy.names = seeds

(* While a run goes on a decision is left; the last one ends it.           *)
InTime ==
  /\ iteration <= MaxIterations + 1
  /\ result = NoResult => iteration <= MaxIterations

(* What is offered passed the filter of the policy that is still in force. *)
OfferIsAllowed ==
  result.status = "ready_for_confirmation" =>
    /\ policy.mode # "NONE"
    /\ \A r \in result.items : Allowed(r)
    /\ Cardinality(result.items) = Target /\ Cardinality(Versions(result.items)) = Target

Inv == /\ TypeOK /\ UnderstandsFirst /\ HeedsTheWords /\ NamesTheResolved /\ InTime
       /\ OfferIsAllowed
       /\ GivesUpLast /\ OpenPoolIsBroadened
-----------------------------------------------------------------------------
(* Counting *)

(* The lesser of two numbers.                                              *)
LEMMA MinOfTwo ==
  ASSUME NEW a \in Nat, NEW b \in Nat
  PROVE  Min({a, b}) = IF a <= b THEN a ELSE b
  <1> DEFINE least == IF a <= b THEN a ELSE b
             isMin(x) == \A y \in {a, b} : x =< y
  <1>1. least \in {a, b} /\ isMin(least)
    OBVIOUS
  <1>2. ASSUME NEW x \in {a, b}, isMin(x)
        PROVE  x = least
    BY <1>2
  <1>3. Min({a, b}) = CHOOSE x \in {a, b} : isMin(x)
    BY DEF Min
  <1> HIDE DEF least, isMin
  <1>4. least = IF a <= b THEN a ELSE b
    BY DEF least
  <1> QED BY <1>1, <1>2, <1>3, <1>4

(* Every set of recordings is finite, for the catalogue is.                *)
LEMMA Countable ==
  ASSUME NEW S \in SUBSET Recording
  PROVE  IsFiniteSet(S) /\ Cardinality(S) \in Nat
  BY PoolAssumption, FS_Subset, FS_CardinalityType

(* What is left of a set that holds no version twice holds none twice.     *)
LEMMA DistinctVersions ==
  ASSUME NEW S \in SUBSET Recording, Cardinality(Versions(S)) = Cardinality(S),
         NEW T \in SUBSET S
  PROVE  Cardinality(Versions(T)) = Cardinality(T)
  <1> DEFINE f == [r \in S |-> VersionOf(r)]
             g == [r \in T |-> VersionOf(r)]
  <1>1. IsFiniteSet(S) /\ IsFiniteSet(T)
    BY Countable
  <1>2. f \in Surjection(S, Versions(S)) /\ g \in Surjection(T, Versions(T))
    BY DEF Surjection, Versions
  <1>3. f \in Injection(S, Versions(S))
    <2> HIDE DEF f
    <2> QED BY <1>1, <1>2, FS_Surjection
  <1>4. g \in Injection(T, Versions(T))
    <2>1. \A r, q \in S : f[r] = f[q] => r = q
      <3> HIDE DEF f
      <3> QED BY <1>3 DEF Injection, IsInjective
    <2>2. \A r, q \in T : g[r] = g[q] => r = q
      <3>1. \A r \in T : r \in S /\ g[r] = f[r]
        OBVIOUS
      <3> HIDE DEF f, g
      <3> QED BY <2>1, <3>1
    <2> HIDE DEF g
    <2> QED BY <1>2, <2>2 DEF Injection, IsInjective, Surjection
  <1> HIDE DEF g
  <1> QED BY <1>1, <1>2, <1>4, FS_Surjection

(* The first n of a set of recordings.                                     *)
LEMMA FirstOfIsPart ==
  ASSUME NEW S \in SUBSET Recording, NEW n \in Nat, NEW T \in FirstOf(S, n)
  PROVE  T \in SUBSET S /\ Cardinality(T) <= n /\ Cardinality(T) \in Nat
  BY Countable, MinOfTwo DEF FirstOf, kSubset

(* What deduplication and a selection from it leave has no version twice.  *)
LEMMA RankedIsDistinct ==
  ASSUME NEW S \in SUBSET Recording, NEW kept \in Deduplicated(S),
         NEW n \in Nat, NEW T \in FirstOf(kept, n)
  PROVE  /\ T \in SUBSET S /\ Cardinality(T) <= n
         /\ Cardinality(Versions(T)) = Cardinality(T)
  <1>1. kept \in SUBSET S /\ Cardinality(Versions(kept)) = Cardinality(kept)
    BY DEF Deduplicated
  <1>2. T \in SUBSET kept /\ Cardinality(T) <= n
    BY <1>1, FirstOfIsPart
  <1> QED BY <1>1, <1>2, DistinctVersions

-----------------------------------------------------------------------------
(* The rules of the supervisor *)

(* A new run understands the request first.                                *)
LEMMA StartsByUnderstanding ==
  ASSUME policy.mode = "NONE", UnderstandsFirst, NEW p \in Actions
  PROVE  Decision(p) = "understand_preference"
  <1>1. Termination = "no"
    BY MinOfTwo DEF UnderstandsFirst, Termination, Stagnation
  <1> QED BY <1>1 DEF UnderstandsFirst, Decision, PrerequisitesFirst, TryExpansion, OnlineFirst,
                      LockIsFull, Broaden, StopDiscovery, ConsumeHints, Closing

(* A run whose budget or patience is spent has only its two ends left.     *)
LEMMA EndsWhenTerminated ==
  ASSUME Termination # "no", NEW p \in Actions
  PROVE  Decision(p) \in {"submit_candidates", "finish_insufficient"}
  BY DEF Decision, Closing

(* Before that a short pool is closed only after the agreed rounds, with   *)
(* no hint left.                                                           *)
LEMMA ClosesShortPoolLast ==
  ASSUME Termination = "no", ~Enough, rounds \in Nat, NEW p \in Actions,
         Decision(p) \in {"submit_candidates", "finish_insufficient"}
  PROVE  rounds >= Rounds /\ hints = {}
  <1> DEFINE p1 == PrerequisitesFirst(p)
             p2 == TryExpansion(p1)
             p3 == Broaden(LockIsFull(OnlineFirst(p2)))
             p4 == ConsumeHints(StopDiscovery(p3))
             ends == {"submit_candidates", "finish_insufficient"}
  <1>1. p4 \in ends
    BY DEF Decision, Closing
  <1>2. hints = {} /\ StopDiscovery(p3) \in ends
    BY <1>1 DEF ConsumeHints
  <1>3. p3 \in ends
    BY <1>2 DEF StopDiscovery
  <1>4. p2 \in ends
    BY <1>3 DEF Broaden, LockIsFull, OnlineFirst
  <1>5. rounds >= Rounds
    BY <1>4 DEF TryExpansion
  <1> QED BY <1>2, <1>5

(* Before that an open pool of one artist is submitted only after the web  *)
(* was tried.                                                              *)
LEMMA NarrowPoolIsBroadened ==
  ASSUME Termination = "no", Narrow, NEW p \in Actions, Decision(p) = "submit_candidates"
  PROVE  "search_web" \in tried
  <1> DEFINE p3 == LockIsFull(OnlineFirst(TryExpansion(PrerequisitesFirst(p))))
  <1> SUFFICES ASSUME MustBroaden PROVE FALSE
    BY DEF MustBroaden
  <1>1. StopDiscovery(Broaden(p3)) = "submit_candidates"
    BY DEF Decision, Closing, ConsumeHints
  <1>2. Broaden(p3) = "submit_candidates"
    BY <1>1 DEF StopDiscovery
  <1> QED BY <1>2 DEF Broaden

-----------------------------------------------------------------------------
(* The steps *)

Ends == {"submit_candidates", "finish_insufficient"}

(* The invariant holds in every initial state.                             *)
LEMMA InitInv == Init => Inv
  <1> SUFFICES ASSUME Init PROVE Inv
    OBVIOUS
  <1>1. TypeOK
    <2>1. policy \in Policy /\ request \in Request
      BY RequestsAssumption DEF Init, Policy
    <2>2. Cardinality(ranked) = 0 /\ Versions(ranked) = {}
      BY FS_EmptySet DEF Init, Versions
    <2>3. recent \in Chosen /\ result \in Result
      BY DEF Init, Chosen, Result, Statuses, NoResult
    <2>4. Cardinality(ranked) <= Target /\ Cardinality(Versions(ranked)) = Cardinality(ranked)
      BY <2>2, TargetIsPositive DEF Init
    <2>5. rounds \in 0..Rounds /\ stagnation \in 0..StagnationLimit /\ iteration \in Nat
      BY DEF Init
    <2>6. /\ resolved \in BOOLEAN /\ reformed \in BOOLEAN /\ clarify \in BOOLEAN /\ expanded \in BOOLEAN
          /\ noGain \in BOOLEAN
      BY DEF Init
    <2>7. /\ seeds \subseteq Artist /\ hints \subseteq Hinted /\ recordings \subseteq Recording
          /\ ranked \subseteq recordings /\ tried \subseteq {"search_catalog", "search_web"}
          /\ terminated \in {"no", "STAGNATION_LIMIT_REACHED", "BUDGET_EXHAUSTED"}
      BY DEF Init
    <2> QED BY <2>1, <2>3, <2>4, <2>5, <2>6, <2>7 DEF TypeOK, Chosen, Result
  <1>2. result.status = "none" /\ policy.mode = "NONE"
    BY DEF Init, NoResult
  <1>3. UnderstandsFirst /\ HeedsTheWords /\ NamesTheResolved /\ InTime
    BY <1>2 DEF Init, UnderstandsFirst, HeedsTheWords, NamesTheResolved, InTime
  <1>4. OfferIsAllowed /\ GivesUpLast /\ OpenPoolIsBroadened
    BY <1>2 DEF OfferIsAllowed, GivesUpLast, OpenPoolIsBroadened
  <1> QED BY <1>1, <1>3, <1>4 DEF Inv

(* What every decision leaves: the supervisor's counters are in their      *)
(* ranges, and an action that is no end leaves a decision for another.     *)
LEMMA Choosing ==
  ASSUME Inv, NEW a \in Actions, Chooses(a)
  PROVE  /\ result = NoResult /\ request' \in Request /\ request' = request
         /\ tried' \subseteq {"search_catalog", "search_web"} /\ recent' \in Chosen
         /\ stagnation' \in 0..StagnationLimit /\ iteration' \in Nat
         /\ terminated' \in {"no", "STAGNATION_LIMIT_REACHED", "BUDGET_EXHAUSTED"}
         /\ iteration' <= MaxIterations + 1
         /\ a \notin Ends => iteration' <= MaxIterations
         /\ policy.mode = "NONE" => a = "understand_preference"
  <1>1. PICK p \in Actions : Decision(p) = a
    BY DEF Chooses
  <1>2. TypeOK /\ iteration \in Nat /\ stagnation \in 0..StagnationLimit /\ request \in Request
    BY DEF Inv, TypeOK
  <1>3. result = NoResult /\ request' = request /\ iteration' = iteration + 1
    BY DEF Chooses
  <1>4. iteration <= MaxIterations
    BY <1>3 DEF Inv, InTime
  <1>5. Stagnation \in 0..StagnationLimit
    BY <1>2, MinOfTwo DEF Stagnation
  <1>6. Termination \in {"no", "STAGNATION_LIMIT_REACHED", "BUDGET_EXHAUSTED"}
    BY <1>2 DEF Termination, TypeOK
  <1>7. a \notin Ends => iteration < MaxIterations
    BY <1>1, <1>2, EndsWhenTerminated DEF Ends, Termination
  <1>8. policy.mode = "NONE" => a = "understand_preference"
    BY <1>1, StartsByUnderstanding DEF Inv
  <1>9. tried' \subseteq {"search_catalog", "search_web"}
    BY <1>2 DEF Chooses, TypeOK
  <1>10. recent' \in Chosen
    BY DEF Chooses, Chosen
  <1>11. /\ iteration' \in Nat /\ iteration' <= MaxIterations + 1
         /\ a \notin Ends => iteration' <= MaxIterations
    BY <1>2, <1>3, <1>4, <1>7
  <1> QED BY <1>2, <1>3, <1>5, <1>6, <1>8, <1>9, <1>10, <1>11 DEF Chooses

(* A decision that is no end, and whose action keeps the policy: what is   *)
(* left to show is that the pool stays in its types.                       *)
LEMMA GoesOn ==
  ASSUME Inv, NEW a \in Actions \ Ends, Chooses(a), result' = result,
         policy' \in Policy, policy'.mode # "NONE",
         policy'.mode = "ARTIST_LOCKED" <=> request.locked,
         request.locked => policy'.ids = request.seeds
  PROVE  /\ UnderstandsFirst' /\ HeedsTheWords' /\ InTime' /\ OfferIsAllowed'
         /\ GivesUpLast' /\ OpenPoolIsBroadened'
  <1>1. result' = NoResult /\ result'.status = "none"
    BY Choosing DEF NoResult
  <1>2. OfferIsAllowed' /\ GivesUpLast' /\ OpenPoolIsBroadened'
    BY <1>1 DEF OfferIsAllowed, GivesUpLast, OpenPoolIsBroadened
  <1>3. UnderstandsFirst' /\ HeedsTheWords'
    BY Choosing DEF UnderstandsFirst, HeedsTheWords
  <1>4. InTime'
    BY Choosing DEF InTime
  <1> QED BY <1>2, <1>3, <1>4

(* The same for the actions that do not touch the policy at all.           *)
LEMMA KeepsPolicy ==
  ASSUME Inv, NEW a \in Actions, Chooses(a), a # "understand_preference", policy' = policy
  PROVE  /\ policy' \in Policy /\ policy'.mode # "NONE"
         /\ policy'.mode = "ARTIST_LOCKED" <=> request.locked
         /\ request.locked => policy'.ids = request.seeds
         /\ UnderstandsFirst' /\ HeedsTheWords'
  <1>1. policy.mode # "NONE" /\ policy \in Policy
    BY Choosing DEF Inv, TypeOK
  <1>2. request' = request
    BY Choosing
  <1> QED BY <1>1, <1>2 DEF Inv, HeedsTheWords, UnderstandsFirst

(* And an action that leaves the resolved artists as they are too.         *)
LEMMA KeepsLock ==
  ASSUME Inv, request' = request, UNCHANGED <<policy, resolved, reformed, seeds>>
  PROVE  NamesTheResolved'
  BY DEF Inv, NamesTheResolved

(* Recordings that are added leave a ranked pool as it was.                *)
LEMMA PoolTyped ==
  ASSUME Inv, ranked' = ranked, recordings' \subseteq Recording, recordings \subseteq recordings'
  PROVE  /\ ranked' \subseteq recordings' /\ Cardinality(ranked') <= Target
         /\ Cardinality(Versions(ranked')) = Cardinality(ranked')
  BY DEF Inv, TypeOK

(* Understand keeps the invariant.                                         *)
LEMMA UnderstandStep == Inv /\ UnderstandPreference => Inv'
  <1> SUFFICES ASSUME Inv, UnderstandPreference PROVE Inv'
    OBVIOUS
  <1> DEFINE a == "understand_preference"
  <1>1. a \in Actions \ Ends /\ Chooses(a)
    BY DEF UnderstandPreference, Actions, Ends
  <1>2. /\ policy' \in Policy /\ policy'.mode # "NONE"
        /\ policy'.mode = "ARTIST_LOCKED" <=> request.locked
        /\ request.locked => policy'.ids = request.seeds
    <2>1. request.seeds \in SUBSET Artist /\ request.locked \in BOOLEAN
      BY DEF Inv, TypeOK, Request
    <2>2. policy' \in InferIntent
      BY DEF UnderstandPreference
    <2>3. CASE request.locked
      BY <2>1, <2>2, <2>3 DEF InferIntent, Policy
    <2>4. CASE ~request.locked
      BY <2>1, <2>2, <2>4 DEF InferIntent, Policy
    <2> QED BY <2>3, <2>4
  <1>3. TypeOK'
    BY <1>1, <1>2, Choosing, PoolTyped
       DEF Inv, TypeOK, Chosen, UnderstandPreference, pool
  <1>4. result' = result
    BY DEF UnderstandPreference
  <1>5. NamesTheResolved'
    BY DEF UnderstandPreference, Inv, NamesTheResolved
  <1> QED BY <1>1, <1>2, <1>3, <1>4, <1>5, GoesOn DEF Inv

(* Resolve keeps the invariant.                                            *)
LEMMA ResolveStep == Inv /\ ResolveNamedEntities => Inv'
  <1> SUFFICES ASSUME Inv, ResolveNamedEntities PROVE Inv'
    OBVIOUS
  <1> DEFINE a == "resolve_named_entities"
  <1>1. a \in Actions \ Ends /\ Chooses(a) /\ a # "understand_preference"
    BY DEF ResolveNamedEntities, Actions, Ends
  <1>2. /\ policy \in Policy /\ policy.mode # "NONE"
        /\ policy.mode = "ARTIST_LOCKED" <=> request.locked
        /\ request.locked => policy.ids = request.seeds
    BY <1>1, Choosing DEF Inv, TypeOK, HeedsTheWords
  <1>3. /\ policy' \in Policy /\ policy'.mode = policy.mode /\ policy'.ids = policy.ids
        /\ seeds' \in SUBSET Artist /\ clarify' \in BOOLEAN /\ noGain' \in BOOLEAN
        /\ NamesTheResolved'
    <2> DEFINE typed == /\ policy' \in Policy /\ policy'.mode = policy.mode
                        /\ policy'.ids = policy.ids /\ seeds' \in SUBSET Artist
                        /\ clarify' \in BOOLEAN /\ noGain' \in BOOLEAN
    <2>0. resolved' = TRUE /\ reformed' = reformed /\ request' = request
      BY <1>1, Choosing DEF ResolveNamedEntities
    <2>1. CASE UNCHANGED <<policy, clarify, seeds>> /\ noGain' \in BOOLEAN
      BY <1>2, <2>0, <2>1 DEF Inv, TypeOK, NamesTheResolved
    <2>2. ASSUME noGain' = FALSE, clarify' \in BOOLEAN, NEW found \in SUBSET Artist,
                 seeds' = found \cup request.confirmed,
                 policy' = IF policy.mode = "ARTIST_LOCKED" /\ seeds' # {}
                           THEN [policy EXCEPT !.names = seeds'] ELSE policy
          PROVE  typed /\ NamesTheResolved'
      <3>1. seeds' \in SUBSET Artist
        BY <2>2 DEF Inv, TypeOK, Request
      <3>2. typed
        BY <1>2, <2>2, <3>1 DEF Policy
      <3>3. NamesTheResolved'
        BY <1>2, <2>0, <2>2 DEF NamesTheResolved, Policy
      <3> QED BY <3>2, <3>3
    <2> QED BY <2>1, <2>2 DEF ResolveNamedEntities
  <1>4. TypeOK'
    BY <1>1, <1>3, Choosing, PoolTyped DEF Inv, TypeOK, Chosen, ResolveNamedEntities, pool
  <1>5. result' = result
    BY DEF ResolveNamedEntities
  <1> QED BY <1>1, <1>2, <1>3, <1>4, <1>5, GoesOn DEF Inv

(* Clarify keeps the invariant.                                            *)
LEMMA ClarifyStep == Inv /\ RequestClarification => Inv'
  <1> SUFFICES ASSUME Inv, RequestClarification PROVE Inv'
    OBVIOUS
  <1> DEFINE a == "request_clarification"
  <1>1. a \in Actions \ Ends /\ Chooses(a) /\ a # "understand_preference"
    BY DEF RequestClarification, Actions, Ends
  <1>2. result' \in Result /\ result'.status = "needs_clarification" /\ policy' = policy
    BY DEF RequestClarification, Result, Statuses, scope
  <1>3. TypeOK'
    BY <1>1, <1>2, Choosing, PoolTyped
       DEF Inv, TypeOK, Chosen, Result, RequestClarification, pool, scope
  <1>4. InTime'
    BY <1>1, Choosing DEF InTime
  <1>5. OfferIsAllowed' /\ GivesUpLast' /\ OpenPoolIsBroadened'
    BY <1>2 DEF OfferIsAllowed, GivesUpLast, OpenPoolIsBroadened
  <1>6. NamesTheResolved'
    BY <1>1, Choosing, KeepsLock DEF RequestClarification, scope
  <1> QED BY <1>1, <1>2, <1>3, <1>4, <1>5, <1>6, KeepsPolicy DEF Inv

(* The actions that only add to the pool.                                  *)
LEMMA GatherStep ==
  Inv /\ (SearchCatalog \/ ExpandArtistCatalog \/ SearchKnowledge
            \/ (\E a \in Searches : Discover(a)) \/ ResolveMusicBrainz) => Inv'
  <1> SUFFICES ASSUME Inv,
                      SearchCatalog \/ ExpandArtistCatalog \/ SearchKnowledge
                        \/ (\E a \in Searches : Discover(a)) \/ ResolveMusicBrainz
               PROVE  Inv'
    OBVIOUS
  <1> DEFINE Gathers(a) ==
        /\ a \in Actions \ Ends /\ Chooses(a) /\ a # "understand_preference"
        /\ UNCHANGED <<policy, resolved, reformed, clarify, seeds, ranked, result>>
        /\ recordings' \in SUBSET Recording /\ recordings \subseteq recordings'
        /\ hints' \in SUBSET Hinted /\ rounds' \in 0..Rounds
        /\ expanded' \in BOOLEAN /\ noGain' \in BOOLEAN
  <1>1. /\ recordings \subseteq Recording /\ hints \subseteq Hinted /\ rounds \in 0..Rounds
        /\ expanded \in BOOLEAN
    BY DEF Inv, TypeOK
  <1>2. ASSUME SearchCatalog PROVE Gathers("search_catalog")
    BY <1>1, <1>2 DEF SearchCatalog, Actions, Ends, scope
  <1>3. ASSUME ExpandArtistCatalog PROVE Gathers("expand_artist_catalog")
    BY <1>1, <1>3 DEF ExpandArtistCatalog, Actions, Ends
  <1>4. ASSUME SearchKnowledge PROVE Gathers("search_knowledge")
    BY <1>1, <1>4 DEF SearchKnowledge, Actions, Ends, scope, pool
  <1>5. ASSUME NEW a \in Searches, Discover(a) PROVE Gathers(a)
    <2>1. a \in Actions \ Ends /\ a # "understand_preference"
      BY DEF Searches, Actions, Ends
    <2>2. CASE UNCHANGED pool /\ noGain' = TRUE
      BY <1>1, <1>5, <2>1, <2>2 DEF Discover, scope, pool
    <2>3. ASSUME NEW accepted \in SUBSET {r \in Hinted : HintAllowed(r)},
                 hints' = hints \cup accepted, noGain' = (accepted = {}),
                 rounds' = Min({rounds + 1, Rounds}), UNCHANGED <<recordings, ranked>>
          PROVE  Gathers(a)
      <3>1. rounds' \in 0..Rounds
        BY <1>1, <2>3, MinOfTwo
      <3> QED BY <1>1, <1>5, <2>1, <2>3, <3>1 DEF Discover, scope
    <2> QED BY <1>5, <2>2, <2>3 DEF Discover
  <1>6. ASSUME ResolveMusicBrainz PROVE Gathers("resolve_musicbrainz")
    <2>1. hints' \in SUBSET Hinted /\ noGain' \in BOOLEAN
      BY <1>1, <1>6 DEF ResolveMusicBrainz
    <2>2. recordings' \in SUBSET Recording /\ recordings \subseteq recordings'
      BY <1>1, <1>6, PoolAssumption DEF ResolveMusicBrainz, kSubset
    <2> QED BY <1>1, <1>6, <2>1, <2>2 DEF ResolveMusicBrainz, Actions, Ends, scope
  <1>7. PICK a : Gathers(a)
    BY <1>2, <1>3, <1>4, <1>5, <1>6
  <1>8. TypeOK'
    BY <1>7, Choosing, PoolTyped DEF Inv, TypeOK, Chosen
  <1>9. NamesTheResolved'
    BY <1>7, Choosing, KeepsLock
  <1> QED BY <1>7, <1>8, <1>9, KeepsPolicy, GoesOn DEF Inv

(* Rerank keeps the invariant.                                             *)
LEMMA RerankStep == Inv /\ RerankCandidates => Inv'
  <1> SUFFICES ASSUME Inv, RerankCandidates PROVE Inv'
    OBVIOUS
  <1> DEFINE a == "rerank_candidates"
  <1>1. a \in Actions \ Ends /\ Chooses(a) /\ a # "understand_preference"
    BY DEF RerankCandidates, Actions, Ends
  <1>2. PICK kept \in Deduplicated(recordings) : ranked' \in FirstOf(kept, Target)
    BY DEF RerankCandidates
  <1>3. recordings \in SUBSET Recording
    BY DEF Inv, TypeOK
  <1>4. /\ ranked' \in SUBSET recordings /\ Cardinality(ranked') <= Target
        /\ Cardinality(Versions(ranked')) = Cardinality(ranked')
    BY <1>2, <1>3, RankedIsDistinct, TargetIsPositive
  <1>5. UNCHANGED <<scope, recordings, hints, rounds, result>> /\ noGain' = FALSE
    BY DEF RerankCandidates
  <1>6. TypeOK'
    BY <1>1, <1>3, <1>4, <1>5, Choosing DEF Inv, TypeOK, Chosen, scope
  <1>7. policy' = policy
    BY <1>5 DEF scope
  <1>8. NamesTheResolved'
    BY <1>1, <1>5, Choosing, KeepsLock DEF scope
  <1> QED BY <1>1, <1>5, <1>6, <1>7, <1>8, KeepsPolicy, GoesOn DEF Inv

(* What can be offered: recordings of the pool, no version twice.          *)
LEMMA AvailableIsDistinct ==
  ASSUME TypeOK, NEW available \in Available
  PROVE  /\ available \in SUBSET Recording
         /\ Cardinality(Versions(available)) = Cardinality(available)
  BY DEF TypeOK, Available, Deduplicated

(* The result that is built from it: only what is allowed now.             *)
LEMMA BuiltResult ==
  ASSUME TypeOK, NEW available \in Available, NEW insufficient \in BOOLEAN,
         BuildResult(available, insufficient)
  PROVE  /\ result' \in Result /\ result' # NoResult
         /\ result'.status \in {"insufficient_candidates", "ready_for_confirmation"}
         /\ \A r \in result'.items : Allowed(r)
         /\ result'.status = "ready_for_confirmation" =>
              /\ ~insufficient
              /\ Cardinality(result'.items) = Target
              /\ Cardinality(Versions(result'.items)) = Target
  <1>1. PICK items \in FirstOf(Eligible(available), Target) :
          result' = [status |-> IF insufficient \/ Cardinality(items) < Target
                                THEN "insufficient_candidates" ELSE "ready_for_confirmation",
                     items |-> items]
    BY DEF BuildResult
  <1>2. available \in SUBSET Recording /\ Cardinality(Versions(available)) = Cardinality(available)
    BY AvailableIsDistinct
  <1>3. Eligible(available) \in SUBSET available
    BY DEF Eligible
  <1>4. /\ items \in SUBSET Eligible(available) /\ Cardinality(items) \in Nat
        /\ Cardinality(items) <= Target
    BY <1>2, <1>3, FirstOfIsPart, TargetIsPositive
  <1>5. Cardinality(Versions(items)) = Cardinality(items)
    BY <1>2, <1>3, <1>4, DistinctVersions
  <1>6. result' \in Result /\ result' # NoResult
    BY <1>1, <1>2, <1>3, <1>4 DEF Result, Statuses, NoResult
  <1>7. \A r \in result'.items : Allowed(r)
    BY <1>1, <1>4 DEF Eligible
  <1>8. result'.status = "ready_for_confirmation" =>
          ~insufficient /\ ~(Cardinality(items) < Target)
    BY <1>1
  <1> QED BY <1>1, <1>4, <1>5, <1>6, <1>7, <1>8, TargetIsPositive

(* An end that builds a result.                                            *)
LEMMA EndStep ==
  ASSUME Inv, NEW a \in Ends, Chooses(a), UNCHANGED <<scope, pool>>, noGain' \in BOOLEAN,
         NEW available \in Available, BuildResult(available, a = "finish_insufficient")
  PROVE  Inv'
  <1>1. TypeOK /\ a \in Actions /\ a # "understand_preference"
    BY DEF Inv, Ends, Actions
  <1>2. policy' = policy /\ recordings' = recordings /\ rounds' = rounds /\ hints' = hints
    BY DEF scope, pool
  <1>3. /\ result' \in Result
        /\ result'.status \in {"insufficient_candidates", "ready_for_confirmation"}
        /\ result' # NoResult /\ \A r \in result'.items : Allowed(r)
        /\ result'.status = "ready_for_confirmation" =>
              /\ a = "submit_candidates"
              /\ Cardinality(result'.items) = Target
              /\ Cardinality(Versions(result'.items)) = Target
    BY <1>1, BuiltResult DEF Ends
  <1>4. TypeOK'
    BY <1>1, <1>3, Choosing, PoolTyped DEF TypeOK, Chosen, Result, scope, pool
  <1>5. InTime'
    BY <1>1, <1>3, Choosing DEF InTime
  <1>6. OfferIsAllowed'
    <2>1. policy'.mode # "NONE"
      BY <1>1, <1>2, KeepsPolicy
    <2>2. \A r \in result'.items : Allowed(r)'
      BY <1>2, <1>3 DEF Allowed
    <2> QED BY <1>3, <2>1, <2>2 DEF OfferIsAllowed
  <1>7. PICK p \in Actions : Decision(p) = a
    BY DEF Chooses
  <1>8. terminated' = Termination /\ Enough' = Enough /\ Narrow' = Narrow /\ rounds \in Nat
        /\ tried \subseteq tried'
    BY <1>1, <1>2 DEF Chooses, Enough, Narrow, TypeOK
  <1>9. GivesUpLast'
    BY <1>2, <1>7, <1>8, ClosesShortPoolLast DEF GivesUpLast, Ends
  <1>10. OpenPoolIsBroadened'
    BY <1>3, <1>7, <1>8, NarrowPoolIsBroadened DEF OpenPoolIsBroadened
  <1>11. NamesTheResolved'
    BY <1>1, Choosing, KeepsLock DEF scope
  <1> QED BY <1>1, <1>2, <1>4, <1>5, <1>6, <1>9, <1>10, <1>11, KeepsPolicy DEF Inv

(* Or the gate sends the pool back: then a decision is left, for it does   *)
(* so only in the first ones.                                              *)
LEMMA SubmitStep == Inv /\ SubmitCandidates => Inv'
  <1> SUFFICES ASSUME Inv, SubmitCandidates PROVE Inv'
    OBVIOUS
  <1> DEFINE a == "submit_candidates"
  <1>1. /\ a \in Ends /\ a \in Actions /\ Chooses(a) /\ UNCHANGED <<scope, pool>>
        /\ TypeOK /\ a # "understand_preference"
    BY DEF SubmitCandidates, Ends, Actions, Inv
  <1>2. PICK available \in Available :
          \/ SentBack(available) /\ noGain' = FALSE /\ UNCHANGED result
          \/ ~SentBack(available) /\ BuildResult(available, FALSE) /\ UNCHANGED noGain
    BY DEF SubmitCandidates
  <1>3. CASE BuildResult(available, FALSE) /\ UNCHANGED noGain
    <2>1. (a = "finish_insufficient") = FALSE /\ noGain' \in BOOLEAN
      BY <1>1, <1>3 DEF TypeOK
    <2> QED BY <1>1, <1>3, <2>1, EndStep
  <1>4. CASE SentBack(available) /\ noGain' = FALSE /\ UNCHANGED result
    <2>1. iteration \in Nat /\ iteration' = iteration + 1 /\ iteration + 1 < CheckedUntil
      BY <1>1, <1>4 DEF SentBack, TypeOK, Chooses
    <2>2. result' = NoResult /\ result'.status = "none" /\ policy' = policy
      BY <1>1, <1>4 DEF Chooses, NoResult, scope
    <2>3. InTime'
      BY <2>1 DEF InTime
    <2>4. TypeOK'
      BY <1>1, <1>4, Choosing, PoolTyped DEF TypeOK, Chosen, scope, pool
    <2>5. OfferIsAllowed' /\ GivesUpLast' /\ OpenPoolIsBroadened'
      BY <2>2 DEF OfferIsAllowed, GivesUpLast, OpenPoolIsBroadened
    <2>6. NamesTheResolved'
      BY <1>1, Choosing, KeepsLock DEF scope
    <2> QED BY <1>1, <2>2, <2>3, <2>4, <2>5, <2>6, KeepsPolicy DEF Inv
  <1> QED BY <1>2, <1>3, <1>4

(* Finish keeps the invariant.                                             *)
LEMMA FinishStep == Inv /\ FinishInsufficient => Inv'
  <1> SUFFICES ASSUME Inv, FinishInsufficient PROVE Inv'
    OBVIOUS
  <1> DEFINE a == "finish_insufficient"
  <1>1. a \in Ends /\ Chooses(a) /\ UNCHANGED <<scope, pool>> /\ noGain' \in BOOLEAN
    BY DEF FinishInsufficient, Ends, Inv, TypeOK
  <1>2. PICK available \in Available : BuildResult(available, a = "finish_insufficient")
    BY DEF FinishInsufficient
  <1> QED BY <1>1, <1>2, EndStep

(* A step that changes nothing keeps the invariant.                        *)
LEMMA StutterStep == Inv /\ UNCHANGED vars => Inv'
  <1> SUFFICES ASSUME Inv, UNCHANGED vars PROVE Inv'
    OBVIOUS
  <1> USE DEF vars, pool, scope, control
  <1>1. TypeOK'
    BY DEF Inv, TypeOK
  <1>2. OfferIsAllowed'
    BY DEF Inv, OfferIsAllowed, Allowed
  <1>3. UnderstandsFirst' /\ HeedsTheWords' /\ NamesTheResolved' /\ InTime'
    BY DEF Inv, UnderstandsFirst, HeedsTheWords, NamesTheResolved, InTime
  <1>4. GivesUpLast' /\ OpenPoolIsBroadened'
    BY DEF Inv, GivesUpLast, OpenPoolIsBroadened, Enough, Narrow
  <1> QED BY <1>1, <1>2, <1>3, <1>4 DEF Inv

(* Every step keeps the invariant.                                         *)
LEMMA NextInv == Inv /\ [Next]_vars => Inv'
  BY UnderstandStep, ResolveStep, ClarifyStep, GatherStep, RerankStep, SubmitStep, FinishStep,
     StutterStep
  DEF Next

(* The invariant holds throughout.                                         *)
LEMMA Invariant == Spec => []Inv
  BY InitInv, NextInv, PTL DEF Spec

-----------------------------------------------------------------------------
(* Theorems *)

(* Every variable of the graph keeps its type, and the ranked list never   *)
(* holds two recordings of one song: graph.py 701-708, _deduplicate_versions. *)
THEOREM PoolGraphTyped == Spec => []TypeOK
  <1>1. Inv => TypeOK
    BY DEF Inv
  <1> QED BY <1>1, Invariant, PTL

(* What is offered for a tournament fills both halves, has no song twice   *)
(* and keeps to the user's lock: to the request's ids however often the    *)
(* policy is formed anew, and to the artists resolved unless it is formed  *)
(* anew after they were: graph.py 250 and 274-277, llm.py 141-149.         *)
THEOREM OfferIsPlayable == Spec => []PoolIsPlayable
  <1>1. Inv => PoolIsPlayable
    <2> SUFFICES ASSUME Inv PROVE PoolIsPlayable
      OBVIOUS
    <2>1. policy.mode = "ARTIST_LOCKED" => request.locked
      BY DEF Inv, HeedsTheWords
    <2>2. ASSUME result.status = "ready_for_confirmation", request.locked
          PROVE  \A r \in result.items :
                   ArtistOf(r) \in (IF request.seeds # {} THEN request.seeds ELSE policy.names)
      <3>1. policy.mode = "ARTIST_LOCKED" /\ policy.ids = request.seeds
        BY <2>2 DEF Inv, OfferIsAllowed, HeedsTheWords
      <3>2. \A r \in result.items : Allowed(r)
        BY <2>2 DEF Inv, OfferIsAllowed
      <3> QED BY <3>1, <3>2 DEF Allowed
    <2>3. ASSUME result.status = "ready_for_confirmation", request.locked, request.seeds # {}
          PROVE  Performers(result.items) \subseteq request.seeds
      BY <2>2, <2>3 DEF Performers
    <2>4. ASSUME result.status = "ready_for_confirmation", request.locked, request.seeds = {},
                 seeds # {}, ~reformed
          PROVE  Performers(result.items) \subseteq seeds
      BY <2>2, <2>4 DEF Inv, NamesTheResolved, Performers
    <2> QED BY <2>1, <2>3, <2>4 DEF Inv, OfferIsAllowed, PoolIsPlayable
  <1> QED BY <1>1, Invariant, PTL

(* A pool is called too small only when budget or patience is spent, or    *)
(* after the agreed rounds with every hint resolved, whichever of the      *)
(* supervisor's rules spoke last.                                          *)
THEOREM GivingUpComesLast == Spec => []GivesUpLast
  <1>1. Inv => GivesUpLast
    BY DEF Inv
  <1> QED BY <1>1, Invariant, PTL

(* An open request that one artist answers is offered only after the web   *)
(* was tried, or when time is up: graph.py 167-181.                        *)
THEOREM OneArtistIsBroadened == Spec => []OpenPoolIsBroadened
  <1>1. Inv => OpenPoolIsBroadened
    BY DEF Inv
  <1> QED BY <1>1, Invariant, PTL

(* No run takes more decisions than the budget and one that ends it.       *)
THEOREM DecisionsAreBounded == Spec => []WithinBudget
  <1>1. Inv => WithinBudget
    BY DEF Inv, InTime, WithinBudget
  <1> QED BY <1>1, Invariant, PTL
=============================================================================
