----------------------- MODULE ConversationGraphProofs -----------------------
(***************************************************************************)
(* Proofs about a turn of the music agent, for every message, direction,   *)
(* set of pages and workers, and every budget that leaves the framework's  *)
(* limit above the plain turn's.                                           *)
(***************************************************************************)
EXTENDS ConversationGraph, FiniteSetTheorems, TLAPS

(* What the assumptions say of the constants, one by one.                  *)
LEMMA Bounds ==
  /\ AnalysisIterations \in Nat \ {0} /\ PlainIterations \in Nat \ {0}
  /\ AnalysisSearches \in Nat \ {0} /\ PlainSearches \in Nat \ {0}
  /\ MaxReads \in Nat \ {0} /\ EnoughSources \in Nat \ {0} /\ MaxRefs \in Nat \ {0}
  /\ RecursionLimit \in Nat \ {0} /\ MaxAttempts \in Nat \ {0} /\ MaxDirections \in Nat
  /\ PlainSearches <= AnalysisSearches /\ 2 * (PlainIterations + 1) < RecursionLimit
  BY BudgetAssumption

USE Bounds

-----------------------------------------------------------------------------
(* The inductive invariant *)

(* While a worker runs the graph nobody has left a result on the thread,   *)
(* and what the graph has heard is what it polled; from the decision to    *)
(* the answer that is all that is marked applied.                          *)
HearsWhatIsMarked ==
  process \in Workers =>
    /\ pc \in {"initialize", "supervisor", "execute_action", "raised"} =>
         \A w \in Workers : saved[w] = NoResult
    /\ pc \in {"supervisor", "execute_action"} => heard = applied
    /\ pc = "execute_action" => applied = marked
    /\ pc \in {"end", "published", "waiting"} => saved[process].heard = marked

(* A search is remembered, and what a search was decided on still holds    *)
(* when it is carried out.                                                 *)
SearchesWereDecided ==
  /\ attempts > 0 => "search_web" \in history
  /\ pc = "execute_action" /\ decision = "search_web" =>
       /\ "search_web" \in history
       /\ HasLastfm => attempts < SearchLimit(message) \/ NoSources

(* Two supersteps for every decision; in a turn that is not prolonged the  *)
(* one after the budget answers.                                           *)
CountsSteps ==
  /\ pc = "initialize" => steps = 0
  /\ ~workspace /\ applied = 0 =>
       /\ pc = "supervisor" => steps = 2 * iteration + 1 /\ iteration <= PlainIterations
       /\ pc = "execute_action" =>
            /\ steps = 2 * iteration
            /\ \/ iteration <= PlainIterations
               \/ iteration = PlainIterations + 1 /\ decision = "respond"

Inv == TypeOK /\ HearsWhatIsMarked /\ SearchesWereDecided /\ CountsSteps

-----------------------------------------------------------------------------
(* Lists of sources *)

(* In a finite set of numbers every rank up to its size is that of exactly *)
(* one member.                                                             *)
LEMMA Ranks ==
  ASSUME NEW S \in SUBSET Nat, IsFiniteSet(S)
  PROVE  /\ Cardinality(S) \in Nat
         /\ \A i \in S : Cardinality({j \in S : j <= i}) \in 1..Cardinality(S)
         /\ \A i, k \in S : Cardinality({j \in S : j <= i}) = Cardinality({j \in S : j <= k})
                            => i = k
         /\ \A r \in 1..Cardinality(S) :
              \E i \in S : Cardinality({j \in S : j <= i}) = r
  <1> DEFINE upTo(i) == {j \in S : j <= i}
             n == Cardinality(S)
             rank == [i \in S |-> Cardinality(upTo(i))]
  <1>1. n \in Nat
    BY FS_CardinalityType
  <1>2. ASSUME NEW i \in S
        PROVE  upTo(i) \in SUBSET S /\ IsFiniteSet(upTo(i)) /\ Cardinality(upTo(i)) \in 1..n
    <2>1. upTo(i) \in SUBSET S /\ i \in upTo(i)
      OBVIOUS
    <2> HIDE DEF upTo
    <2>2. IsFiniteSet(upTo(i)) /\ Cardinality(upTo(i)) <= n /\ Cardinality(upTo(i)) \in Nat
      BY <2>1, FS_Subset, FS_CardinalityType
    <2>3. Cardinality(upTo(i)) # 0
      BY <2>1, <2>2, FS_EmptySet
    <2> HIDE DEF n
    <2> QED BY <1>1, <2>1, <2>2, <2>3
  <1>3. ASSUME NEW i \in S, NEW k \in S, i < k
        PROVE  rank[i] # rank[k]
    <2>1. i \in Nat /\ k \in Nat /\ \A j \in S : j \in Nat
      OBVIOUS
    <2>2. upTo(i) \in SUBSET upTo(k) /\ k \in upTo(k) /\ k \notin upTo(i)
      <3> HIDE DEF rank, n
      <3>1. \A j \in S : j <= i => j <= k
        BY <1>3, <2>1
      <3>2. k <= k /\ ~(k <= i)
        BY <1>3, <2>1
      <3> QED BY <3>1, <3>2
    <2>3. Cardinality(upTo(k)) = Cardinality(upTo(i)) => upTo(k) = upTo(i)
      <3> HIDE DEF upTo
      <3> QED BY <1>2, <2>2, FS_Subset
    <2> QED BY <2>2, <2>3
  <1>4. \A i, k \in S : rank[i] = rank[k] => i = k
    <2>1. \A i, k \in S : i < k \/ k < i \/ i = k
      OBVIOUS
    <2> HIDE DEF rank
    <2> QED BY <1>3, <2>1
  <1>5. rank \in [S -> 1..n]
    BY <1>2
  <1>6. \A i \in S : rank[i] = Cardinality({j \in S : j <= i})
    OBVIOUS
  <1>7. rank \in Surjection(S, 1..n)
    <2> HIDE DEF rank
    <2>1. rank \in Injection(S, 1..n)
      BY <1>4, <1>5 DEF Injection, IsInjective
    <2>2. IsFiniteSet(1..n) /\ Cardinality(1..n) = n
      BY <1>1, FS_Interval
    <2> QED BY <2>1, <2>2, FS_Injection
  <1>8. \A r \in 1..n : \E i \in S : rank[i] = r
    <2> HIDE DEF rank, n
    <2> QED BY <1>7 DEF Surjection
  <1> HIDE DEF rank
  <1> QED BY <1>1, <1>4, <1>5, <1>6, <1>8

(* A list of distinct pages.                                               *)
Pages(s) == s \in Seq(Source) /\ IsInjective(s)

(* A set of pages is listed once each.                                     *)
LEMMA Listed ==
  ASSUME NEW S \in SUBSET Source
  PROVE  Pages(SetToSeq(S)) /\ ToSet(SetToSeq(S)) \subseteq S
  <1>1. IsFiniteSet(S)
    BY ConversationAssumption, FS_Subset
  <1>2. PICK f \in Bijection(1..Cardinality(S), S) : TRUE
    BY <1>1, FS_CardinalityType DEF ExistsBijection
  <1>3. f \in [1..Cardinality(S) -> S] /\ IsInjective(f)
    BY <1>2 DEF Bijection, Injection
  <1>4. SetToSeq(S) \in [1..Cardinality(S) -> S] /\ IsInjective(SetToSeq(S))
    BY <1>3 DEF SetToSeq
  <1>5. Cardinality(S) \in Nat
    BY <1>1, FS_CardinalityType
  <1> DEFINE q == SetToSeq(S)
             n == Cardinality(S)
  <1> HIDE DEF q, n
  <1>6. q \in [1..n -> S] /\ IsInjective(q) /\ n \in Nat
    BY <1>4, <1>5 DEF q, n
  <1>7. q \in Seq(Source) /\ DOMAIN q = 1..n
    BY <1>6
  <1>8. Pages(q) /\ ToSet(q) \subseteq S
    BY <1>6, <1>7 DEF Pages, ToSet
  <1> QED BY <1>8 DEF q

(* The first n numbers are n.                                              *)
LEMMA FirstNumbers ==
  ASSUME NEW n \in Nat
  PROVE  IsFiniteSet(1..n) /\ Cardinality(1..n) = n
  BY FS_Interval

(* A list of distinct pages is no longer than there are pages.             *)
LEMMA NoMoreThanThereAre ==
  ASSUME NEW s, Pages(s)
  PROVE  Len(s) \in Nat /\ Cardinality(Source) \in Nat /\ Len(s) <= Cardinality(Source)
  <1>1. s \in Injection(1..Len(s), Source) /\ Len(s) \in Nat
    BY DEF Pages, Injection
  <1>2. Cardinality(1..Len(s)) = Len(s)
    BY <1>1, FirstNumbers
  <1> QED BY <1>1, <1>2, ConversationAssumption, FS_Injection, FS_CardinalityType

(* What one list adds to another: every page of both, none of them twice.  *)
LEMMA BeyondIsMerged ==
  ASSUME NEW kept, Pages(kept), NEW more, Pages(more)
  PROVE  /\ Pages(Beyond(kept, more))
         /\ ToSet(kept) \cup ToSet(more) \subseteq ToSet(Beyond(kept, more))
  <1> DEFINE added == {i \in DOMAIN more : more[i] \notin ToSet(kept)}
             n == Cardinality(added)
             rank(i) == Cardinality({j \in added : j <= i})
             Nth(k) == CHOOSE i \in added : rank(i) = k
             tail == [k \in 1..n |-> more[Nth(k)]]
  <1>1. /\ added \in SUBSET (1..Len(more)) /\ Len(more) \in Nat /\ Len(kept) \in Nat
        /\ kept \in Seq(Source) /\ more \in Seq(Source)
        /\ \A i, j \in 1..Len(kept) : kept[i] = kept[j] => i = j
        /\ \A i, j \in 1..Len(more) : more[i] = more[j] => i = j
    BY DEF Pages, IsInjective
  <1>2. added \in SUBSET Nat /\ IsFiniteSet(added)
    <2>1. IsFiniteSet(1..Len(more)) /\ \A i \in 1..Len(more) : i \in Nat
      BY <1>1, FirstNumbers
    <2> QED BY <1>1, <2>1, FS_Subset
  <1> HIDE DEF added
  <1>3. /\ n \in Nat /\ \A i \in added : rank(i) \in 1..n
        /\ \A i, k \in added : rank(i) = rank(k) => i = k
        /\ \A r \in 1..n : \E i \in added : rank(i) = r
    BY <1>2, Ranks
  <1> HIDE DEF n, rank
  <1>4. \A k \in 1..n : Nth(k) \in added /\ rank(Nth(k)) = k
    BY <1>3
  <1>5. \A i \in added : Nth(rank(i)) = i
    BY <1>3, <1>4
  <1> HIDE DEF Nth
  <1>6. \A i \in added : i \in 1..Len(more) /\ more[i] \in Source /\ more[i] \notin ToSet(kept)
    BY <1>1 DEF added
  <1>7. tail \in Seq(Source) /\ Len(tail) = n
    BY <1>3, <1>4, <1>6
  <1>8. \A k \in 1..n : tail[k] = more[Nth(k)]
    OBVIOUS
  <1>9. \A k \in 1..n : tail[k] \notin ToSet(kept)
    BY <1>4, <1>6, <1>8
  <1>10. \A k, l \in 1..n : tail[k] = tail[l] => k = l
    <2> TAKE k, l \in 1..n
    <2> HAVE tail[k] = tail[l]
    <2>1. more[Nth(k)] = more[Nth(l)]
      BY <1>8
    <2>2. Nth(k) = Nth(l)
      BY <1>1, <1>4, <1>6, <2>1
    <2> QED BY <1>4, <2>2
  <1>11. Beyond(kept, more) = kept \o tail
    BY DEF Beyond, added, n, Nth, rank
  <1> HIDE DEF tail
  <1> DEFINE m == Len(kept)
             all == kept \o tail
  <1>12. /\ all \in Seq(Source) /\ Len(all) = m + n /\ m \in Nat
         /\ \A i \in 1..m : all[i] = kept[i]
         /\ \A i \in 1..n : all[m + i] = tail[i]
    <2>1. all \in Seq(Source) /\ Len(all) = m + n /\ m \in Nat
      BY <1>1, <1>7
    <2>2. \A i \in 1..m : all[i] = kept[i]
      BY <1>1, <1>7
    <2>3. \A i \in 1..n : all[m + i] = tail[i]
      BY <1>1, <1>3, <1>7
    <2> QED BY <2>1, <2>2, <2>3
  <1>13. \A i \in 1..(m + n) : i \in 1..m \/ i - m \in 1..n
    BY <1>3, <1>12
  <1>14. \A i \in 1..n : m + i \in 1..(m + n) /\ (m + i) - m = i
    BY <1>3, <1>12
  <1>15. \A i \in 1..m : i \in 1..(m + n)
    BY <1>3, <1>12
  <1>16. \A i \in 1..(m + n) : i \notin 1..m => all[i] = tail[i - m] /\ i - m \in 1..n
    <2> TAKE i \in 1..(m + n)
    <2> HAVE i \notin 1..m
    <2>1. i - m \in 1..n /\ m + (i - m) = i
      BY <1>3, <1>12, <1>13
    <2>2. all[m + (i - m)] = tail[i - m]
      BY <1>12, <2>1
    <2> QED BY <2>1, <2>2
  <1>17. kept \in Seq(Source) /\ \A i \in 1..m : kept[i] \in ToSet(kept)
    BY <1>1 DEF ToSet
  <1> HIDE DEF all, m
  <1>18. ASSUME NEW i \in 1..(m + n), NEW j \in 1..(m + n), all[i] = all[j]
         PROVE  i = j
    <2>1. CASE i \in 1..m /\ j \in 1..m
      BY <1>1, <1>12, <1>18, <2>1 DEF m
    <2>2. CASE i \in 1..m /\ j \notin 1..m
      BY <1>9, <1>12, <1>16, <1>17, <1>18, <2>2
    <2>3. CASE i \notin 1..m /\ j \in 1..m
      BY <1>9, <1>12, <1>16, <1>17, <1>18, <2>3
    <2>4. CASE i \notin 1..m /\ j \notin 1..m
      <3>1. i - m = j - m
        BY <1>10, <1>16, <1>18, <2>4
      <3>2. i \in Int /\ j \in Int /\ m \in Int
        BY <1>3, <1>12
      <3> QED BY <3>1, <3>2
    <2> QED BY <2>1, <2>2, <2>3, <2>4
  <1>19. Pages(all)
    <2>1. DOMAIN all = 1..(m + n)
      BY <1>12
    <2> QED BY <1>12, <1>18, <2>1 DEF Pages, IsInjective
  <1>20. ToSet(all) = {all[i] : i \in 1..(m + n)}
    BY <1>12 DEF ToSet
  <1>21. ToSet(kept) = {kept[i] : i \in 1..m} /\ ToSet(more) = {more[i] : i \in 1..Len(more)}
    BY <1>1 DEF ToSet, m
  <1>22. ToSet(kept) \subseteq ToSet(all)
    BY <1>12, <1>15, <1>20, <1>21
  <1>23. ASSUME NEW i \in 1..Len(more)
         PROVE  more[i] \in ToSet(all)
    <2>1. CASE more[i] \in ToSet(kept)
      BY <1>22, <2>1
    <2>2. CASE more[i] \notin ToSet(kept)
      <3>1. i \in added
        BY <1>1, <2>2 DEF added
      <3>2. rank(i) \in 1..n /\ tail[rank(i)] = more[i]
        BY <1>3, <1>5, <1>8, <3>1
      <3>3. all[m + rank(i)] = more[i] /\ m + rank(i) \in 1..(m + n)
        BY <1>12, <1>14, <3>2
      <3> QED BY <1>20, <3>3
    <2> QED BY <2>1, <2>2
  <1>24. Beyond(kept, more) = all
    BY <1>11 DEF all
  <1> QED BY <1>19, <1>21, <1>22, <1>23, <1>24

(* Merged sources keep every page, and none of them twice.                 *)
LEMMA MergeKeeps ==
  ASSUME NEW old, Pages(old), NEW new, Pages(new), NEW prefer \in BOOLEAN
  PROVE  /\ Pages(MergeWebSources(old, new, prefer))
         /\ ToSet(old) \subseteq ToSet(MergeWebSources(old, new, prefer))
  BY BeyondIsMerged DEF MergeWebSources

-----------------------------------------------------------------------------
(* The overrides of decide *)

(* What replaces a failed proposal is an action.                           *)
LEMMA FallbackTyped ==
  ASSUME NEW m
  PROVE  FallbackDecision(m) \in Actions
  <1> DEFINE researched == history \cap {"search_web", "search_knowledge"} # {}
             report == "report" \in m.traits
  <1>1. CASE researched
    BY <1>1 DEF FallbackDecision, Either, Actions
  <1>2. CASE ~researched
    BY <1>2 DEF FallbackDecision, Either, Actions
  <1> QED BY <1>1, <1>2

(* What the rules make of a proposal is an action.                         *)
LEMMA OverrideTyped ==
  ASSUME NEW m, NEW p \in Actions
  PROVE  Override(m, p) \in Actions
  <1>1. RedirectResearch(m, p) \in Actions
    BY DEF RedirectResearch, Either, Actions, Research
  <1>2. InsteadOfTournament(m) \in Actions
    BY DEF InsteadOfTournament, Either, Actions
  <1>3. SettleProposal(m, p) \in Actions
    BY DEF SettleProposal, Either, Actions
  <1>4. {"search_web", "analyze_music", "read_source"} \subseteq Actions
    BY DEF Actions
  <1> QED BY <1>1, <1>2, <1>3, <1>4 DEF Override, Either

(* So is every decision.                                                   *)
LEMMA DecideTyped ==
  ASSUME NEW m \in Message, NEW d \in Decide(m)
  PROVE  d \in Actions
  <1>1. m.forced # "none" => m.forced \in Actions
    BY DEF Message, Forced, Actions
  <1>2. "clarify" \in Actions
    BY DEF Actions
  <1> QED BY <1>1, <1>2, FallbackTyped, OverrideTyped DEF Decide

(* Of all the rules that can put a search in the place of a proposal, or   *)
(* leave one there, each looks at the budget or at an empty hand.          *)
LEMMA SearchIsInBudget ==
  ASSUME NEW m \in Message, "search_web" \in Decide(m), HasLastfm,
         attempts \in Nat, attempts > 0 => "search_web" \in history
  PROVE  attempts < SearchLimit(m) \/ NoSources
  <1> SUFFICES ASSUME ~(attempts < SearchLimit(m)), ~NoSources PROVE FALSE
    OBVIOUS
  <1>1. ~(attempts < PlainSearches) /\ (AnalysisMode(m) => ~MaySearch)
    BY DEF SearchLimit, MaySearch
  <1>2. "search_web" \in history /\ ~MayFillGap
    BY <1>1 DEF MayFillGap
  <1>3. FallbackDecision(m) # "search_web"
    BY <1>2 DEF FallbackDecision, Either
  <1>4. ASSUME NEW p \in Actions PROVE Override(m, p) # "search_web"
    <2>1. NeedsRedirect(p) => RedirectResearch(m, p) # "search_web"
      BY <1>1 DEF RedirectResearch, Either
    <2>2. InsteadOfTournament(m) # "search_web"
      BY <1>1 DEF InsteadOfTournament, Either
    <2>3. ~NeedsEvidence(m, p)
      BY <1>1 DEF NeedsEvidence
    <2>4. SettleProposal(m, p) # "search_web"
      <3>1. attempts >= SearchLimit(m)
        BY DEF SearchLimit
      <3>2. CASE p = "search_web"
        BY <1>2, <3>1, <3>2 DEF SettleProposal, Either
      <3>3. CASE p # "search_web"
        BY <1>2, <3>3 DEF SettleProposal, Either
      <3> QED BY <3>2, <3>3
    <2> QED BY <1>1, <2>1, <2>2, <2>3, <2>4 DEF Override, Either
  <1>5. m.forced # "search_web"
    BY DEF Message, Forced
  <1> QED BY <1>3, <1>4, <1>5 DEF Decide

-----------------------------------------------------------------------------
(* The types, in the parts that the steps change together *)

Pcs == {"initialize", "supervisor", "execute_action", "end", "raised",
        "published", "waiting", "failed"}
PlaceTyped ==
  /\ pc \in Pcs /\ steps \in 0..RecursionLimit /\ process \in Processes
  /\ attemptNo \in 1..MaxAttempts /\ asked \in Message
TurnTyped ==
  /\ message \in Message /\ workspace \in BOOLEAN /\ needs \in SUBSET Needs
  /\ ambiguous \in BOOLEAN
  /\ history \subseteq Remembered /\ iteration \in Nat /\ decision \in Actions \cup {"none"}
MailTyped ==
  /\ heard \in 0..MaxDirections /\ posted \in 0..MaxDirections
  /\ marked \in 0..posted /\ applied \in 0..marked
EvidenceTyped ==
  /\ Pages(sources) /\ excerpts \subseteq ToSet(sources)
  /\ readRefs \subseteq 1..Cardinality(Source) /\ gaps \in BOOLEAN
  /\ research \in {"none", "ready", "not_ready"} /\ attempts \in Nat /\ barren \subseteq Research
SavedTyped == saved \in [Processes -> Results]

(* The type invariant by the parts that a step changes together.           *)
LEMMA TypesApart ==
  /\ TypeOK <=> PlaceTyped /\ TurnTyped /\ MailTyped /\ EvidenceTyped /\ SavedTyped
  /\ TypeOK' <=> PlaceTyped' /\ TurnTyped' /\ MailTyped' /\ EvidenceTyped' /\ SavedTyped'
  BY DEF TypeOK, PlaceTyped, TurnTyped, MailTyped, EvidenceTyped, SavedTyped, Pages, Pcs

-----------------------------------------------------------------------------
(* The steps *)

(* The empty list lists nothing.                                           *)
LEMMA EmptyList == Pages(<<>>) /\ ToSet(<<>>) = {}
  BY DEF Pages, IsInjective, ToSet

(* The invariant holds in every initial state.                             *)
LEMMA InitInv == Init => Inv
  <1> SUFFICES ASSUME Init PROVE Inv
    OBVIOUS
  <1>1. PlaceTyped
    <2>1. asked \in Message /\ process \in Processes
      BY ConversationAssumption DEF Init, Processes
    <2>2. pc \in Pcs /\ steps \in 0..RecursionLimit /\ attemptNo \in 1..MaxAttempts
      BY DEF Init, Pcs
    <2> QED BY <2>1, <2>2 DEF PlaceTyped
  <1>2. TurnTyped
    BY ConversationAssumption DEF Init, TurnTyped
  <1>3. MailTyped
    BY DEF Init, MailTyped
  <1>4. EvidenceTyped
    BY EmptyList DEF Init, EvidenceTyped
  <1>5. SavedTyped
    <2>1. NoResult \in Results
      BY DEF NoResult, Results
    <2> QED BY <2>1 DEF Init, SavedTyped
  <1>6. HearsWhatIsMarked
    BY DEF Init, HearsWhatIsMarked, Processes
  <1>7. SearchesWereDecided /\ CountsSteps
    BY DEF Init, SearchesWereDecided, CountsSteps
  <1> QED BY <1>1, <1>2, <1>3, <1>4, <1>5, <1>6, <1>7, TypesApart DEF Inv

(* A run of the graph that is over: nothing of it is left but the result.  *)
LEMMA Forgotten ==
  ASSUME Forget, asked \in Message
  PROVE  /\ TurnTyped' /\ heard' = 0 /\ attempts' = 0 /\ decision' = "none"
         /\ EvidenceTyped' /\ SearchesWereDecided'
  <1>1. TurnTyped'
    BY DEF Forget, TurnTyped
  <1>2. EvidenceTyped'
    BY EmptyList DEF Forget, EvidenceTyped
  <1>3. SearchesWereDecided'
    BY DEF Forget, SearchesWereDecided
  <1> QED BY <1>1, <1>2, <1>3 DEF Forget

(* Initialize keeps the invariant.                                         *)
LEMMA InitializeStep == Inv /\ Initialize => Inv'
  <1> SUFFICES ASSUME Inv, Initialize PROVE Inv'
    OBVIOUS
  <1>1. PlaceTyped /\ TurnTyped /\ MailTyped /\ EvidenceTyped /\ SavedTyped
    BY TypesApart DEF Inv
  <1>2. /\ pc = "initialize" /\ pc' = "supervisor" /\ steps' = 1
        /\ UNCHANGED <<process, attemptNo, asked, message, decision, posted, marked, saved>>
        /\ heard' = 0 /\ applied' = 0 /\ attempts' = 0 /\ history' = {} /\ iteration' = 0
    BY DEF Initialize, Enter, Inv, CountsSteps, MailboxFromStart
  <1>3. PlaceTyped'
    BY <1>1, <1>2 DEF PlaceTyped, Pcs
  <1>4. TurnTyped'
    <2>1. ambiguous' \in BOOLEAN /\ workspace' \in BOOLEAN
      BY DEF Initialize, ResolveEntities, DeepAnalysis
    <2>2. needs' \in SUBSET Needs
      BY DEF Initialize, PlannedNeeds
    <2> QED BY <1>1, <1>2, <2>1, <2>2 DEF TurnTyped
  <1>5. MailTyped'
    BY <1>1, <1>2 DEF MailTyped
  <1>6. EvidenceTyped'
    <2>1. PICK inherited \in SUBSET Source :
            sources' = SetToSeq(inherited) /\ gaps' \in BOOLEAN
      BY DEF Initialize, InheritedSources
    <2>2. Pages(sources)'
      BY <2>1, Listed DEF Pages
    <2> QED BY <2>1, <2>2 DEF EvidenceTyped, Initialize
  <1>7. SavedTyped' /\ HearsWhatIsMarked' /\ SearchesWereDecided' /\ CountsSteps'
    BY <1>1, <1>2 DEF SavedTyped, Inv, HearsWhatIsMarked, SearchesWereDecided, CountsSteps
  <1> QED BY <1>3, <1>4, <1>5, <1>6, <1>7, TypesApart DEF Inv

(* Supervisor keeps the invariant.                                         *)
LEMMA SupervisorStep == Inv /\ Supervisor => Inv'
  <1> SUFFICES ASSUME Inv, Supervisor PROVE Inv'
    OBVIOUS
  <1> DEFINE polls == process \in Workers
             through == IF polls THEN posted ELSE applied
             adjusted == through > applied
             at == IF adjusted THEN 0 ELSE iteration
  <1>1. PlaceTyped /\ TurnTyped /\ MailTyped /\ EvidenceTyped /\ SavedTyped
    BY TypesApart DEF Inv
  <1>2. /\ pc = "supervisor" /\ steps < RecursionLimit /\ steps' = steps + 1
        /\ pc' = "execute_action"
        /\ UNCHANGED <<process, attemptNo, workspace, ambiguous, evidence, posted, saved, asked>>
    BY DEF Supervisor, Enter
  <1>3. /\ applied' = through
        /\ marked' = IF polls /\ through > marked THEN through ELSE marked
        /\ heard' = heard + (through - applied)
        /\ message' \in IF adjusted
                        THEN {[d EXCEPT !.forced = message.forced] : d \in Directions}
                        ELSE {message}
        /\ decision' \in IF Spent(at)
                         THEN {Either(workspace, "analyze_music", "respond")}
                         ELSE Decide(message')
        /\ iteration' = at + 1
        /\ history' = history \cup ({decision'} \cap Remembered)
    BY DEF Supervisor
  <1>4. /\ heard \in 0..MaxDirections /\ posted \in 0..MaxDirections /\ marked \in 0..posted
        /\ applied \in 0..marked /\ (polls => heard = applied)
    BY <1>1, <1>2 DEF MailTyped, Inv, HearsWhatIsMarked
  <1>5. /\ MailTyped' /\ applied <= applied'
        /\ polls => applied' = marked' /\ heard' = applied'
    BY <1>2, <1>3, <1>4 DEF MailTyped
  <1>6. message' \in Message
    <2>1. message \in Message /\ Directions \subseteq Message
      BY <1>1, ConversationAssumption DEF TurnTyped
    <2>2. \A d \in Message : [d EXCEPT !.forced = message.forced] \in Message
      BY <2>1 DEF Message
    <2> QED BY <1>3, <2>1, <2>2
  <1>7. decision' \in Actions
    <2>1. Either(workspace, "analyze_music", "respond") \in Actions
      BY DEF Either, Actions
    <2> QED BY <1>3, <1>6, <2>1, DecideTyped
  <1>8. TurnTyped'
    <2>1. iteration' \in Nat
      BY <1>1, <1>3 DEF TurnTyped
    <2>2. history' \subseteq Remembered
      BY <1>1, <1>3 DEF TurnTyped
    <2>3. needs' \in SUBSET Needs
      BY <1>1 DEF Supervisor, AdjustedNeeds, TurnTyped, Needs
    <2> QED BY <1>1, <1>2, <1>6, <1>7, <2>1, <2>2, <2>3 DEF TurnTyped
  <1>9. PlaceTyped' /\ EvidenceTyped' /\ SavedTyped'
    <2>1. PlaceTyped' /\ SavedTyped'
      BY <1>1, <1>2 DEF PlaceTyped, SavedTyped, Pcs
    <2>2. EvidenceTyped'
      BY <1>1, <1>2 DEF EvidenceTyped, evidence, Pages
    <2> QED BY <2>1, <2>2
  <1>10. HearsWhatIsMarked'
    BY <1>2, <1>5 DEF Inv, HearsWhatIsMarked
  <1>11. SearchesWereDecided'
    <2>1. attempts' = attempts /\ sources' = sources /\ attempts \in Nat /\ workspace' = workspace
      BY <1>1, <1>2 DEF evidence, EvidenceTyped
    <2>2. attempts > 0 => "search_web" \in history /\ "search_web" \in history'
      BY <1>3 DEF Inv, SearchesWereDecided
    <2>3. decision' = "search_web" => "search_web" \in history'
      BY <1>3 DEF Remembered
    <2>4. ASSUME decision' = "search_web", HasLastfm
          PROVE  attempts < SearchLimit(message') \/ NoSources
      <3>1. "search_web" \in Decide(message')
        BY <1>3, <2>4 DEF Either
      <3> QED BY <1>6, <2>1, <2>2, <2>4, <3>1, SearchIsInBudget
    <2>5. SearchLimit(message)' = SearchLimit(message') /\ NoSources' = NoSources
      BY <2>1 DEF SearchLimit, AnalysisMode, DeepAnalysis, NoSources
    <2> QED BY <2>1, <2>2, <2>3, <2>4, <2>5 DEF SearchesWereDecided
  <1>12. CountsSteps'
    <2> SUFFICES ASSUME ~workspace, applied' = 0
                 PROVE  /\ steps' = 2 * iteration'
                        /\ \/ iteration' <= PlainIterations
                           \/ iteration' = PlainIterations + 1 /\ decision' = "respond"
      BY <1>2 DEF CountsSteps
    <2>1. applied = 0 /\ at = iteration /\ iteration \in Nat /\ steps \in Nat
      BY <1>1, <1>3, <1>4, <1>5 DEF TurnTyped, PlaceTyped
    <2>2. steps = 2 * iteration + 1 /\ iteration <= PlainIterations
      BY <1>2, <2>1 DEF Inv, CountsSteps
    <2> HIDE DEF at
    <2>3. iteration >= PlainIterations => decision' = "respond"
      BY <1>3, <2>1 DEF Spent, Budget, Either
    <2>4. iteration' = iteration + 1 /\ steps' = steps + 1
      BY <1>2, <1>3, <2>1
    <2> QED BY <2>1, <2>2, <2>3, <2>4
  <1> QED BY <1>5, <1>8, <1>9, <1>10, <1>11, <1>12, TypesApart DEF Inv

(* The attempt fails: its pass over the graph is forgotten, what is marked *)
(* stays.                                                                  *)
LEMMA FailureStep == Inv /\ Failure => Inv'
  <1> SUFFICES ASSUME Inv, Failure PROVE Inv'
    OBVIOUS
  <1>1. PlaceTyped /\ TurnTyped /\ MailTyped /\ EvidenceTyped /\ SavedTyped
    BY TypesApart DEF Inv
  <1>2. /\ pc \in {"initialize", "supervisor", "execute_action"} /\ pc' = "raised" /\ Forget
        /\ steps' \in {steps, steps + 1} /\ (steps' # steps => steps < RecursionLimit)
        /\ marked' \in {marked, posted}
        /\ UNCHANGED <<process, attemptNo, posted, applied, saved, asked>>
    BY DEF Failure, MailboxFails, ExecuteRaises, OutOfSteps, Enter, mail
  <1>3. PlaceTyped'
    BY <1>1, <1>2 DEF PlaceTyped, Pcs
  <1>4. TurnTyped' /\ EvidenceTyped' /\ SearchesWereDecided' /\ heard' = 0
    BY <1>1, <1>2, Forgotten DEF PlaceTyped
  <1>5. MailTyped'
    BY <1>1, <1>2, <1>4 DEF MailTyped
  <1>6. SavedTyped' /\ HearsWhatIsMarked' /\ CountsSteps'
    BY <1>1, <1>2 DEF SavedTyped, Inv, HearsWhatIsMarked, CountsSteps
  <1> QED BY <1>3, <1>4, <1>5, <1>6, TypesApart DEF Inv

(* A node that goes on with the turn.                                      *)
GoesOn == SearchWeb \/ ReadSource \/ ConsultSource \/ SearchKnowledge \/ RecommendationIncomplete

(* Research keeps the evidence well typed; only a search counts as one.    *)
LEMMA GoesOnTyped ==
  ASSUME EvidenceTyped, workspace \in BOOLEAN, GoesOn
  PROVE  EvidenceTyped' /\ UNCHANGED saved /\ (attempts' > attempts => decision = "search_web")
         /\ attempts' >= attempts /\ decision # "respond"
         /\ (attempts' # 0 => attempts # 0 \/ decision = "search_web")
  <1>1. /\ Pages(sources) /\ excerpts \subseteq ToSet(sources) /\ attempts \in Nat
        /\ readRefs \subseteq 1..Cardinality(Source) /\ gaps \in BOOLEAN
        /\ research \in {"none", "ready", "not_ready"} /\ barren \subseteq Research
    BY DEF EvidenceTyped
  <1>2. ASSUME NEW found \in SUBSET Source, NEW prefer \in BOOLEAN, Found(found, prefer)
        PROVE  Pages(sources)' /\ excerpts' \subseteq ToSet(sources')
    <2> DEFINE new == SetToSeq(found)
    <2>1. Pages(new)
      BY Listed
    <2> HIDE DEF new
    <2>2. sources' = MergeWebSources(sources, new, prefer) /\ excerpts' = MergedExcerpts(new, prefer)
      BY <1>2 DEF Found, new
    <2>3. Pages(sources') /\ ToSet(sources) \subseteq ToSet(sources')
      BY <1>1, <2>1, <2>2, MergeKeeps
    <2>4. Pages(sources)'
      BY <2>3 DEF Pages
    <2> QED BY <1>1, <2>2, <2>3, <2>4 DEF MergedExcerpts
  <1>3. Covers => gaps' \in BOOLEAN
    BY <1>1 DEF Covers, BlockingGaps
  <1>4. UNCHANGED sources => Pages(sources)'
    BY <1>1 DEF Pages
  <1>5. CASE SearchWeb
    <2>1. PICK found \in SUBSET Source : Found(found, attempts > 0)
      BY <1>5 DEF SearchWeb
    <2>2. (attempts > 0) \in BOOLEAN
      OBVIOUS
    <2>3. Pages(sources)' /\ excerpts' \subseteq ToSet(sources')
      BY <1>2, <2>1, <2>2
    <2>4. research' \in {"ready", "not_ready"}
      BY <1>5 DEF SearchWeb, AssessResearch
    <2> QED BY <1>1, <1>3, <1>5, <2>3, <2>4 DEF SearchWeb, NoAnswer, EvidenceTyped
  <1>6. CASE ReadSource
    <2>1. PICK ref \in Unread : /\ readRefs' = readRefs \cup {ref}
                                /\ excerpts' \in {excerpts, excerpts \cup {sources[ref]}}
      BY <1>6 DEF ReadSource
    <2>2. Len(sources) \in Nat /\ Len(sources) <= Cardinality(Source) /\ Cardinality(Source) \in Nat
      BY <1>1, NoMoreThanThereAre
    <2>3. Min({MaxRefs, Len(sources)}) \in {MaxRefs, Len(sources)}
          /\ Min({MaxRefs, Len(sources)}) <= Len(sources)
      <3> DEFINE n == Len(sources)
      <3> HIDE DEF n
      <3>1. \E z \in {MaxRefs, n} : \A u \in {MaxRefs, n} : z <= u
        BY <2>2 DEF n
      <3>2. Min({MaxRefs, n}) \in {MaxRefs, n} /\ Min({MaxRefs, n}) <= n
        BY <3>1 DEF Min
      <3> QED BY <3>2 DEF n
    <2>4. ref \in 1..Len(sources)
      BY <2>1, <2>2, <2>3 DEF Unread, Refs
    <2>5. sources[ref] \in ToSet(sources) /\ ref \in 1..Cardinality(Source)
      BY <1>1, <2>2, <2>4 DEF ToSet, Pages
    <2>6. UNCHANGED <<sources, research, attempts, barren>> /\ Covers
      BY <1>6 DEF ReadSource
    <2>7. excerpts' \subseteq ToSet(sources') /\ readRefs' \subseteq 1..Cardinality(Source)
      BY <1>1, <2>1, <2>5, <2>6
    <2> QED BY <1>1, <1>3, <1>4, <1>6, <2>6, <2>7 DEF ReadSource, NoAnswer, EvidenceTyped
  <1>7. CASE ConsultSource
    <2>1. PICK found \in SUBSET Source :
            /\ Found(found, FALSE)
            /\ barren' = IF found \subseteq ToSet(sources) THEN barren \cup {decision}
                                                           ELSE barren \ {decision}
      BY <1>7 DEF ConsultSource
    <2>2. Pages(sources)' /\ excerpts' \subseteq ToSet(sources')
      BY <1>2, <2>1
    <2>3. barren' \subseteq Research /\ gaps' \in BOOLEAN
      BY <1>1, <1>3, <1>7, <2>1 DEF ConsultSource
    <2>4. decision # "respond"
      BY <1>7 DEF ConsultSource, Research
    <2> QED BY <1>1, <1>7, <2>2, <2>3, <2>4 DEF ConsultSource, NoAnswer, EvidenceTyped
  <1>8. CASE SearchKnowledge
    BY <1>1, <1>3, <1>4, <1>8 DEF SearchKnowledge, NoAnswer, EvidenceTyped
  <1>9. CASE RecommendationIncomplete
    BY <1>1, <1>4, <1>9 DEF RecommendationIncomplete, NoAnswer, EvidenceTyped
  <1> QED BY <1>5, <1>6, <1>7, <1>8, <1>9 DEF GoesOn

(* An answer is kept for the process that formed it, with what it has heard. *)
LEMMA AnswerTyped ==
  ASSUME SavedTyped, process \in Processes, heard \in 0..MaxDirections, Answer
  PROVE  SavedTyped' /\ saved'[process] # NoResult /\ saved'[process].heard = heard
  <1> DEFINE action == IF decision = "build_candidate_pool" /\ ~HasPool
                       THEN "propose_tournament" ELSE decision
  <1>1. PICK card \in Card(action) :
          saved' = [saved EXCEPT ![process] =
                      [action |-> action, card |-> card, heard |-> heard]]
    BY DEF Answer
  <1>2. action \in Actions /\ action # "none"
    BY DEF Answer, Actions
  <1>3. card \in {"none", "clarification", "other"}
    BY DEF Card
  <1> HIDE DEF action
  <1>4. [action |-> action, card |-> card, heard |-> heard] \in Results
        /\ [action |-> action, card |-> card, heard |-> heard] # NoResult
    BY <1>2, <1>3 DEF Results, NoResult
  <1> QED BY <1>1, <1>4 DEF SavedTyped

(* Execute keeps the invariant.                                            *)
LEMMA ExecuteStep == Inv /\ Execute => Inv'
  <1> SUFFICES ASSUME Inv, Execute PROVE Inv'
    OBVIOUS
  <1>1. PlaceTyped /\ TurnTyped /\ MailTyped /\ EvidenceTyped /\ SavedTyped
    BY TypesApart DEF Inv
  <1>2. /\ pc = "execute_action" /\ steps < RecursionLimit /\ steps' = steps + 1
        /\ pc' = IF saved'[process] # NoResult THEN "end" ELSE "supervisor"
        /\ UNCHANGED <<process, attemptNo, mail, asked>>
    BY DEF Execute, Enter
  <1>3. PlaceTyped'
    BY <1>1, <1>2 DEF PlaceTyped, Pcs
  <1>4. CASE Answer
    <2>1. SavedTyped' /\ saved'[process] # NoResult /\ saved'[process].heard = heard
      BY <1>1, <1>4, AnswerTyped DEF PlaceTyped, MailTyped
    <2>2. Forget /\ pc' = "end"
      BY <1>2, <1>4, <2>1 DEF Answer
    <2>3. TurnTyped' /\ EvidenceTyped' /\ SearchesWereDecided' /\ heard' = 0
      BY <1>1, <2>2, Forgotten DEF PlaceTyped
    <2>4. MailTyped'
      BY <1>1, <1>2, <2>3 DEF MailTyped, mail
    <2>5. HearsWhatIsMarked'
      <3>1. process \in Workers => heard = marked
        BY <1>2 DEF Inv, HearsWhatIsMarked
      <3> QED BY <1>2, <2>1, <2>2, <3>1 DEF HearsWhatIsMarked, mail
    <2>6. CountsSteps'
      BY <2>2 DEF CountsSteps
    <2> QED BY <1>3, <2>1, <2>3, <2>4, <2>5, <2>6, TypesApart DEF Inv
  <1>5. CASE /\ GoesOn
             /\ UNCHANGED <<message, heard, workspace, needs, ambiguous, history, iteration>>
             /\ decision' = "none"
    <2>1. /\ EvidenceTyped' /\ saved' = saved /\ decision # "respond"
          /\ (attempts' # 0 => attempts # 0 \/ decision = "search_web")
      BY <1>1, <1>5, GoesOnTyped DEF TurnTyped
    <2>2. TurnTyped' /\ SavedTyped' /\ MailTyped'
      BY <1>1, <1>2, <1>5, <2>1 DEF TurnTyped, SavedTyped, MailTyped, mail
    <2>3. HearsWhatIsMarked'
      <3>1. process \in Workers => pc' = "supervisor"
        BY <1>2, <2>1 DEF Inv, HearsWhatIsMarked
      <3> QED BY <1>2, <1>5, <2>1, <3>1 DEF Inv, HearsWhatIsMarked, mail
    <2>4. SearchesWereDecided'
      <3>1. attempts' \in Nat /\ attempts \in Nat
        BY <1>1, <2>1 DEF EvidenceTyped
      <3> QED BY <1>2, <1>5, <2>1, <3>1 DEF Inv, SearchesWereDecided
    <2>5. CountsSteps'
      <3>1. pc' \in {"supervisor", "end"} /\ iteration \in Nat /\ applied' = applied
        BY <1>1, <1>2 DEF TurnTyped, mail
      <3> QED BY <1>2, <1>5, <2>1, <3>1 DEF Inv, CountsSteps
    <2> QED BY <1>3, <2>1, <2>2, <2>3, <2>4, <2>5, TypesApart DEF Inv
  <1> QED BY <1>4, <1>5 DEF Execute, GoesOn

(* The worker around the graph, and the user beside it: none of them takes *)
(* part in a pass over the graph.                                          *)
LEMMA DirectStep == Inv /\ Direct => Inv'
  <1> SUFFICES ASSUME Inv, Direct PROVE Inv'
    OBVIOUS
  <1>1. PlaceTyped /\ TurnTyped /\ MailTyped /\ EvidenceTyped /\ SavedTyped
    BY TypesApart DEF Inv
  <1> USE DEF Direct, turn, evidence
  <1>2. PlaceTyped' /\ TurnTyped' /\ SavedTyped'
    BY <1>1 DEF PlaceTyped, TurnTyped, SavedTyped
  <1>3. MailTyped'
    BY <1>1 DEF MailTyped
  <1>4. EvidenceTyped'
    BY <1>1 DEF EvidenceTyped, Pages
  <1>5. HearsWhatIsMarked' /\ CountsSteps'
    BY DEF Inv, HearsWhatIsMarked, CountsSteps
  <1>6. SearchesWereDecided'
    BY DEF Inv, SearchesWereDecided, SearchLimit, AnalysisMode, NoSources
  <1> QED BY <1>2, <1>3, <1>4, <1>5, <1>6, TypesApart DEF Inv

(* End keeps the invariant.                                                *)
LEMMA EndStep == Inv /\ (Publish \/ GiveUp \/ ResumePool) => Inv'
  <1> SUFFICES ASSUME Inv, Publish \/ GiveUp \/ ResumePool PROVE Inv'
    OBVIOUS
  <1>1. PlaceTyped /\ TurnTyped /\ MailTyped /\ EvidenceTyped /\ SavedTyped
    BY TypesApart DEF Inv
  <1>2. /\ \/ pc \in {"end", "waiting"} /\ pc' \in {"published", "waiting", "failed"}
           \/ pc = "raised" /\ pc' = "failed"
        /\ UNCHANGED <<steps, process, attemptNo, turn, evidence, mail, saved, asked>>
    BY DEF Publish, GiveUp, ResumePool
  <1> USE DEF turn, evidence, mail
  <1>3. PlaceTyped' /\ TurnTyped' /\ SavedTyped'
    BY <1>1, <1>2 DEF PlaceTyped, TurnTyped, SavedTyped, Pcs
  <1>4. MailTyped'
    BY <1>1, <1>2 DEF MailTyped
  <1>5. EvidenceTyped'
    BY <1>1, <1>2 DEF EvidenceTyped, Pages
  <1>6. HearsWhatIsMarked' /\ CountsSteps' /\ SearchesWereDecided'
    BY <1>2 DEF Inv, HearsWhatIsMarked, CountsSteps, SearchesWereDecided
  <1> QED BY <1>3, <1>4, <1>5, <1>6, TypesApart DEF Inv

(* Retry keeps the invariant.                                              *)
LEMMA RetryStep == Inv /\ Retry => Inv'
  <1> SUFFICES ASSUME Inv, Retry PROVE Inv'
    OBVIOUS
  <1>1. PlaceTyped /\ TurnTyped /\ MailTyped /\ EvidenceTyped /\ SavedTyped
    BY TypesApart DEF Inv
  <1>2. /\ pc = "raised" /\ process \in Workers /\ process' \in Workers
        /\ attemptNo < MaxAttempts /\ attemptNo' = attemptNo + 1
        /\ pc' = "initialize" /\ steps' = 0 /\ Forget /\ UNCHANGED <<mail, saved, asked>>
    BY DEF Retry, NextAttempt
  <1>3. PlaceTyped'
    BY <1>1, <1>2 DEF PlaceTyped, Pcs, Processes
  <1>4. TurnTyped' /\ EvidenceTyped' /\ SearchesWereDecided' /\ heard' = 0
    BY <1>1, <1>2, Forgotten DEF PlaceTyped
  <1>5. MailTyped' /\ SavedTyped'
    BY <1>1, <1>2, <1>4 DEF MailTyped, SavedTyped, mail
  <1>6. HearsWhatIsMarked' /\ CountsSteps'
    BY <1>2 DEF Inv, HearsWhatIsMarked, CountsSteps
  <1> QED BY <1>3, <1>4, <1>5, <1>6, TypesApart DEF Inv

(* Resume keeps the invariant.                                             *)
LEMMA ResumeStep == Inv /\ Resume => Inv'
  <1> SUFFICES ASSUME Inv, Resume PROVE Inv'
    OBVIOUS
  <1>1. PlaceTyped /\ TurnTyped /\ MailTyped /\ EvidenceTyped /\ SavedTyped
    BY TypesApart DEF Inv
  <1>2. /\ pc' = "initialize" /\ process' = Api /\ steps' = 0
        /\ asked' \in {[m EXCEPT !.forced = "none"] : m \in Messages} /\ message' = asked'
        /\ UNCHANGED <<attemptNo, heard, workspace, needs, ambiguous, history, iteration,
                       decision, evidence, mail, saved>>
    BY DEF Resume
  <1>3. asked' \in Message
    BY <1>2, ConversationAssumption DEF Message
  <1>4. PlaceTyped' /\ TurnTyped' /\ SavedTyped' /\ MailTyped'
    BY <1>1, <1>2, <1>3 DEF PlaceTyped, TurnTyped, SavedTyped, MailTyped, Pcs, Processes, mail
  <1>5. EvidenceTyped'
    BY <1>1, <1>2 DEF EvidenceTyped, Pages, evidence
  <1>6. HearsWhatIsMarked'
    BY <1>2, ConversationAssumption DEF HearsWhatIsMarked
  <1>7. CountsSteps' /\ SearchesWereDecided'
    BY <1>2 DEF Inv, CountsSteps, SearchesWereDecided, evidence
  <1> QED BY <1>4, <1>5, <1>6, <1>7, TypesApart DEF Inv

(* A step that changes nothing keeps the invariant.                        *)
LEMMA StutterStep == Inv /\ UNCHANGED vars => Inv'
  <1> SUFFICES ASSUME Inv, UNCHANGED vars PROVE Inv'
    OBVIOUS
  <1>1. PlaceTyped /\ TurnTyped /\ MailTyped /\ EvidenceTyped /\ SavedTyped
    BY TypesApart DEF Inv
  <1> USE DEF vars, turn, evidence, mail
  <1>2. PlaceTyped' /\ TurnTyped' /\ SavedTyped'
    BY <1>1 DEF PlaceTyped, TurnTyped, SavedTyped
  <1>3. MailTyped'
    BY <1>1 DEF MailTyped
  <1>4. EvidenceTyped'
    BY <1>1 DEF EvidenceTyped, Pages
  <1>5. HearsWhatIsMarked' /\ CountsSteps'
    BY DEF Inv, HearsWhatIsMarked, CountsSteps
  <1>6. SearchesWereDecided'
    BY DEF Inv, SearchesWereDecided, SearchLimit, AnalysisMode, NoSources
  <1> QED BY <1>2, <1>3, <1>4, <1>5, <1>6, TypesApart DEF Inv

(* Every step keeps the invariant.                                         *)
LEMMA NextInv == Inv /\ [Next]_vars => Inv'
  BY InitializeStep, SupervisorStep, ExecuteStep, FailureStep, DirectStep, EndStep, RetryStep,
     ResumeStep, StutterStep
  DEF Next, Step

(* The invariant holds throughout.                                         *)
LEMMA Invariant == Spec => []Inv
  BY InitInv, NextInv, PTL DEF Spec

-----------------------------------------------------------------------------
(* Theorems *)

(* Every variable keeps its type; the list of sources never names a page   *)
(* twice, whatever is put before or after it, and every excerpt is of a    *)
(* page that is listed.                                                    *)
THEOREM TurnIsTyped == Spec => []TypeOK
  <1>1. Inv => TypeOK
    BY DEF Inv
  <1> QED BY <1>1, Invariant, PTL

(* An answer was formed with every direction that is shown as applied:     *)
(* initialize replays the mailbox from its start in every attempt.         *)
THEOREM AnswersHeedDirections == Spec => []AnswerHeedsDirections
  <1>1. Inv => AnswerHeedsDirections
    BY DEF Inv, HearsWhatIsMarked, AnswerHeedsDirections
  <1> QED BY <1>1, Invariant, PTL

(* The recursion limit ends only an analysis or a turn that a direction    *)
(* prolonged; every other turn answers within its own budget.              *)
THEOREM PlainTurnsAreNotCutOff == Spec => []OnlyProlongedTurnsAreCutOff
  <1>1. Inv => OnlyProlongedTurnsAreCutOff
    <2> SUFFICES ASSUME Inv, pc \in {"supervisor", "execute_action"}, steps = RecursionLimit,
                        ~workspace, ~(applied > 0)
                 PROVE  FALSE
      BY DEF OnlyProlongedTurnsAreCutOff
    <2>1. applied = 0 /\ iteration \in Nat
      BY TypesApart DEF Inv, MailTyped, TurnTyped
    <2>2. \/ steps = 2 * iteration + 1 /\ iteration <= PlainIterations
          \/ steps = 2 * iteration /\ iteration <= PlainIterations + 1
      BY <2>1 DEF Inv, CountsSteps
    <2> QED BY <2>1, <2>2
  <1> QED BY <1>1, Invariant, PTL

(* No composition of the overrides lets a turn search past its budget      *)
(* while it holds a page.                                                  *)
THEOREM SearchesStayInBudget == Spec => SearchBudgetHolds
  <1> DEFINE Allowed == attempts' > attempts /\ HasLastfm /\ attempts >= SearchLimit(message)
                          => NoSources
  <1>1. Inv /\ [Next]_vars => [Allowed]_vars
    <2> SUFFICES ASSUME Inv, [Next]_vars, attempts' > attempts, HasLastfm,
                        attempts >= SearchLimit(message)
                 PROVE  NoSources
      OBVIOUS
    <2>1. attempts \in Nat /\ EvidenceTyped /\ workspace \in BOOLEAN
      BY TypesApart DEF Inv, EvidenceTyped, TurnTyped
    <2>2. attempts' # attempts /\ attempts' # 0
      BY <2>1
    <2>3. ~Forget
      BY <2>2 DEF Forget
    <2>4. Execute /\ ~Answer
      BY <2>2, <2>3 DEF Next, Step, Failure, Initialize, Supervisor, MailboxFails, ExecuteRaises,
         OutOfSteps, Direct, Publish, Retry, GiveUp, Resume, ResumePool, Answer, vars, evidence
    <2>5. pc = "execute_action" /\ GoesOn
      BY <2>4 DEF Execute, Enter, GoesOn
    <2>6. decision = "search_web"
      BY <2>1, <2>5, GoesOnTyped
    <2>7. SearchLimit(message) \in Nat
      BY DEF SearchLimit
    <2> QED BY <2>1, <2>5, <2>6, <2>7 DEF Inv, SearchesWereDecided
  <1>2. Spec => [][Allowed]_vars
    BY <1>1, Invariant, PTL DEF Spec
  <1> QED BY <1>2 DEF SearchBudgetHolds
=============================================================================
