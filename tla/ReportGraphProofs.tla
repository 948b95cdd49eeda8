-------------------------- MODULE ReportGraphProofs --------------------------
(***************************************************************************)
(* Proofs about the report graph, for brackets of every size and any       *)
(* bounds on songs, cards, rounds and calls.                               *)
(***************************************************************************)
EXTENDS ReportGraph, FiniteSetTheorems, TLAPS

(* What the assumptions say of the constants, one by one.                  *)
LEMMA Bounds ==
  /\ MinSongs \in Nat \ {0} /\ MaxSongs \in Nat \ {0} /\ MaxFound \in Nat \ {0}
  /\ MinCards \in Nat \ {0} /\ MaxCards \in Nat \ {0}
  /\ FreeRounds \in Nat \ {0} /\ Calls \in Nat \ {0}
  /\ MinSongs <= MaxSongs /\ MaxFound <= MaxSongs /\ MinCards <= MaxCards /\ 2 < MaxCards
  BY ReportAssumption

USE Bounds

-----------------------------------------------------------------------------
(* The cards *)

(* Of a finite set of matches the latest n are n, or all there are: the    *)
(* number of later ones counts the matches from the last to the first.     *)
LEMMA LatestCount ==
  ASSUME NEW S \in SUBSET Nat, IsFiniteSet(S), NEW n \in Nat
  PROVE  /\ Latest(n, S) \subseteq S /\ IsFiniteSet(Latest(n, S))
         /\ Cardinality(Latest(n, S)) = IF Cardinality(S) < n THEN Cardinality(S) ELSE n
  <1> DEFINE after(i) == {j \in S : j > i}
             c == Cardinality(S)
             f == [i \in S |-> Cardinality(after(i))]
  <1>1. c \in Nat
    BY FS_CardinalityType
  <1>2. ASSUME NEW i \in S
        PROVE  IsFiniteSet(after(i)) /\ Cardinality(after(i)) \in 0 .. c - 1
    <2>1. after(i) \in SUBSET S /\ after(i) # S
      OBVIOUS
    <2>2. /\ IsFiniteSet(after(i)) /\ Cardinality(after(i)) <= c
          /\ c = Cardinality(after(i)) => S = after(i)
      BY <2>1, FS_Subset
    <2>3. Cardinality(after(i)) \in Nat
      BY <2>2, FS_CardinalityType
    <2> QED BY <1>1, <2>1, <2>2, <2>3
  <1>3. ASSUME NEW i \in S, NEW j \in S, i < j
        PROVE  f[i] # f[j]
    <2>1. after(j) \in SUBSET after(i) /\ j \in after(i) /\ j \notin after(j)
      <3> HIDE DEF f, c
      <3>1. i \in Nat /\ j \in Nat /\ \A k \in S : k \in Nat
        OBVIOUS
      <3>2. \A k \in S : k > j => k > i
        BY <1>3, <3>1
      <3>3. j > i /\ ~(j > j)
        BY <1>3, <3>1
      <3> QED BY <3>2, <3>3
    <2>2. /\ Cardinality(after(i)) = Cardinality(after(j)) => after(i) = after(j)
      <3> HIDE DEF after
      <3> QED BY <1>2, <2>1, FS_Subset
    <2> QED BY <2>1, <2>2
  <1>4. f \in [S -> 0 .. c - 1]
    BY <1>2
  <1>5. f \in Injection(S, 0 .. c - 1)
    <2> HIDE DEF f, c
    <2>1. \A i, j \in S : i < j \/ j < i \/ i = j
      OBVIOUS
    <2>2. \A i, j \in S : f[i] = f[j] => i = j
      BY <1>3, <2>1
    <2> QED BY <1>4, <2>2 DEF Injection, IsInjective
  <1> HIDE DEF f
  <1>6. IsFiniteSet(0 .. c - 1) /\ Cardinality(0 .. c - 1) = c
    BY <1>1, FS_Interval
  <1>7. f \in Surjection(S, 0 .. c - 1)
    BY <1>5, <1>6, FS_Injection
  <1>8. Latest(n, S) = {i \in S : f[i] < n}
    BY DEF Latest, f
  <1> DEFINE L == Latest(n, S)
             m == IF c < n THEN c ELSE n
             g == [i \in L |-> f[i]]
  <1>9. L \in SUBSET S /\ m \in Nat
    BY <1>1, <1>8
  <1>10. IsFiniteSet(L)
    BY <1>9, FS_Subset
  <1>11. g \in Bijection(L, 0 .. m - 1)
    <2>1. g \in [L -> 0 .. m - 1]
      <3>1. ASSUME NEW i \in L PROVE f[i] \in 0 .. m - 1
        <4> HIDE DEF c
        <4>1. f[i] \in 0 .. c - 1 /\ f[i] < n
          BY <1>4, <1>8, <1>9
        <4> QED BY <1>1, <4>1
      <3> QED BY <3>1
    <2>2. \A i, j \in L : g[i] = g[j] => i = j
      BY <1>5, <1>9 DEF Injection, IsInjective
    <2>3. \A k \in 0 .. m - 1 : \E i \in L : g[i] = k
      BY <1>1, <1>7, <1>8 DEF Surjection
    <2> QED BY <2>1, <2>2, <2>3 DEF Bijection, Injection, IsInjective, Surjection
  <1>12. Cardinality(0 .. m - 1) = m
    <2> HIDE DEF m
    <2>1. m \in Nat
      BY <1>9
    <2>2. Cardinality(0 .. m - 1) = IF 0 > m - 1 THEN 0 ELSE (m - 1) - 0 + 1
      BY <2>1, FS_Interval
    <2> QED BY <2>1, <2>2
  <1>13. Cardinality(0 .. m - 1) = Cardinality(L)
    BY <1>10, <1>11, FS_Bijection DEF ExistsBijection
  <1> QED BY <1>9, <1>10, <1>12, <1>13

(* The cards of a bracket: neither too few nor too many, the final among   *)
(* them, and a match that another song than the champion won.              *)
LEMMA TrajectoryTells ==
  ASSUME NEW b \in Brackets
  PROVE  /\ ChoiceTrajectory(b) \subseteq 1 .. Len(b)
         /\ Cardinality(ChoiceTrajectory(b)) \in MinCards .. MaxCards
         /\ Len(b) \in ChoiceTrajectory(b)
         /\ \E i \in ChoiceTrajectory(b) : ~b[i]
  <1>1. /\ b \in Seq(BOOLEAN) /\ Len(b) \in Nat /\ Len(b) >= MinCards /\ b[Len(b)]
        /\ DOMAIN b = 1 .. Len(b) /\ \E i \in DOMAIN b : ~b[i]
    BY ReportAssumption
  <1> DEFINE W == Won(b)
             O == DOMAIN b \ Won(b)
             w == Cardinality(W)
             o == Cardinality(O)
  <1>2. /\ IsFiniteSet(DOMAIN b) /\ Cardinality(DOMAIN b) = Len(b)
    <2>1. Cardinality(1 .. Len(b)) = IF 1 > Len(b) THEN 0 ELSE Len(b) - 1 + 1
      BY <1>1, FS_Interval
    <2>2. IsFiniteSet(1 .. Len(b))
      BY <1>1, FS_Interval
    <2> QED BY <1>1, <2>1, <2>2
  <1>3. /\ W \in SUBSET (DOMAIN b) /\ O \in SUBSET (DOMAIN b) /\ W \cap O = {} /\ W \cup O = DOMAIN b
        /\ W \in SUBSET Nat /\ O \in SUBSET Nat
    BY <1>1 DEF Won
  <1>4. IsFiniteSet(W) /\ IsFiniteSet(O)
    BY <1>2, <1>3, FS_Subset
  <1>5. w \in Nat /\ o \in Nat /\ w + o = Len(b)
    <2>1. Cardinality(W \cup O) = Cardinality(W) + Cardinality(O) - Cardinality(W \cap O)
      BY <1>4, FS_Union
    <2>2. w \in Nat /\ o \in Nat
      BY <1>4, FS_CardinalityType
    <2>3. Cardinality(W \cup O) = Len(b) /\ Cardinality(W \cap O) = 0
      BY <1>2, <1>3, FS_EmptySet
    <2> HIDE DEF W, O
    <2> QED BY <2>1, <2>2, <2>3
  <1>6. Len(b) \in W /\ w # 0
    <2>1. Len(b) \in W
      BY <1>1 DEF Won
    <2> QED BY <1>4, <2>1, FS_EmptySet
  <1>7. o # 0
    <2>1. O # {}
      BY <1>1 DEF Won
    <2> QED BY <1>4, <2>1, FS_EmptySet
  <1> DEFINE anchor == Latest(2, W)
             a == Cardinality(anchor)
  <1>8. /\ anchor \subseteq W /\ IsFiniteSet(anchor) /\ a = IF w < 2 THEN w ELSE 2
        /\ Len(b) \in anchor
    <2>1. /\ anchor \subseteq W /\ IsFiniteSet(anchor) /\ a = IF w < 2 THEN w ELSE 2
      <3> HIDE DEF W
      <3> QED BY <1>3, <1>4, LatestCount
    <2>2. {j \in W : j > Len(b)} = {}
      BY <1>1, <1>3
    <2>3. Len(b) \in anchor
      <3>1. Cardinality({j \in W : j > Len(b)}) = 0
        BY <2>2, FS_EmptySet
      <3> HIDE DEF W
      <3> QED BY <1>6, <3>1 DEF Latest
    <2> QED BY <2>1, <2>3
  <1> DEFINE boundary == Latest(MaxCards - a, O)
             c == Cardinality(boundary)
  <1>9. MaxCards - a \in Nat \ {0}
    <2> HIDE DEF w, a
    <2> QED BY <1>5, <1>8
  <1>10. /\ boundary \subseteq O /\ IsFiniteSet(boundary)
         /\ c = IF o < MaxCards - a THEN o ELSE MaxCards - a
    <2> HIDE DEF O, a
    <2> QED BY <1>3, <1>4, <1>9, LatestCount
  <1> DEFINE both == anchor \cup boundary
             n == Cardinality(both)
  <1>11. IsFiniteSet(both) /\ n = a + c
    <2>1. anchor \cap boundary = {}
      BY <1>3, <1>8, <1>10
    <2> HIDE DEF anchor, boundary
    <2>2. IsFiniteSet(both) /\ Cardinality(both) = a + c - Cardinality(anchor \cap boundary)
      BY <1>8, <1>10, FS_Union
    <2>3. a \in Nat /\ c \in Nat
      BY <1>8, <1>10, FS_CardinalityType
    <2>4. Cardinality(anchor \cap boundary) = 0
      BY <2>1, FS_EmptySet
    <2> HIDE DEF a, c
    <2> QED BY <2>2, <2>3, <2>4
  <1>12. IsFiniteSet(W \ anchor) /\ Cardinality(W \ anchor) = w - a /\ W \ anchor \in SUBSET Nat
    <2>1. anchor \in SUBSET W /\ W \cap anchor = anchor
      BY <1>8
    <2> HIDE DEF anchor, W
    <2>2. IsFiniteSet(W \ anchor) /\ Cardinality(W \ anchor) = Cardinality(W) - Cardinality(W \cap anchor)
      BY <1>4, <1>8, FS_Difference
    <2> QED BY <1>3, <2>1, <2>2
  <1> DEFINE rest == Latest(MaxCards - n, W \ anchor)
             d == Cardinality(rest)
  <1>13. MaxCards - n \in Nat
    <2> HIDE DEF a, c, n, o, w
    <2> QED BY <1>5, <1>8, <1>9, <1>10, <1>11
  <1>14. /\ rest \subseteq W \ anchor /\ IsFiniteSet(rest)
         /\ d = IF w - a < MaxCards - n THEN w - a ELSE MaxCards - n
    <2> HIDE DEF n, anchor, W
    <2> QED BY <1>12, <1>13, LatestCount
  <1>15. ChoiceTrajectory(b) = both \cup rest
    BY DEF ChoiceTrajectory, AnchorPath
  <1>16. Cardinality(both \cup rest) = n + d
    <2>1. both \cap rest = {}
      BY <1>3, <1>8, <1>10, <1>14
    <2> HIDE DEF both, rest
    <2>2. Cardinality(both \cup rest) = Cardinality(both) + Cardinality(rest) - Cardinality(both \cap rest)
      BY <1>11, <1>14, FS_Union
    <2>3. n \in Nat /\ d \in Nat
      BY <1>11, <1>14, FS_CardinalityType
    <2> QED BY <2>1, <2>2, <2>3, FS_EmptySet
  <1>17. n + d \in MinCards .. MaxCards
    <2>1. /\ w \in Nat /\ o \in Nat /\ w + o = Len(b) /\ Len(b) \in Nat /\ Len(b) >= MinCards
          /\ a = IF w < 2 THEN w ELSE 2
      BY <1>1, <1>5, <1>8
    <2>2. c = IF o < MaxCards - a THEN o ELSE MaxCards - a
      BY <1>10
    <2>3. n = a + c
      BY <1>11
    <2>4. d = IF w - a < MaxCards - n THEN w - a ELSE MaxCards - n
      BY <1>14
    <2> HIDE DEF a, c, d, n, o, w
    <2> QED BY <2>1, <2>2, <2>3, <2>4
  <1>18. \E i \in boundary : ~b[i]
    <2>1. c # 0
      <3> HIDE DEF a, c, o
      <3> QED BY <1>5, <1>7, <1>9, <1>10
    <2>2. boundary # {}
      BY <2>1, FS_EmptySet
    <2>3. \A i \in boundary : ~b[i]
      BY <1>1, <1>10 DEF Won
    <2> QED BY <2>2, <2>3
  <1>19. both \cup rest \subseteq 1 .. Len(b)
    BY <1>1, <1>3, <1>8, <1>10, <1>14
  <1> QED BY <1>8, <1>15, <1>16, <1>17, <1>18, <1>19

-----------------------------------------------------------------------------
(* The inductive invariant *)

(* Every report that was drafted tells the bracket's own cards.            *)
CardsAreTold == Drafted => report.cards = ChoiceTrajectory(bracket)

Inv == TypeOK /\ DeliveredIsReviewed /\ EndsInTime /\ CardsAreTold

(* The invariant holds in every initial state.                             *)
LEMMA InitInv == Init => Inv
  <1> SUFFICES ASSUME Init PROVE Inv
    OBVIOUS
  <1> USE DEF Init
  <1>1. NoReport \in Report
    <2>1. PICK b \in Brackets : b = bracket
      OBVIOUS
    <2>2. {} \in UNION {SUBSET (1..Len(x)) : x \in Brackets}
      BY <2>1
    <2> QED BY <2>2 DEF NoReport, Report
  <1>2. TypeOK
    <2>1. bracket \in Brackets /\ {domestic, analyzed, searched, known, late} \subseteq BOOLEAN
      OBVIOUS
    <2>2. /\ report \in Report /\ report.catalog + report.web <= MaxSongs
          /\ (report.web = 0) = (report.songPages = {})
      BY <1>1 DEF NoReport
    <2>3. calls \in 0..Calls /\ iteration \in Nat
      OBVIOUS
    <2> QED BY <2>1, <2>2, <2>3 DEF TypeOK
  <1>3. DeliveredIsReviewed /\ EndsInTime /\ CardsAreTold
    BY DEF DeliveredIsReviewed, EndsInTime, CardsAreTold, Drafted
  <1> QED BY <1>2, <1>3 DEF Inv

-----------------------------------------------------------------------------
(* Steps *)

(* A report as the supervisor keeps it, for bracket b.                     *)
Kept(r, b) ==
  /\ r \in Report /\ r # NoReport /\ r.catalog + r.web <= MaxSongs
  /\ (r.web = 0) = (r.songPages = {}) /\ r.cards = ChoiceTrajectory(b)

(* The lesser of two numbers is one of them.                               *)
LEMMA MinIs ==
  ASSUME NEW x \in Nat, NEW y \in Nat
  PROVE  Min({x, y}) \in {x, y} /\ Min({x, y}) <= x /\ Min({x, y}) <= y
  <1>1. \E z \in {x, y} : \A u \in {x, y} : z <= u
    OBVIOUS
  <1> QED BY <1>1 DEF Min

(* What is drafted is such a report.                                       *)
LEMMA DraftIsKept ==
  ASSUME bracket \in Brackets, sources \subseteq Page,
         NEW draft \in Written \cup {FallbackReport}, NEW n \in 0..MaxFound,
         NEW songs \in AllowedPages, NEW artists \in AllowedPages, (n = 0) = (songs = {})
  PROVE  Kept(WithArtists(WithSongs(draft, n, songs), artists), bracket)
  <1> DEFINE t == ChoiceTrajectory(bracket)
             cards == UNION {SUBSET (1..Len(b)) : b \in Brackets}
  <1>1. t \in cards
    <2>1. t \in SUBSET (1..Len(bracket))
      BY TrajectoryTells
    <2> HIDE DEF t
    <2> QED BY <2>1
  <1> HIDE DEF t, cards
  <1>2. /\ draft.catalog \in 0..MaxSongs /\ draft.web \in 0..MaxSongs
        /\ draft.songPages \in SUBSET Page /\ draft.artistPages \in SUBSET Page
        /\ draft.sound \in BOOLEAN /\ draft.fallback \in BOOLEAN /\ draft.cards = t
        /\ draft = [catalog |-> draft.catalog, web |-> draft.web, songPages |-> draft.songPages,
                    artistPages |-> draft.artistPages, sound |-> draft.sound,
                    fallback |-> draft.fallback, cards |-> t]
        /\ draft.catalog + draft.web \in MinSongs..MaxSongs
        /\ (draft.web = 0) = (draft.songPages = {})
    <2>1. CASE draft \in Written
      BY <2>1 DEF Written, t
    <2>2. CASE draft = FallbackReport
      BY <2>2 DEF FallbackReport, t
    <2> QED BY <2>1, <2>2
  <1> DEFINE sung == WithSongs(draft, n, songs)
  <1>3. /\ sung.catalog \in 0..MaxSongs /\ sung.web \in 0..MaxSongs
        /\ sung.songPages \in SUBSET Page
        /\ sung.catalog + sung.web \in 1..MaxSongs
        /\ (sung.web = 0) = (sung.songPages = {})
        /\ sung = [catalog |-> sung.catalog, web |-> sung.web, songPages |-> sung.songPages,
                   artistPages |-> draft.artistPages, sound |-> draft.sound,
                   fallback |-> draft.fallback, cards |-> t]
    <2>1. CASE n = 0
      BY <1>2, <2>1 DEF WithSongs
    <2>2. CASE n # 0
      <3> DEFINE m == Min({draft.catalog, MaxSongs - n})
      <3>1. m \in Nat /\ m <= draft.catalog /\ m <= MaxSongs - n
        <4> DEFINE c == draft.catalog
                   d == MaxSongs - n
        <4>1. c \in Nat /\ d \in Nat
          BY <1>2
        <4> HIDE DEF c, d
        <4>2. Min({c, d}) \in {c, d} /\ Min({c, d}) <= c /\ Min({c, d}) <= d
          BY <4>1, MinIs
        <4> QED BY <4>1, <4>2 DEF c, d
      <3> HIDE DEF m
      <3>2. sung = [catalog |-> m, web |-> n, songPages |-> songs,
                    artistPages |-> draft.artistPages, sound |-> draft.sound,
                    fallback |-> draft.fallback, cards |-> t]
        BY <1>2, <2>2 DEF WithSongs, m
      <3> HIDE DEF sung
      <3> QED BY <1>2, <2>2, <3>1, <3>2 DEF AllowedPages
    <2> QED BY <2>1, <2>2
  <1> HIDE DEF sung
  <1> DEFINE r == WithArtists(sung, artists)
  <1>4. r = [catalog |-> sung.catalog, web |-> sung.web, songPages |-> sung.songPages,
             artistPages |-> IF artists = {} THEN draft.artistPages ELSE artists,
             sound |-> draft.sound, fallback |-> draft.fallback, cards |-> t]
    BY <1>3 DEF WithArtists
  <1> HIDE DEF r
  <1>5. r \in Report
    BY <1>1, <1>2, <1>3, <1>4 DEF Report, AllowedPages, cards
  <1>6. r # NoReport
    <2>1. r.catalog # 0 \/ r.web # 0
      BY <1>3, <1>4
    <2> QED BY <2>1 DEF NoReport
  <1>7. Kept(r, bracket)
    BY <1>3, <1>4, <1>5, <1>6 DEF Kept, t
  <1> QED BY <1>7 DEF r, sung

(* The fallback report is well typed and tells both sides.                 *)
LEMMA FallbackIsKept ==
  ASSUME bracket \in Brackets
  PROVE  Kept(FallbackReport, bracket)
  <1>1. FallbackReport.cards \in UNION {SUBSET (1..Len(b)) : b \in Brackets}
    BY TrajectoryTells DEF FallbackReport
  <1>2. FallbackReport \in Report
    BY <1>1 DEF FallbackReport, Report
  <1> QED BY <1>2 DEF FallbackReport, NoReport, Kept

(* Late in the run only its two ends are chosen.                           *)
LEMMA LateChoice ==
  ASSUME TypeOK, NEW a, Chooses(a), a \notin {"submit_report", "finish_degraded"}
  PROVE  iteration < FreeRounds
  BY DEF TypeOK, Chooses, Decision, Budgeted

(* The web is searched once.                                               *)
LEMMA SearchedOnce ==
  ASSUME Chooses("search_web")
  PROVE  ~searched
  BY DEF Chooses, Decision, Budgeted, Gated, Duplicate, NextEligible, Actions

(* A step keeps the types if what it finds and writes has them.            *)
LEMMA StepTyped ==
  ASSUME TypeOK, NEW a, Chooses(a),
         {analyzed', searched', known'} \subseteq BOOLEAN,
         sources' \subseteq Page, sources' # {} => searched',
         report' = report \/ Kept(report', bracket),
         critique' \in {"none", "passed", "failed"}, critique' # "none" => report' # NoReport,
         calls' \in 0..Calls, outcome' \in {"none", "delivered", "rejected", "raised"}
  PROVE  TypeOK'
  <1>1. bracket' \in Brackets /\ iteration' \in Nat
    BY DEF TypeOK, Chooses
  <1>2. domestic' \in BOOLEAN /\ late' \in BOOLEAN
    BY DEF TypeOK, Chooses
  <1>3. {domestic', analyzed', searched', known', late'} \subseteq BOOLEAN
    BY <1>2
  <1>4. /\ report' \in Report /\ report'.catalog + report'.web <= MaxSongs
        /\ (report'.web = 0) = (report'.songPages = {})
    BY DEF TypeOK, Kept
  <1> QED BY <1>1, <1>3, <1>4 DEF TypeOK

(* Every step keeps the invariant.                                         *)
LEMMA NextInv == Inv /\ [Next]_vars => Inv'
  <1> SUFFICES ASSUME Inv, [Next]_vars PROVE Inv'
    OBVIOUS
  <1> USE DEF Inv
  <1>1. CASE AnalyzeTournament
    <2>1. iteration < FreeRounds
      BY <1>1, LateChoice DEF AnalyzeTournament
    <2>2. TypeOK'
      <3>1. {analyzed', searched', known'} \subseteq BOOLEAN
        BY <1>1 DEF AnalyzeTournament, Uncaught, evidence, TypeOK
      <3>2. /\ Chooses("analyze_tournament") /\ UNCHANGED <<searched, sources, report, critique>>
            /\ calls' \in 0..Calls /\ outcome' \in {outcome, "raised"}
        BY <1>1 DEF AnalyzeTournament, Allows, Uncaught, evidence, TypeOK
      <3> QED BY <3>1, <3>2, StepTyped DEF TypeOK
    <2>3. DeliveredIsReviewed' /\ CardsAreTold'
      BY <1>1 DEF AnalyzeTournament, Chooses, Uncaught, evidence, DeliveredIsReviewed, CardsAreTold,
                  Drafted, Passes
    <2>4. EndsInTime'
      BY <1>1, <2>1 DEF AnalyzeTournament, Chooses, TypeOK, EndsInTime
    <2> QED BY <2>2, <2>3, <2>4
  <1>2. CASE SearchWeb
    <2>1. iteration < FreeRounds /\ sources = {}
      BY <1>2, LateChoice, SearchedOnce DEF SearchWeb, TypeOK
    <2>2. TypeOK'
      <3>1. {analyzed', searched', known'} \subseteq BOOLEAN /\ searched'
        BY <1>2 DEF SearchWeb, TypeOK
      <3>2. /\ Chooses("search_web") /\ UNCHANGED <<report, critique, outcome>>
            /\ calls' \in 0..Calls /\ sources' \subseteq Page
        BY <1>2 DEF SearchWeb, Allows, TypeOK
      <3> QED BY <3>1, <3>2, StepTyped DEF TypeOK
    <2>3. DeliveredIsReviewed' /\ CardsAreTold'
      BY <1>2, <2>1 DEF SearchWeb, Chooses, DeliveredIsReviewed, CardsAreTold, Drafted, Passes
    <2>4. EndsInTime'
      BY <1>2, <2>1 DEF SearchWeb, Chooses, TypeOK, EndsInTime
    <2> QED BY <2>2, <2>3, <2>4
  <1>3. CASE SearchDomesticContent
    <2>1. iteration < FreeRounds
      BY <1>3, LateChoice DEF SearchDomesticContent
    <2>2. TypeOK'
      <3>0. /\ UNCHANGED <<analyzed, known>>
            /\ UNCHANGED <<searched, sources>> \/ searched' = TRUE
        BY <1>3 DEF SearchDomesticContent
      <3>1. {analyzed', searched', known'} \subseteq BOOLEAN /\ (sources' # {} => searched')
        BY <3>0, Zenon DEF TypeOK
      <3>2. /\ Chooses("search_domestic_content") /\ UNCHANGED <<report, critique, calls, outcome>>
            /\ sources' \subseteq Page
        BY <1>3 DEF SearchDomesticContent, TypeOK
      <3> QED BY <3>1, <3>2, StepTyped DEF TypeOK
    <2>3. DeliveredIsReviewed' /\ CardsAreTold'
      <3>1. sources \subseteq sources'
        BY <1>3 DEF SearchDomesticContent
      <3> QED BY <1>3, <3>1 DEF SearchDomesticContent, Chooses, DeliveredIsReviewed, CardsAreTold,
                                Drafted, Passes
    <2>4. EndsInTime'
      BY <1>3, <2>1 DEF SearchDomesticContent, Chooses, TypeOK, EndsInTime
    <2> QED BY <2>2, <2>3, <2>4
  <1>4. CASE SearchKnowledge
    <2>1. iteration < FreeRounds
      BY <1>4, LateChoice DEF SearchKnowledge
    <2>2. TypeOK'
      <3>1. {analyzed', searched', known'} \subseteq BOOLEAN
        BY <1>4 DEF SearchKnowledge, TypeOK
      <3>2. /\ Chooses("search_knowledge")
            /\ UNCHANGED <<searched, sources, report, critique, calls, outcome>>
        BY <1>4 DEF SearchKnowledge
      <3> QED BY <3>1, <3>2, StepTyped DEF TypeOK
    <2>3. DeliveredIsReviewed' /\ CardsAreTold'
      BY <1>4 DEF SearchKnowledge, Chooses, DeliveredIsReviewed, CardsAreTold, Drafted, Passes
    <2>4. EndsInTime'
      BY <1>4, <2>1 DEF SearchKnowledge, Chooses, TypeOK, EndsInTime
    <2> QED BY <2>2, <2>3, <2>4
  <1>5. CASE DraftReport
    <2>1. iteration < FreeRounds
      BY <1>5, LateChoice DEF DraftReport
    <2>2. CASE Uncaught
      <3>1. TypeOK'
        <4>1. /\ Chooses("draft_report") /\ outcome' = "raised"
              /\ UNCHANGED <<analyzed, searched, sources, known, report, critique, calls>>
          BY <1>5, <2>2 DEF DraftReport, Uncaught, evidence
        <4>2. {analyzed', searched', known'} \subseteq BOOLEAN
          BY <4>1 DEF TypeOK
        <4> QED BY <4>1, <4>2, StepTyped DEF TypeOK
      <3>2. DeliveredIsReviewed' /\ CardsAreTold'
        BY <1>5, <2>2 DEF DraftReport, Chooses, Uncaught, evidence, DeliveredIsReviewed, CardsAreTold,
                          Drafted, Passes
      <3>3. EndsInTime'
        BY <1>5, <2>1 DEF DraftReport, Chooses, TypeOK, EndsInTime
      <3> QED BY <3>1, <3>2, <3>3
    <2>3. CASE Allows(3) /\ calls' = calls + 3 /\ ClearCritique /\ Kept(report', bracket)
               /\ UNCHANGED <<evidence, outcome>>
      <3>1. TypeOK'
        <4>1. /\ Chooses("draft_report") /\ Kept(report', bracket) /\ critique' = "none"
              /\ UNCHANGED <<analyzed, searched, sources, known, outcome>> /\ calls' \in 0..Calls
          BY <1>5, <2>3 DEF DraftReport, Allows, ClearCritique, evidence, TypeOK
        <4>2. {analyzed', searched', known'} \subseteq BOOLEAN
          BY <4>1 DEF TypeOK
        <4> QED BY <4>1, <4>2, StepTyped DEF TypeOK
      <3>2. DeliveredIsReviewed' /\ CardsAreTold'
        BY <1>5, <2>3 DEF DraftReport, Chooses, ClearCritique, Kept, DeliveredIsReviewed, CardsAreTold
      <3>3. EndsInTime'
        BY <1>5, <2>1 DEF DraftReport, Chooses, TypeOK, EndsInTime
      <3> QED BY <3>1, <3>2, <3>3
    <2> QED BY <1>5, <2>2, <2>3, DraftIsKept DEF DraftReport, TypeOK
  <1>6. CASE CritiqueReport
    <2>1. iteration < FreeRounds
      BY <1>6, LateChoice DEF CritiqueReport
    <2>2. TypeOK'
      <3>1. /\ Chooses("critique_report")
            /\ UNCHANGED <<analyzed, searched, sources, known, report>> /\ calls' \in 0..Calls
            /\ outcome' \in {outcome, "raised"}
            /\ critique' = critique \/ (Drafted /\ critique' \in {"passed", "failed"})
        BY <1>6 DEF CritiqueReport, Allows, Uncaught, Review, evidence, TypeOK
      <3>2. {analyzed', searched', known'} \subseteq BOOLEAN
        BY <3>1 DEF TypeOK
      <3> QED BY <3>1, <3>2, StepTyped DEF TypeOK, Drafted
    <2>3. DeliveredIsReviewed' /\ CardsAreTold'
      BY <1>6 DEF CritiqueReport, Chooses, Uncaught, Review, evidence, DeliveredIsReviewed,
                  CardsAreTold, Drafted, Passes
    <2>4. EndsInTime'
      BY <1>6, <2>1 DEF CritiqueReport, Chooses, TypeOK, EndsInTime
    <2> QED BY <2>2, <2>3, <2>4
  <1>7. CASE SubmitReport
    <2>1. TypeOK'
      <3>1. /\ Chooses("submit_report") /\ outcome' \in {"delivered", "rejected"}
            /\ UNCHANGED <<analyzed, searched, sources, known, report, critique, calls>>
        BY <1>7 DEF SubmitReport, evidence
      <3>2. {analyzed', searched', known'} \subseteq BOOLEAN
        BY <3>1 DEF TypeOK
      <3> QED BY <3>1, <3>2, StepTyped DEF TypeOK
    <2>2. DeliveredIsReviewed' /\ CardsAreTold'
      BY <1>7 DEF SubmitReport, Chooses, evidence, DeliveredIsReviewed, CardsAreTold, Drafted, Passes
    <2>3. EndsInTime'
      BY <1>7 DEF SubmitReport, Chooses, TypeOK, EndsInTime
    <2> QED BY <2>1, <2>2, <2>3
  <1>8. CASE FinishDegraded
    <2>1. Kept(report', bracket)
      BY <1>8, FallbackIsKept DEF FinishDegraded, TypeOK, CardsAreTold, Kept, Drafted
    <2>2. TypeOK'
      <3>1. /\ Chooses("finish_degraded") /\ outcome' \in {"delivered", "rejected"}
            /\ UNCHANGED <<analyzed, searched, sources, known, calls>>
            /\ critique' \in {"passed", "failed"} /\ report' # NoReport
        BY <1>8, <2>1 DEF FinishDegraded, Review, Kept, evidence
      <3>2. {analyzed', searched', known'} \subseteq BOOLEAN
        BY <3>1 DEF TypeOK
      <3> QED BY <2>1, <3>1, <3>2, StepTyped DEF TypeOK
    <2>3. DeliveredIsReviewed' /\ CardsAreTold'
      <3>1. Drafted'
        BY <2>1 DEF Kept, Drafted
      <3>2. Passes(report)' <=> Passes(report')
        BY <1>8 DEF FinishDegraded, evidence, Passes
      <3> QED BY <1>8, <2>1, <3>1, <3>2 DEF FinishDegraded, Chooses, Review, Kept,
                                           DeliveredIsReviewed, CardsAreTold
    <2>4. EndsInTime'
      BY <1>8 DEF FinishDegraded, Chooses, TypeOK, EndsInTime
    <2> QED BY <2>2, <2>3, <2>4
  <1>9. CASE UNCHANGED vars
    BY <1>9 DEF vars, evidence, TypeOK, DeliveredIsReviewed, EndsInTime, CardsAreTold, Drafted, Passes
  <1> QED
    BY <1>1, <1>2, <1>3, <1>4, <1>5, <1>6, <1>7, <1>8, <1>9 DEF Next

(* The invariant holds throughout.                                         *)
LEMMA AlwaysInv == Spec => []Inv
  <1> QED BY InitInv, NextInv, PTL DEF Spec

-----------------------------------------------------------------------------
(* Theorems *)

(* The state keeps its types: a report never recommends more songs than    *)
(* the schema allows, and pages are found only by a search.                *)
THEOREM ReportTyped == Spec => []TypeOK
  <1>1. Inv => TypeOK
    BY DEF Inv
  <1> QED BY <1>1, AlwaysInv, PTL

(* What counts as reviewed, and what is delivered, passes the critic       *)
(* against the sources of now.                                             *)
THEOREM DeliveredWasReviewed == Spec => []DeliveredIsReviewed
  <1>1. Inv => DeliveredIsReviewed
    BY DEF Inv
  <1> QED BY <1>1, AlwaysInv, PTL

(* The run ends within one round more than the model is free to choose.    *)
THEOREM RunEndsInTime == Spec => []EndsInTime
  <1>1. Inv => EndsInTime
    BY DEF Inv
  <1> QED BY <1>1, AlwaysInv, PTL

(* For a bracket of every size, the cards of every report hold the final   *)
(* and a choice between two other songs.                                   *)
THEOREM CardsTellBothSides == Spec => []TrajectoryTellsBothSides
  <1>1. Inv => TrajectoryTellsBothSides
    BY TrajectoryTells DEF Inv, TypeOK, CardsAreTold, TrajectoryTellsBothSides
  <1> QED BY <1>1, AlwaysInv, PTL

=============================================================================
