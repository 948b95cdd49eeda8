------------------------------ MODULE MusicCards ------------------------------
(***************************************************************************)
(* The two cards a conversation is carried by, over several turns: a song  *)
(* recommendation, whose draft is held against public pages, the persisted *)
(* cards and the catalogue, and a music analysis, whose claims are held    *)
(* against numbered pages and, when they state facts, against a review.    *)
(* A later turn reads the cards of the earlier ones.                       *)
(*                                                                         *)
(* What a search returns and what the model drafts or reviews is chosen    *)
(* from given sets; a song draft is the key that _music_key makes of it.   *)
(***************************************************************************)
EXTENDS Naturals, FiniteSets, SequencesExt, FiniteSetsExt

CONSTANTS
  Page, Catalogue,            \* public pages; a page of the catalogue itself
  Strong, Fair,               \* pages of quality 0.75 and of 0.7
  Recording, Artist, ArtistOf(_),
  Key, KeyOf(_), Singer(_), Resolve(_),  \* a draft's title and artist, and what they denote
  None,                       \* Resolve: no recording
  Requests, Hits, SongDrafts, ArtistDrafts, ClaimDrafts, Verdicts,
  MaxCoverage,                \* 5
  Few, Shown, ShownArtists,   \* 3, 7 and 3
  Carried, MaxRefs, Listed, ListedAgain,  \* 4, 16, 8 and 12
  MaxSearches,                \* 3 for a recommendation that still leaves gaps
  MaxTurns                    \* bound on the length of a conversation

Request == [wish : {"recommend", "analyse"}, fresh : BOOLEAN, noArtists : BOOLEAN,
            named : SUBSET Artist, fullText : BOOLEAN]
SongDraft == [key : Key, page : Page]
ArtistDraft == [artist : Artist, page : Page]
Song == [id : Recording, page : Page \cup {Catalogue}]
Suggestion == [artist : Artist, page : Page \cup {Catalogue}, verified : BOOLEAN]
Verdict == {"supported", "partial", "conflicting", "unsupported"}
Claim == [fact : BOOLEAN, refs : SUBSET (1..MaxRefs), confidence : {"high", "medium", "low"},
          status : Verdict]
Review == [refs : SUBSET Nat, verdict : Verdict]

ASSUME CardsAssumption ==
  /\ Requests \subseteq Request /\ Hits \subseteq Seq(Page)
  /\ SongDrafts \subseteq Seq(SongDraft) /\ ArtistDrafts \subseteq Seq(ArtistDraft)
  /\ ClaimDrafts \subseteq Seq(Claim) /\ Verdicts \subseteq Review
  /\ \A k \in Key : Resolve(k) \in Recording \cup {None}
  /\ IsFiniteSet(Recording)
  /\ \A n \in {Few, Shown, ShownArtists, Carried, MaxRefs, Listed, ListedAgain} : n \in Nat

VARIABLES
  phase,       \* "idle", or "research" while a turn is running
  request,
  sources,     \* web_sources: [page, inherited]
  searches,    \* search_attempts
  cards,       \* persisted cards, oldest first
  turns,
  found        \* every page that research ever returned

vars == <<phase, request, sources, searches, cards, turns, found>>

Pages(s) == {x.page : x \in ToSet(s)}
Songs(card) == IF card.kind = "songs" THEN card.songs ELSE <<>>
Suggestions(card) == IF card.kind = "songs" THEN card.artists ELSE <<>>
SongCards == {card \in ToSet(cards) : card.kind = "songs"}

-----------------------------------------------------------------------------
(* Helpers. *)

\* The elements of s at some of its places, in their order.
Kept(s, places) ==
  LET Nth(k) == CHOOSE i \in places : Cardinality({j \in places : j <= i}) = k
  IN [k \in 1..Cardinality(places) |-> s[Nth(k)]]

\* The places of a list of keys that hold one for the first time.
Firsts(keys) == {i \in DOMAIN keys : \A j \in 1..(i-1) : keys[j] # keys[i]}

\* _unique_song_drafts and _unique_artist_drafts: setdefault keeps the first of a key.
Unique(s, keys) == Kept(s, Firsts(keys))

\* _diverse_song_order: one song per artist before any second one.  (Mutant: as they come.)
CatalogueOrder(s) == s
DiverseOrder(s) ==
  LET first == Firsts([i \in DOMAIN s |-> ArtistOf(s[i].id)])
  IN Kept(s, first) \o Kept(s, DOMAIN s \ first)

\* A dict by recordingId: the place of the first entry, the value of the last.
Deduplicated(s) ==
  LET once == Unique(s, [i \in DOMAIN s |-> s[i].id])
  IN [i \in DOMAIN once |-> s[Max({j \in DOMAIN s : s[j].id = once[i].id})]]

Cut(s, n) == SubSeq(s, 1, Min({n, Len(s)}))

\* _merge_web_sources: one entry per page; a hit found again replaces the inherited copy.
Merge(existing, incoming, preferIncoming) ==
  LET all == IF preferIncoming THEN incoming \o existing ELSE existing \o incoming
  IN Unique(all, [i \in DOMAIN all |-> all[i].page])

-----------------------------------------------------------------------------
(* A turn and its research. *)

Init ==
  /\ phase = "idle" /\ request \in {r \in Requests : r.wish = "recommend"}
  /\ sources = <<>> /\ searches = 0 /\ cards = <<>> /\ turns = 0 /\ found = {}

AnalysisCards == Kept(cards, {i \in DOMAIN cards : cards[i].kind = "analysis"})

\* inherited_analysis_sources: the pages that the latest analysis card lists.
InheritedSources ==
  IF AnalysisCards = <<>> THEN <<>>
  ELSE LET listed == Cut(Cut(Last(AnalysisCards).pages, Listed), ListedAgain)
       IN [i \in DOMAIN listed |-> [page |-> listed[i], inherited |-> TRUE]]

Ask ==
  /\ phase = "idle" /\ turns < MaxTurns
  /\ phase' = "research" /\ request' \in Requests /\ turns' = turns + 1
  /\ sources' = IF request'.wish = "analyse" THEN InheritedSources ELSE <<>>
  /\ searches' = 0
  /\ UNCHANGED <<cards, found>>

\* search_web: from the second search on the new hits go first.
SearchWeb ==
  /\ phase = "research" /\ searches < MaxSearches
  /\ \E hits \in Hits :
       /\ sources' = Merge(sources, [i \in DOMAIN hits |-> [page |-> hits[i], inherited |-> FALSE]],
                           searches > 0)
       /\ found' = found \cup ToSet(hits)
  /\ searches' = searches + 1
  /\ UNCHANGED <<phase, request, cards, turns>>

-----------------------------------------------------------------------------
(* recommend_music. *)

\* The pages a draft may cite: those of this turn, and those of earlier cards.
AnyPage == Page \cup {Catalogue}      \* mutant
CitablePages ==
  Pages(sources) \cup UNION {Pages(card.songs) \cup Pages(card.artists) : card \in SongCards}

PriorKeys == {KeyOf(x.id) : x \in UNION {ToSet(card.songs) : card \in SongCards}}
PriorArtists ==
  {ArtistOf(x.id) : x \in UNION {ToSet(card.songs) : card \in SongCards}}
    \cup {x.artist : x \in UNION {ToSet(card.artists) : card \in SongCards}}

\* The drafts that stand: on a citable page, once, and not what the user wants gone.
Cited(draft) == Kept(draft, {i \in DOMAIN draft : draft[i].page \in CitablePages})
StandingSongs(draft) ==
  LET cited == Cited(draft)
      once == Unique(cited, [i \in DOMAIN cited |-> cited[i].key])
  IN Kept(once, {i \in DOMAIN once :
                   /\ request.fresh => once[i].key \notin PriorKeys
                   /\ request.noArtists => Singer(once[i].key) \notin PriorArtists})
StandingArtists(draft) ==
  LET cited == Cited(draft)
      once == Unique(cited, [i \in DOMAIN cited |-> cited[i].artist])
  IN Kept(once, {i \in DOMAIN once : request.noArtists => once[i].artist \notin PriorArtists})

\* resolve_and_import: the drafts the catalogue knows, under its own names.
Verified(draft) ==
  LET known == Kept(draft, {i \in DOMAIN draft : Resolve(draft[i].key) # None})
  IN [i \in DOMAIN known |-> [id |-> Resolve(known[i].key), page |-> known[i].page]]

Performers(songs) == {ArtistOf(x.id) : x \in ToSet(songs)}

\* The named artists _supplement_named_artist_tracks looks up: all if one is short of
\* songs, those without a song if too few of several have one.
Missing(songs) ==
  LET named == request.named
      uncovered == named \ Performers(songs)
  IN IF Cardinality(named) = 1 THEN IF Len(songs) < Few THEN uncovered ELSE {}
     ELSE IF Cardinality(named \ uncovered) >= Min({MaxCoverage, Cardinality(named)}) THEN {}
     ELSE uncovered

\* What the catalogue may add for them, at the head of the list; nothing if it fails.
Supplements(songs) ==
  LET desired == IF Cardinality(request.named) = 1 THEN Max({1, Few - Min({Few, Len(songs)})}) ELSE 1
      open == {r \in Recording : ArtistOf(r) \in Missing(songs)
                                   /\ r \notin {x.id : x \in ToSet(songs)}}
      added == {set \in SUBSET open :
                  \A a \in Artist : Cardinality({r \in set : ArtistOf(r) = a}) <= desired}
  IN UNION {{[i \in 1..Cardinality(set) |-> [id |-> SetToSeq(set)[i], page |-> p]]
               : p \in {Catalogue} \cup Pages(sources)} : set \in added}

\* The songs of the card, and its artists: named as verified only if a song of theirs is.
CardSongs(songs) == Cut(DiverseOrder(Deduplicated(songs)), Shown)
CardArtists(draft, verified) ==
  LET all == [i \in DOMAIN draft |->
                [artist |-> draft[i].artist, page |-> draft[i].page,
                 verified |-> draft[i].artist \in Performers(verified)]]
  IN Cut(all, ShownArtists)

\* _recommendation_result_gaps (whether the language asked for is met is left open).
Gaps(songs) ==
  \/ Len(songs) < Few
  \/ Cardinality(request.named) > 1
       /\ Cardinality(request.named \cap Performers(songs))
            < Min({MaxCoverage, Cardinality(request.named)})

Done(card) ==
  /\ phase' = "idle" /\ cards' = cards \o card /\ sources' = <<>> /\ searches' = 0
  /\ request' = [wish |-> "recommend", fresh |-> FALSE, noArtists |-> FALSE,
                 named |-> {}, fullText |-> FALSE]
  /\ UNCHANGED <<turns, found>>

\* A draft that stands: the card, or, while searches are left, another round for its gaps.
Recommend ==
  /\ phase = "research" /\ request.wish = "recommend" /\ CitablePages # {}
  /\ \E draft \in SongDrafts, people \in ArtistDrafts, resolved \in BOOLEAN :
       LET standing == StandingSongs(draft)
           verified == IF resolved THEN Verified(standing) ELSE <<>>
       IN \E more \in Supplements(verified) :
            LET songs == CardSongs(more \o verified)
                artists == CardArtists(StandingArtists(people), verified)
                empty == songs = <<>> /\ artists = <<>>
            IN IF searches < MaxSearches /\ (empty \/ Gaps(songs))
               THEN UNCHANGED vars
               ELSE Done(IF empty THEN <<>>
                         ELSE <<[kind |-> "songs", songs |-> songs, artists |-> artists,
                                 fresh |-> request.fresh]>>)

\* No model, no page to cite or no valid draft: a card of plain links, which nothing reads.
Degrade == phase = "research" /\ request.wish = "recommend" /\ Done(<<>>)

-----------------------------------------------------------------------------
(* analyze_music. *)

\* S1, S2, ...: some of the pages inherited, then those of this turn.
RefPages ==
  LET inherited == Kept(sources, {i \in DOMAIN sources : sources[i].inherited})
      current == Kept(sources, {i \in DOMAIN sources : ~sources[i].inherited})
      raw == Cut(Cut(inherited, Carried) \o current, MaxRefs)
  IN [i \in DOMAIN raw |-> raw[i].page]

\* sanitize_claims: unknown refs are dropped, and a fact without any is unsupported.
Sanitize(claim, allowed) ==
  LET refs == claim.refs \cap allowed
  IN IF claim.fact /\ refs = {}
     THEN [claim EXCEPT !.refs = refs, !.status = "unsupported", !.confidence = "low"]
     ELSE [claim EXCEPT !.refs = refs]

\* apply_claim_reviews, for a claim the review speaks of.
ApplyReview(claim, review, pages) ==
  LET refs == review.refs \cap DOMAIN pages
      cited == {pages[i] : i \in refs}
      verdict == IF review.verdict = "supported" /\ refs = {} THEN "unsupported"
                                                              ELSE review.verdict
      confidence ==
        CASE verdict = "supported" ->
               IF cited \cap Strong # {} /\ Cardinality(refs) >= 2 THEN "high" ELSE "medium"
          [] verdict \in {"partial", "conflicting"} ->
               IF cited \cap (Strong \cup Fair) # {} THEN "medium" ELSE "low"
          [] OTHER -> "low"
  IN [claim EXCEPT !.refs = refs, !.status = verdict, !.confidence = confidence]

\* The claims as they are persisted: a review speaks of some of them, by index, or fails.
Reviewed(claims, reviews, pages) ==
  [i \in DOMAIN claims |->
     IF i \in DOMAIN reviews THEN ApplyReview(claims[i], reviews[i], pages)
                             ELSE Sanitize(claims[i], DOMAIN pages)]

NeedsReview(claims) == request.fullText \/ \E c \in ToSet(claims) : c.fact

\* The claim of last resort cites the first two refs as strings are sorted: S1 and S10.
FallbackClaim(pages) ==
  [fact |-> FALSE, confidence |-> "low", status |-> "partial",
   refs |-> {1, IF Len(pages) >= 10 THEN 10 ELSE 2} \cap DOMAIN pages]

Analyse ==
  /\ phase = "research" /\ request.wish = "analyse"
  /\ \/ Done(<<[kind |-> "analysis", pages |-> RefPages, claims |-> <<FallbackClaim(RefPages)>>]>>)
     \/ /\ RefPages # <<>>
        /\ \E draft \in ClaimDrafts :
             LET claims == [i \in DOMAIN draft |-> Sanitize(draft[i], DOMAIN RefPages)]
             IN \E spoken \in IF NeedsReview(claims) THEN SUBSET DOMAIN claims ELSE {{}} :
                \E reviews \in [spoken -> Verdicts] :
                  Done(<<[kind |-> "analysis", pages |-> RefPages,
                          claims |-> Reviewed(claims, reviews, RefPages)]>>)

Next == Ask \/ SearchWeb \/ Recommend \/ Degrade \/ Analyse
          \/ (phase = "idle" /\ turns = MaxTurns /\ UNCHANGED vars)
Spec == Init /\ [][Next]_vars

-----------------------------------------------------------------------------
(* Properties. *)

\* Nothing is recommended or listed from memory: every page on a card was returned by
\* research, in this turn or in the turn of an earlier card, or is the catalogue's own.  A
\* claim cites only pages of its own card, and a fact that cites none is neither supported
\* nor more than weak, whether it was reviewed, passed over or not reviewed.
EvidenceIsFound ==
  /\ \A card \in ToSet(cards) :
       Pages(Songs(card)) \cup Pages(Suggestions(card))
         \cup (IF card.kind = "analysis" THEN ToSet(card.pages) ELSE {})
         \subseteq found \cup {Catalogue}
  /\ \A card \in ToSet(AnalysisCards) : \A claim \in ToSet(card.claims) :
       /\ claim.refs \subseteq DOMAIN card.pages
       /\ claim.fact /\ claim.refs = {} => claim.status # "supported" /\ claim.confidence = "low"

\* The contract of the visible songs: none twice, and no artist a second time before
\* another artist of the card a first time, whatever was drafted, resolved or added.
VarietyFirst ==
  \A card \in SongCards :
    LET n == Len(card.songs)
        by(i) == ArtistOf(card.songs[i].id)
    IN /\ \A i, j \in 1..n : i # j => card.songs[i].id # card.songs[j].id
       /\ \A i, j \in 1..n : i < j /\ (\E k \in 1..(i-1) : by(k) = by(i))
            => \E k \in 1..(j-1) : by(k) = by(j)
=============================================================================
