--------------------------- MODULE MusicCardsProofs ---------------------------
(***************************************************************************)
(* Proofs about the cards of a conversation, for every set of pages,       *)
(* recordings and drafts, and every bound on what a card holds.            *)
(***************************************************************************)
EXTENDS MusicCards, FiniteSetTheorems, SequenceTheorems, TLAPS

(* What the assumption says of the bounds.                                 *)
LEMMA Bounds ==
  /\ Few \in Nat /\ Shown \in Nat /\ ShownArtists \in Nat /\ Carried \in Nat
  /\ MaxRefs \in Nat /\ Listed \in Nat /\ ListedAgain \in Nat
  BY CardsAssumption

-----------------------------------------------------------------------------
(* The inductive invariant *)

(* What a card may list: pages that research returned, or the catalogue.   *)
Known == found \cup {Catalogue}
Listable == Page \cup {Catalogue}

Source == [page : Listable, inherited : BOOLEAN]
SongCard == [kind : {"songs"}, songs : Seq(Song), artists : Seq(Suggestion), fresh : BOOLEAN]
AnalysisCard == [kind : {"analysis"}, pages : Seq(Listable), claims : Seq(Claim)]

(* A list of T whose entries stand on the pages given. *)
On(s, T, known) == s \in Seq(T) /\ \A i \in 1..Len(s) : s[i].page \in known

(* No song twice, and no artist a second time before another artist of the *)
(* list a first time.                                                      *)
Distinct(s) == \A i, j \in 1..Len(s) : s[i].id = s[j].id => i = j
Varied(s) ==
  \A i, j \in 1..Len(s) :
    i < j /\ (\E k \in 1..(i-1) : ArtistOf(s[k].id) = ArtistOf(s[i].id))
      => \E k \in 1..(j-1) : ArtistOf(s[k].id) = ArtistOf(s[j].id)

(* A claim cites pages of its card; a fact that cites none is weak. *)
Backed(claim, pages) ==
  /\ claim.refs \subseteq DOMAIN pages
  /\ claim.fact /\ claim.refs = {} => claim.status # "supported" /\ claim.confidence = "low"

GoodSongs(card, known) ==
  /\ card \in SongCard
  /\ On(card.songs, Song, known) /\ On(card.artists, Suggestion, known)
  /\ Distinct(card.songs) /\ Varied(card.songs)

GoodAnalysis(card, known) ==
  /\ card \in AnalysisCard
  /\ \A i \in 1..Len(card.pages) : card.pages[i] \in known
  /\ \A i \in 1..Len(card.claims) : Backed(card.claims[i], card.pages)

GoodCards(s, known) ==
  /\ s \in Seq(SongCard \cup AnalysisCard)
  /\ \A i \in 1..Len(s) : GoodSongs(s[i], known) \/ GoodAnalysis(s[i], known)

(* What the cards say rests on what the turns before them left: the        *)
(* sources of the turn and every persisted card stand on known pages.      *)
Inv == request \in Request /\ On(sources, Source, Known) /\ GoodCards(cards, Known)

-----------------------------------------------------------------------------
(* Parts of lists *)

(* What a list stands on, in the words of the module. *)
LEMMA PagesOn ==
  ASSUME NEW T, NEW s \in Seq(T), NEW known
  PROVE  On(s, T, known) <=> Pages(s) \subseteq known
  BY DEF On, Pages, ToSet

(* In a finite set of numbers every rank up to its size is that of exactly *)
(* one member.                                                             *)
LEMMA Ranks ==
  ASSUME NEW S \in SUBSET Nat, IsFiniteSet(S)
  PROVE  /\ Cardinality(S) \in Nat
         /\ \A i \in S : Cardinality({j \in S : j <= i}) \in 1..Cardinality(S)
         /\ \A i, k \in S : Cardinality({j \in S : j <= i}) = Cardinality({j \in S : j <= k})
                            => i = k
         /\ \A r \in 1..Cardinality(S) :
              \E i \in S : Cardinality({j \in S : j <= i}) = r
  <1> DEFINE upTo(i) == {j \in S : j <= i}
             n == Cardinality(S)
             rank == [i \in S |-> Cardinality(upTo(i))]
  <1>1. n \in Nat
    BY FS_CardinalityType
  <1>2. ASSUME NEW i \in S
        PROVE  upTo(i) \in SUBSET S /\ IsFiniteSet(upTo(i)) /\ Cardinality(upTo(i)) \in 1..n
    <2>1. upTo(i) \in SUBSET S /\ i \in upTo(i)
      OBVIOUS
    <2> HIDE DEF upTo
    <2>2. IsFiniteSet(upTo(i)) /\ Cardinality(upTo(i)) <= n /\ Cardinality(upTo(i)) \in Nat
      BY <2>1, FS_Subset, FS_CardinalityType
    <2>3. Cardinality(upTo(i)) # 0
      BY <2>1, <2>2, FS_EmptySet
    <2> HIDE DEF n
    <2> QED BY <1>1, <2>1, <2>2, <2>3
  <1>3. ASSUME NEW i \in S, NEW k \in S, i < k
        PROVE  rank[i] # rank[k]
    <2>1. i \in Nat /\ k \in Nat /\ \A j \in S : j \in Nat
      OBVIOUS
    <2>2. upTo(i) \in SUBSET upTo(k) /\ k \in upTo(k) /\ k \notin upTo(i)
      <3> HIDE DEF rank, n
      <3>1. \A j \in S : j <= i => j <= k
        BY <1>3, <2>1
      <3>2. k <= k /\ ~(k <= i)
        BY <1>3, <2>1
      <3> QED BY <3>1, <3>2
    <2>3. Cardinality(upTo(k)) = Cardinality(upTo(i)) => upTo(k) = upTo(i)
      <3> HIDE DEF upTo
      <3> QED BY <1>2, <2>2, FS_Subset
    <2> QED BY <2>2, <2>3
  <1>4. \A i, k \in S : rank[i] = rank[k] => i = k
    <2>1. \A i, k \in S : i < k \/ k < i \/ i = k
      OBVIOUS
    <2> HIDE DEF rank
    <2> QED BY <1>3, <2>1
  <1>5. rank \in [S -> 1..n]
    BY <1>2
  <1>6. \A i \in S : rank[i] = Cardinality({j \in S : j <= i})
    OBVIOUS
  <1>7. rank \in Surjection(S, 1..n)
    <2> HIDE DEF rank
    <2>1. rank \in Injection(S, 1..n)
      BY <1>4, <1>5 DEF Injection, IsInjective
    <2>2. IsFiniteSet(1..n) /\ Cardinality(1..n) = n
      BY <1>1, FS_Interval
    <2> QED BY <2>1, <2>2, FS_Injection
  <1>8. \A r \in 1..n : \E i \in S : rank[i] = r
    <2> HIDE DEF rank, n
    <2> QED BY <1>7 DEF Surjection
  <1> HIDE DEF rank
  <1> QED BY <1>1, <1>4, <1>5, <1>6, <1>8

(* A finite set of numbers that is not empty has a greatest one. *)
LEMMA GreatestNumber ==
  ASSUME NEW S \in SUBSET Nat, IsFiniteSet(S), S # {}
  PROVE  Max(S) \in S /\ \A j \in S : j <= Max(S)
  <1> DEFINE upTo(i) == {j \in S : j <= i}
  <1>1. Cardinality(S) \in Nat /\ Cardinality(S) # 0
    BY FS_CardinalityType, FS_EmptySet
  <1>2. PICK i \in S : Cardinality(upTo(i)) = Cardinality(S)
    <2>1. Cardinality(S) \in 1..Cardinality(S)
      <3> DEFINE n == Cardinality(S)
      <3> HIDE DEF n
      <3>1. n \in Nat /\ n # 0
        BY <1>1 DEF n
      <3>2. n \in 1..n
        BY <3>1
      <3> QED BY <3>2 DEF n
    <2> QED BY <2>1, Ranks
  <1>3. upTo(i) \in SUBSET S
    OBVIOUS
  <1>4. upTo(i) = S
    BY <1>2, <1>3, FS_Subset
  <1>5. \A j \in S : i >= j
    BY <1>4
  <1>6. Max(S) \in S /\ \A j \in S : Max(S) >= j
    BY <1>5 DEF Max
  <1> QED BY <1>6

(* The entries of list r are those of s at the places P, each once. *)
Keeps(r, s, P) ==
  \E at \in [1..Len(r) -> P] :
    /\ \A k \in 1..Len(r) : r[k] = s[at[k]]
    /\ \A k, l \in 1..Len(r) : at[k] = at[l] => k = l
    /\ \A i \in P : \E k \in 1..Len(r) : at[k] = i

(* What is kept of a list: the entries at those places, each once, in a    *)
(* list that is as long as there are places.                               *)
LEMMA KeptIs ==
  ASSUME NEW T, NEW s \in Seq(T), NEW P \in SUBSET (DOMAIN s)
  PROVE  Kept(s, P) \in Seq(T) /\ Len(Kept(s, P)) \in Nat /\ Keeps(Kept(s, P), s, P)
  <1> DEFINE n == Cardinality(P)
             rank(i) == Cardinality({j \in P : j <= i})
             Nth(k) == CHOOSE i \in P : rank(i) = k
             at == [k \in 1..n |-> Nth(k)]
             kept == [k \in 1..n |-> s[Nth(k)]]
  <1>1. Len(s) \in Nat /\ DOMAIN s = 1..Len(s)
    OBVIOUS
  <1>2. P \in SUBSET Nat /\ IsFiniteSet(P)
    <2>1. IsFiniteSet(1..Len(s)) /\ \A i \in 1..Len(s) : i \in Nat
      BY <1>1, FS_Interval
    <2> QED BY <1>1, <2>1, FS_Subset
  <1>3. /\ n \in Nat /\ \A i \in P : rank(i) \in 1..n
        /\ \A i, k \in P : rank(i) = rank(k) => i = k
        /\ \A r \in 1..n : \E i \in P : rank(i) = r
    BY <1>2, Ranks
  <1>4. Kept(s, P) = kept
    BY DEF Kept
  <1> HIDE DEF n, rank
  <1>5. \A k \in 1..n : Nth(k) \in P /\ rank(Nth(k)) = k
    BY <1>3
  <1>6. \A i \in P : Nth(rank(i)) = i /\ rank(i) \in 1..n
    BY <1>3, <1>5
  <1> HIDE DEF Nth
  <1>7. \A i \in P : s[i] \in T
    BY <1>1
  <1>8. kept \in Seq(T) /\ Len(kept) = n
    BY <1>3, <1>5, <1>7
  <1>9. /\ at \in [1..n -> P]
        /\ \A k \in 1..n : at[k] = Nth(k) /\ kept[k] = s[at[k]]
    BY <1>5
  <1> HIDE DEF at, kept
  <1>10. /\ \A k, l \in 1..n : at[k] = at[l] => k = l
         /\ \A i \in P : \E k \in 1..n : at[k] = i
    BY <1>5, <1>6, <1>9
  <1>11. Keeps(kept, s, P)
    BY <1>8, <1>9, <1>10 DEF Keeps
  <1> QED BY <1>3, <1>4, <1>8, <1>11

(* What is kept of a list stands on the pages of the list. *)
LEMMA KeptOn ==
  ASSUME NEW T, NEW known, NEW s, On(s, T, known), NEW P \in SUBSET (DOMAIN s)
  PROVE  On(Kept(s, P), T, known)
  <1>1. s \in Seq(T) /\ \A i \in P : i \in 1..Len(s)
    BY DEF On
  <1> DEFINE kept == Kept(s, P)
  <1>2. kept \in Seq(T)
        /\ \E at \in [1..Len(kept) -> P] : \A k \in 1..Len(kept) : kept[k] = s[at[k]]
    BY <1>1, KeptIs DEF Keeps
  <1> HIDE DEF kept
  <1>3. \A k \in 1..Len(kept) : kept[k].page \in known
    BY <1>1, <1>2 DEF On
  <1> QED BY <1>2, <1>3 DEF On, kept

(* Two lists on known pages make one. *)
LEMMA ConcatOn ==
  ASSUME NEW T, NEW known, NEW s, NEW t, On(s, T, known), On(t, T, known)
  PROVE  On(s \o t, T, known)
  <1>1. s \in Seq(T) /\ t \in Seq(T)
    BY DEF On
  <1>2. /\ s \o t \in Seq(T) /\ Len(s \o t) = Len(s) + Len(t)
        /\ Len(s) \in Nat /\ Len(t) \in Nat
        /\ \A i \in 1..Len(s \o t) :
             (s \o t)[i] = IF i <= Len(s) THEN s[i] ELSE t[i - Len(s)]
    BY <1>1
  <1>3. ASSUME NEW i \in 1..Len(s \o t) PROVE (s \o t)[i].page \in known
    <2>1. CASE i <= Len(s)
      <3>1. i \in 1..Len(s)
        BY <1>2, <2>1
      <3> QED BY <1>2, <2>1, <3>1 DEF On
    <2>2. CASE ~(i <= Len(s))
      <3>1. i - Len(s) \in 1..Len(t)
        BY <1>2, <2>2
      <3> QED BY <1>2, <2>2, <3>1 DEF On
    <2> QED BY <2>1, <2>2
  <1> QED BY <1>2, <1>3 DEF On

(* A cut list is the head of the list. *)
LEMMA CutIs ==
  ASSUME NEW T, NEW s \in Seq(T), NEW n \in Nat
  PROVE  /\ Cut(s, n) \in Seq(T) /\ Len(Cut(s, n)) \in Nat
         /\ Len(Cut(s, n)) <= n /\ Len(Cut(s, n)) <= Len(s)
         /\ \A i \in 1..Len(Cut(s, n)) : Cut(s, n)[i] = s[i]
  <1> DEFINE m == Min({n, Len(s)})
             l == Len(s)
  <1>1. l \in Nat /\ \A i \in 1..l : s[i] \in T
    OBVIOUS
  <1>2. m \in Nat /\ m <= n /\ m <= l
    <2> HIDE DEF l
    <2>1. \E z \in {n, l} : \A u \in {n, l} : z <= u
      BY <1>1
    <2>2. Min({n, l}) \in {n, l} /\ Min({n, l}) <= n /\ Min({n, l}) <= l
      BY <2>1 DEF Min
    <2> QED BY <1>1, <2>2 DEF l
  <1> HIDE DEF m, l
  <1> DEFINE c == SubSeq(s, 1, m)
  <1>3. /\ c \in Seq(T) /\ Len(c) = (IF 1 <= m THEN m - 1 + 1 ELSE 0)
        /\ \A i \in 1..(m - 1 + 1) : c[i] = s[1 + i - 1]
    <2>1. \A i \in 1..m : s[i] \in T
      BY <1>1, <1>2
    <2>2. 1 \in Int /\ m \in Int
      BY <1>2
    <2> QED BY <2>1, <2>2, SubSeqProperties
  <1>4. Cut(s, n) = c
    BY DEF Cut, m, l
  <1> HIDE DEF c
  <1>5. Len(c) = m /\ m - 1 + 1 = m /\ \A i \in 1..m : 1 + i - 1 = i
    BY <1>2, <1>3
  <1>6. \A i \in 1..m : c[i] = s[i]
    BY <1>3, <1>5
  <1> QED BY <1>2, <1>3, <1>4, <1>5, <1>6 DEF l

(* And so does a list that is cut. *)
LEMMA CutOn ==
  ASSUME NEW T, NEW known, NEW s, On(s, T, known), NEW n \in Nat
  PROVE  On(Cut(s, n), T, known) /\ Len(Cut(s, n)) <= n
  <1> DEFINE c == Cut(s, n)
  <1>1. s \in Seq(T) /\ Len(s) \in Nat /\ \A i \in 1..Len(s) : s[i].page \in known
    BY DEF On
  <1>2. /\ c \in Seq(T) /\ Len(c) \in Nat /\ Len(c) <= n /\ Len(c) <= Len(s)
        /\ \A i \in 1..Len(c) : c[i] = s[i]
    BY <1>1, CutIs
  <1> HIDE DEF c
  <1>3. \A i \in 1..Len(c) : i \in 1..Len(s)
    BY <1>1, <1>2
  <1>4. On(c, T, known)
    BY <1>1, <1>2, <1>3 DEF On
  <1> QED BY <1>2, <1>4 DEF c

(* The first places of a list of keys: every key is at one of them, and    *)
(* none at two.                                                            *)
LEMMA FirstsAre ==
  ASSUME NEW n \in Nat, NEW keys, DOMAIN keys = 1..n
  PROVE  /\ Firsts(keys) \in SUBSET (1..n)
         /\ \A i, j \in Firsts(keys) : keys[i] = keys[j] => i = j
         /\ \A i \in 1..n : \E j \in Firsts(keys) : keys[j] = keys[i]
  <1>1. Firsts(keys) = {i \in 1..n : \A j \in 1..(i-1) : keys[j] # keys[i]}
    BY DEF Firsts
  <1>2. ASSUME NEW i \in Firsts(keys), NEW j \in Firsts(keys), keys[i] = keys[j]
        PROVE  i = j
    <2>1. i \in Nat /\ j \in Nat /\ i \in 1..n /\ j \in 1..n
      BY <1>1
    <2>2. CASE i < j
      <3>1. i \in 1..(j-1)
        BY <2>1, <2>2
      <3> QED BY <1>1, <1>2, <3>1
    <2>3. CASE j < i
      <3>1. j \in 1..(i-1)
        BY <2>1, <2>3
      <3> QED BY <1>1, <1>2, <3>1
    <2> QED BY <2>1, <2>2, <2>3
  <1>3. ASSUME NEW i \in 1..n PROVE \E j \in Firsts(keys) : keys[j] = keys[i]
    <2> DEFINE same == {n - j : j \in {k \in 1..n : keys[k] = keys[i]}}
    <2>1. same \in SUBSET Nat /\ n - i \in same /\ \A x \in same : x <= n
      OBVIOUS
    <2>2. IsFiniteSet(same) /\ same # {}
      BY <2>1, FS_BoundedSetOfNaturals
    <2>3. PICK m \in same : \A x \in same : x <= m
      BY <2>1, <2>2, GreatestNumber
    <2>4. PICK j \in 1..n : keys[j] = keys[i] /\ m = n - j
      BY <2>3
    <2>5. ASSUME NEW k \in 1..(j-1), keys[k] = keys[j] PROVE FALSE
      <3>1. k \in 1..n /\ k < j
        BY <2>4
      <3>2. n - k \in same
        BY <2>4, <2>5, <3>1
      <3>3. n - k <= n - j
        BY <2>3, <2>4, <3>2
      <3> QED BY <2>4, <3>1, <3>3
    <2>6. j \in Firsts(keys)
      BY <1>1, <2>4, <2>5
    <2> QED BY <2>4, <2>6
  <1> QED BY <1>1, <1>2, <1>3

-----------------------------------------------------------------------------
(* The order of the songs *)

(* A dict by recordingId: a recording is listed once. *)
LEMMA DeduplicatedIs ==
  ASSUME NEW known, NEW s, On(s, Song, known)
  PROVE  On(Deduplicated(s), Song, known) /\ Distinct(Deduplicated(s))
  <1> DEFINE keys == [i \in DOMAIN s |-> s[i].id]
             places == Firsts(keys)
             once == Kept(s, places)
             of(i) == {j \in DOMAIN s : s[j].id = once[i].id}
             dict == [i \in DOMAIN once |-> s[Max(of(i))]]
  <1>1. /\ s \in Seq(Song) /\ Len(s) \in Nat /\ DOMAIN s = 1..Len(s)
        /\ \A i \in 1..Len(s) : s[i] \in Song /\ s[i].page \in known
    BY DEF On
  <1>2. DOMAIN keys = 1..Len(s) /\ \A i \in 1..Len(s) : keys[i] = s[i].id
    BY <1>1
  <1> HIDE DEF keys
  <1>3. /\ places \in SUBSET (1..Len(s))
        /\ \A i, j \in places : s[i].id = s[j].id => i = j
    BY <1>1, <1>2, FirstsAre
  <1> HIDE DEF places
  <1>4. once \in Seq(Song) /\ Len(once) \in Nat /\ Keeps(once, s, places)
    <2>1. places \in SUBSET (DOMAIN s)
      BY <1>1, <1>3
    <2> QED BY <1>1, <2>1, KeptIs
  <1>5. Deduplicated(s) = dict
    BY DEF Deduplicated, Unique, once, places, keys
  <1> HIDE DEF once
  <1>6. PICK at \in [1..Len(once) -> places] :
             /\ \A k \in 1..Len(once) : once[k] = s[at[k]]
             /\ \A k, l \in 1..Len(once) : at[k] = at[l] => k = l
    BY <1>4 DEF Keeps
  <1>7. ASSUME NEW i \in 1..Len(once)
        PROVE  Max(of(i)) \in 1..Len(s) /\ s[Max(of(i))].id = once[i].id
    <2>1. at[i] \in of(i) /\ of(i) \in SUBSET (1..Len(s))
      BY <1>1, <1>3, <1>6
    <2>2. of(i) \in SUBSET Nat /\ IsFiniteSet(of(i)) /\ of(i) # {}
      <3> HIDE DEF of
      <3>1. IsFiniteSet(1..Len(s)) /\ \A k \in 1..Len(s) : k \in Nat
        BY <1>1, FS_Interval
      <3> QED BY <2>1, <3>1, FS_Subset
    <2>3. Max(of(i)) \in of(i)
      <3> HIDE DEF of
      <3> QED BY <2>2, GreatestNumber
    <2> QED BY <1>1, <2>3
  <1>8. DOMAIN once = 1..Len(once)
    BY <1>4
  <1> DEFINE pick(i) == Max(of(i))
             n == Len(once)
  <1>9. /\ \A i \in 1..n : pick(i) \in 1..Len(s) /\ s[pick(i)].id = once[i].id
        /\ dict = [i \in 1..n |-> s[pick(i)]] /\ n \in Nat
    BY <1>4, <1>7, <1>8
  <1> HIDE DEF pick, dict
  <1>10. /\ dict \in Seq(Song) /\ Len(dict) = n
         /\ \A i \in 1..n : dict[i].page \in known /\ dict[i].id = once[i].id
    <2> HIDE DEF n
    <2>1. \A i \in 1..n : s[pick(i)] \in Song /\ s[pick(i)].page \in known
      BY <1>1, <1>9
    <2> QED BY <1>9, <2>1
  <1>11. ASSUME NEW i \in 1..n, NEW j \in 1..n, once[i].id = once[j].id PROVE i = j
    <2>1. at[i] \in places /\ at[j] \in places /\ s[at[i]].id = s[at[j]].id
      BY <1>6, <1>11
    <2> QED BY <1>3, <1>6, <2>1
  <1> QED BY <1>5, <1>9, <1>10, <1>11 DEF On, Distinct

(* The order is a reordering, and it is varied: an artist of the second    *)
(* part is already in the first, and none is in the first part twice.      *)
LEMMA DiverseOrderIs ==
  ASSUME NEW known, NEW s, On(s, Song, known), Distinct(s)
  PROVE  /\ On(DiverseOrder(s), Song, known)
         /\ Distinct(DiverseOrder(s)) /\ Varied(DiverseOrder(s))
  <1> DEFINE by(i) == ArtistOf(s[i].id)
             keys == [i \in DOMAIN s |-> by(i)]
             first == Firsts(keys)
             rest == DOMAIN s \ first
             A == Kept(s, first)
             B == Kept(s, rest)
             D == A \o B
  <1>1. s \in Seq(Song) /\ Len(s) \in Nat /\ DOMAIN s = 1..Len(s)
    BY DEF On
  <1>2. DOMAIN keys = 1..Len(s) /\ \A i \in 1..Len(s) : keys[i] = by(i)
    BY <1>1
  <1> HIDE DEF keys
  <1>3. /\ first \in SUBSET (1..Len(s))
        /\ \A i, j \in first : by(i) = by(j) => i = j
        /\ \A i \in 1..Len(s) : \E j \in first : by(j) = by(i)
    <2>1. /\ first \in SUBSET (1..Len(s))
          /\ \A i, j \in first : keys[i] = keys[j] => i = j
          /\ \A i \in 1..Len(s) : \E j \in first : keys[j] = keys[i]
      BY <1>1, <1>2, FirstsAre
    <2> HIDE DEF by, first
    <2> QED BY <1>2, <2>1
  <1>4. DiverseOrder(s) = D
    BY DEF DiverseOrder, D, A, B, rest, first, keys
  <1>5. On(A, Song, known) /\ On(B, Song, known)
    <2>1. first \in SUBSET (DOMAIN s) /\ rest \in SUBSET (DOMAIN s)
      BY <1>1, <1>3
    <2> QED BY <2>1, KeptOn
  <1>6. On(D, Song, known)
    BY <1>5, ConcatOn
  <1> HIDE DEF first
  <1>7. first \in SUBSET (DOMAIN s) /\ rest \in SUBSET (DOMAIN s)
    BY <1>1, <1>3
  <1>8. \A i \in rest : i \in 1..Len(s) /\ i \notin first
    BY <1>1
  <1> HIDE DEF rest
  <1>9. Keeps(B, s, rest)
    BY <1>1, <1>7, KeptIs
  <1>10. Keeps(A, s, first)
    BY <1>1, <1>7, KeptIs
  <1> HIDE DEF A, B
  <1>11. PICK a \in [1..Len(A) -> first] :
             /\ \A k \in 1..Len(A) : A[k] = s[a[k]]
             /\ \A k, l \in 1..Len(A) : a[k] = a[l] => k = l
             /\ \A i \in first : \E k \in 1..Len(A) : a[k] = i
    BY <1>10 DEF Keeps
  <1>12. PICK b \in [1..Len(B) -> rest] :
             /\ \A k \in 1..Len(B) : B[k] = s[b[k]]
             /\ \A k, l \in 1..Len(B) : b[k] = b[l] => k = l
    BY <1>9 DEF Keeps
  <1> DEFINE m == Len(A)
             n == Len(B)
             place == [i \in 1..(m + n) |-> IF i <= m THEN a[i] ELSE b[i - m]]
  <1>13. /\ Len(D) = m + n /\ m \in Nat /\ n \in Nat
         /\ \A i \in 1..(m + n) : D[i] = IF i <= m THEN A[i] ELSE B[i - m]
    BY <1>5 DEF On
  <1>14. \A i \in 1..(m + n) : /\ i <= m => i \in 1..m
                               /\ ~(i <= m) => i - m \in 1..n
    BY <1>13
  <1> HIDE DEF D
  <1>15. ASSUME NEW i \in 1..(m + n)
         PROVE  /\ D[i] = s[place[i]] /\ place[i] \in 1..Len(s)
                /\ i <= m <=> place[i] \in first
    <2>1. CASE i <= m
      BY <1>3, <1>11, <1>13, <1>14, <2>1
    <2>2. CASE ~(i <= m)
      BY <1>12, <1>8, <1>13, <1>14, <2>2
    <2> QED BY <2>1, <2>2
  <1>16. ASSUME NEW i \in 1..(m + n), NEW j \in 1..(m + n), place[i] = place[j] PROVE i = j
    <2>1. CASE i <= m
      <3>1. j <= m
        BY <1>15, <1>16, <2>1
      <3>2. i \in 1..m /\ j \in 1..m /\ a[i] = a[j]
        BY <1>14, <1>16, <2>1, <3>1
      <3> QED BY <1>11, <3>2
    <2>2. CASE ~(i <= m)
      <3>1. ~(j <= m)
        BY <1>15, <1>16, <2>2
      <3>2. i - m \in 1..n /\ j - m \in 1..n /\ b[i - m] = b[j - m]
        BY <1>14, <1>16, <2>2, <3>1
      <3>3. i - m = j - m
        BY <1>12, <3>2
      <3> QED BY <1>13, <3>3
    <2> QED BY <2>1, <2>2
  <1> HIDE DEF place
  <1>17. Distinct(D)
    <2> SUFFICES ASSUME NEW i \in 1..(m + n), NEW j \in 1..(m + n), D[i].id = D[j].id
                 PROVE  i = j
      BY <1>13 DEF Distinct
    <2>0. /\ place[i] \in 1..Len(s) /\ place[j] \in 1..Len(s)
          /\ s[place[i]].id = s[place[j]].id
      BY <1>15
    <2>1. place[i] = place[j]
      BY <2>0 DEF Distinct
    <2> QED BY <1>16, <2>1
  <1>18. \A i \in 1..(m + n) : ArtistOf(D[i].id) = by(place[i])
    BY <1>15
  <1> HIDE DEF by
  <1>19. Varied(D)
    <2> SUFFICES ASSUME NEW i \in 1..(m + n), NEW j \in 1..(m + n), i < j,
                        NEW k \in 1..(i-1), ArtistOf(D[k].id) = ArtistOf(D[i].id)
                 PROVE  \E l \in 1..(j-1) : ArtistOf(D[l].id) = ArtistOf(D[j].id)
      BY <1>13 DEF Varied
    <2>1. k \in 1..(m + n) /\ k < i
      BY <1>13
    <2>2. by(place[k]) = by(place[i])
      BY <1>18, <2>1
    <2>3. ~(i <= m)
      <3>1. ASSUME i <= m PROVE FALSE
        <4>1. k <= m
          BY <1>13, <2>1, <3>1
        <4>2. place[k] \in first /\ place[i] \in first
          BY <1>15, <2>1, <3>1, <4>1
        <4>3. place[k] = place[i]
          BY <1>3, <2>2, <4>2
        <4>4. k = i
          BY <1>16, <2>1, <4>3
        <4> QED BY <2>1, <4>4
      <3> QED BY <3>1
    <2>4. PICK f \in first : by(f) = by(place[j])
      BY <1>3, <1>15
    <2>5. PICK l \in 1..m : a[l] = f
      BY <1>11, <2>4
    <2>6. l \in 1..(j-1) /\ l \in 1..(m + n) /\ l <= m
      BY <1>13, <2>3, <2>5
    <2>7. place[l] = f
      BY <2>5, <2>6 DEF place
    <2>8. ArtistOf(D[l].id) = ArtistOf(D[j].id)
      BY <1>18, <2>4, <2>6, <2>7
    <2> QED BY <2>6, <2>8
  <1> QED BY <1>4, <1>6, <1>17, <1>19

(* The songs of a card, in the order of their variety. *)
LEMMA CardSongsAre ==
  ASSUME NEW known, NEW s, On(s, Song, known), Shown \in Nat
  PROVE  /\ On(CardSongs(s), Song, known)
         /\ Distinct(CardSongs(s)) /\ Varied(CardSongs(s))
  <1> DEFINE d == DiverseOrder(Deduplicated(s))
             c == Cut(d, Shown)
  <1>1. On(d, Song, known) /\ Distinct(d) /\ Varied(d)
    BY DeduplicatedIs, DiverseOrderIs
  <1> HIDE DEF d
  <1>2. d \in Seq(Song) /\ Len(d) \in Nat
    BY <1>1 DEF On
  <1>3. On(c, Song, known)
    BY <1>1, CutOn
  <1>4. Len(c) \in Nat /\ Len(c) <= Len(d) /\ \A i \in 1..Len(c) : c[i] = d[i]
    BY <1>2, CutIs
  <1> HIDE DEF c
  <1>5. \A i \in 1..Len(c) : i \in 1..Len(d) /\ \A k \in 1..(i-1) : k \in 1..Len(c)
    BY <1>2, <1>4
  <1>6. Distinct(c)
    BY <1>1, <1>4, <1>5 DEF Distinct
  <1>7. Varied(c)
    <2> SUFFICES ASSUME NEW i \in 1..Len(c), NEW j \in 1..Len(c), i < j,
                        NEW k \in 1..(i-1), ArtistOf(c[k].id) = ArtistOf(c[i].id)
                 PROVE  \E l \in 1..(j-1) : ArtistOf(c[l].id) = ArtistOf(c[j].id)
      BY DEF Varied
    <2>1. c[k] = d[k] /\ c[i] = d[i] /\ c[j] = d[j]
      BY <1>4, <1>5
    <2>2. PICK l \in 1..(j-1) : ArtistOf(d[l].id) = ArtistOf(d[j].id)
      BY <1>1, <1>5, <2>1 DEF Varied
    <2>3. c[l] = d[l]
      BY <1>4, <1>5
    <2> QED BY <2>1, <2>2, <2>3
  <1> QED BY <1>3, <1>6, <1>7 DEF CardSongs, c, d

-----------------------------------------------------------------------------
(* What is built from what *)

(* Research only adds to what a card may stand on. *)
LEMMA GoodCardsStay ==
  ASSUME NEW s, NEW known, NEW more, GoodCards(s, known), known \subseteq more
  PROVE  GoodCards(s, more)
  BY DEF GoodCards, GoodSongs, GoodAnalysis, On

(* Dropping the entries whose key was there adds no page. *)
LEMMA UniqueOn ==
  ASSUME NEW T, NEW known, NEW s, On(s, T, known), NEW keys, DOMAIN keys = DOMAIN s
  PROVE  On(Unique(s, keys), T, known)
  <1>1. DOMAIN s = 1..Len(s) /\ Len(s) \in Nat
    BY DEF On
  <1>2. Firsts(keys) \in SUBSET (DOMAIN s)
    BY <1>1, FirstsAre
  <1> QED BY <1>2, KeptOn DEF Unique

(* Nor does merging two lists of sources. *)
LEMMA MergeOn ==
  ASSUME NEW T, NEW known, NEW s, NEW t, On(s, T, known), On(t, T, known), NEW prefer
  PROVE  On(Merge(s, t, prefer), T, known)
  <1> DEFINE all == IF prefer THEN t \o s ELSE s \o t
             keys == [i \in DOMAIN all |-> all[i].page]
  <1>1. On(all, T, known)
    <2>1. On(t \o s, T, known) /\ On(s \o t, T, known)
      BY ConcatOn
    <2> QED BY <2>1
  <1>2. Merge(s, t, prefer) = Unique(all, keys)
    BY DEF Merge
  <1> HIDE DEF all
  <1>3. DOMAIN keys = DOMAIN all
    OBVIOUS
  <1> HIDE DEF keys
  <1> QED BY <1>1, <1>2, <1>3, UniqueOn

(* Every page a draft may cite is known: it was found in this turn, or is  *)
(* on a card.                                                              *)
LEMMA CitableIsKnown ==
  ASSUME Inv
  PROVE  Pages(sources) \subseteq Known /\ CitablePages \subseteq Known
  <1>1. Pages(sources) \subseteq Known
    BY PagesOn DEF Inv, On
  <1>2. ASSUME NEW card \in SongCards
        PROVE  Pages(card.songs) \cup Pages(card.artists) \subseteq Known
    <2>1. PICK i \in 1..Len(cards) : card = cards[i] /\ card.kind = "songs"
      BY <1>2 DEF SongCards, ToSet, Inv, GoodCards
    <2>2. GoodSongs(card, Known)
      BY <2>1 DEF Inv, GoodCards, GoodAnalysis, AnalysisCard
    <2> QED BY <2>2, PagesOn DEF GoodSongs, On
  <1> QED BY <1>1, <1>2 DEF CitablePages

(* The drafts that stand are on citable pages. *)
LEMMA CitedOn ==
  ASSUME NEW T, NEW draft \in Seq(T)
  PROVE  On(Cited(draft), T, CitablePages)
  <1> DEFINE places == {i \in DOMAIN draft : draft[i].page \in CitablePages}
             cited == Kept(draft, places)
  <1>1. places \in SUBSET (DOMAIN draft)
    OBVIOUS
  <1>2. \A i \in places : draft[i].page \in CitablePages
    OBVIOUS
  <1>3. Cited(draft) = cited
    BY DEF Cited
  <1> HIDE DEF places
  <1>4. /\ cited \in Seq(T)
        /\ \E at \in [1..Len(cited) -> places] : \A k \in 1..Len(cited) : cited[k] = draft[at[k]]
    BY <1>1, KeptIs DEF Keeps
  <1> HIDE DEF cited
  <1> QED BY <1>2, <1>3, <1>4 DEF On

(* So are those that are left of them. *)
LEMMA StandingOn ==
  /\ \A draft \in SongDrafts : On(StandingSongs(draft), SongDraft, CitablePages)
  /\ \A draft \in ArtistDrafts : On(StandingArtists(draft), ArtistDraft, CitablePages)
  <1>1. ASSUME NEW draft \in SongDrafts
        PROVE  On(StandingSongs(draft), SongDraft, CitablePages)
    <2> DEFINE cited == Cited(draft)
               keys == [i \in DOMAIN cited |-> cited[i].key]
               once == Unique(cited, keys)
               places == {i \in DOMAIN once :
                            /\ request.fresh => once[i].key \notin PriorKeys
                            /\ request.noArtists => Singer(once[i].key) \notin PriorArtists}
    <2>1. On(cited, SongDraft, CitablePages)
      BY CardsAssumption, CitedOn
    <2> HIDE DEF cited
    <2>2. On(once, SongDraft, CitablePages)
      <3>1. DOMAIN keys = DOMAIN cited
        OBVIOUS
      <3> HIDE DEF keys
      <3> QED BY <2>1, <3>1, UniqueOn
    <2>3. StandingSongs(draft) = Kept(once, places)
      BY DEF StandingSongs, cited
    <2> HIDE DEF once
    <2>4. places \in SUBSET (DOMAIN once)
      OBVIOUS
    <2> HIDE DEF places
    <2> QED BY <2>2, <2>3, <2>4, KeptOn
  <1>2. ASSUME NEW draft \in ArtistDrafts
        PROVE  On(StandingArtists(draft), ArtistDraft, CitablePages)
    <2> DEFINE cited == Cited(draft)
               keys == [i \in DOMAIN cited |-> cited[i].artist]
               once == Unique(cited, keys)
               places == {i \in DOMAIN once :
                            request.noArtists => once[i].artist \notin PriorArtists}
    <2>1. On(cited, ArtistDraft, CitablePages)
      BY CardsAssumption, CitedOn
    <2> HIDE DEF cited
    <2>2. On(once, ArtistDraft, CitablePages)
      <3>1. DOMAIN keys = DOMAIN cited
        OBVIOUS
      <3> HIDE DEF keys
      <3> QED BY <2>1, <3>1, UniqueOn
    <2>3. StandingArtists(draft) = Kept(once, places)
      BY DEF StandingArtists, cited
    <2> HIDE DEF once
    <2>4. places \in SUBSET (DOMAIN once)
      OBVIOUS
    <2> HIDE DEF places
    <2> QED BY <2>2, <2>3, <2>4, KeptOn
  <1> QED BY <1>1, <1>2

(* A resolved draft keeps its page. *)
LEMMA VerifiedOn ==
  ASSUME NEW known, NEW draft, On(draft, SongDraft, known)
  PROVE  On(Verified(draft), Song, known)
  <1> DEFINE places == {i \in DOMAIN draft : Resolve(draft[i].key) # None}
             kept == Kept(draft, places)
             out == [i \in DOMAIN kept |-> [id |-> Resolve(kept[i].key), page |-> kept[i].page]]
  <1>1. draft \in Seq(SongDraft) /\ places \in SUBSET (DOMAIN draft)
    BY DEF On
  <1>2. \A i \in places : Resolve(draft[i].key) # None
    OBVIOUS
  <1>3. Verified(draft) = out
    BY DEF Verified
  <1>4. On(kept, SongDraft, known)
    BY <1>1, KeptOn
  <1> HIDE DEF places
  <1>5. \E at \in [1..Len(kept) -> places] : \A k \in 1..Len(kept) : kept[k] = draft[at[k]]
    BY <1>1, KeptIs DEF Keeps
  <1> HIDE DEF kept
  <1>6. /\ DOMAIN kept = 1..Len(kept) /\ Len(kept) \in Nat
        /\ \A i \in 1..Len(kept) : kept[i] \in SongDraft /\ kept[i].page \in known
    BY <1>4 DEF On
  <1>7. ASSUME NEW i \in 1..Len(kept)
        PROVE  [id |-> Resolve(kept[i].key), page |-> kept[i].page] \in Song
    <2>1. Resolve(kept[i].key) # None
      BY <1>2, <1>5
    <2>2. kept[i].key \in Key /\ kept[i].page \in Page
      BY <1>6 DEF SongDraft
    <2> QED BY <2>1, <2>2, CardsAssumption DEF Song
  <1>8. out \in Seq(Song) /\ Len(out) = Len(kept)
    BY <1>6, <1>7
  <1>9. \A i \in 1..Len(kept) : out[i].page \in known
    BY <1>6
  <1> HIDE DEF out
  <1> QED BY <1>3, <1>8, <1>9 DEF On

(* What the catalogue adds stands on its own page, or on one of the turn.  *)
LEMMA SupplementsOn ==
  ASSUME NEW known, Pages(sources) \cup {Catalogue} \subseteq known,
         On(sources, Source, known),
         NEW songs, NEW more \in Supplements(songs)
  PROVE  On(more, Song, known)
  <1>1. PICK set \in SUBSET Recording, p \in {Catalogue} \cup Pages(sources) :
          more = [i \in 1..Cardinality(set) |-> [id |-> SetToSeq(set)[i], page |-> p]]
    BY DEF Supplements
  <1>2. IsFiniteSet(set) /\ Cardinality(set) \in Nat
    BY CardsAssumption, FS_Subset, FS_CardinalityType
  <1>3. SetToSeq(set) \in [1..Cardinality(set) -> set]
    <2>1. PICK f \in Bijection(1..Cardinality(set), set) : TRUE
      BY <1>2, FS_CardinalityType DEF ExistsBijection
    <2>2. f \in [1..Cardinality(set) -> set] /\ IsInjective(f)
      BY <2>1 DEF Bijection, Injection
    <2> QED BY <2>2 DEF SetToSeq
  <1>4. p \in known /\ p \in Page \cup {Catalogue}
    <2>0. \A x \in Source : x.page \in Page \cup {Catalogue}
      BY DEF Source, Listable
    <2>1. On(sources, Source, Page \cup {Catalogue})
      BY <2>0 DEF On
    <2>2. Pages(sources) \subseteq Page \cup {Catalogue}
      BY <2>1, PagesOn DEF On
    <2> QED BY <2>2
  <1> DEFINE n == Cardinality(set)
             list == SetToSeq(set)
  <1> HIDE DEF n, list
  <1>5. /\ n \in Nat /\ list \in [1..n -> Recording]
        /\ more = [i \in 1..n |-> [id |-> list[i], page |-> p]]
    BY <1>1, <1>2, <1>3 DEF n, list
  <1>6. \A i \in 1..n : [id |-> list[i], page |-> p] \in Song
    BY <1>4, <1>5 DEF Song
  <1>7. more \in Seq(Song) /\ Len(more) = n
    BY <1>5, <1>6
  <1> QED BY <1>4, <1>5, <1>7 DEF On

(* The artists of a card keep the pages of their drafts. *)
LEMMA CardArtistsOn ==
  ASSUME NEW known, NEW draft, On(draft, ArtistDraft, known), NEW songs
  PROVE  On(CardArtists(draft, songs), Suggestion, known)
  <1> DEFINE all == [i \in DOMAIN draft |->
                       [artist |-> draft[i].artist, page |-> draft[i].page,
                        verified |-> draft[i].artist \in Performers(songs)]]
  <1>1. /\ DOMAIN draft = 1..Len(draft) /\ Len(draft) \in Nat
        /\ \A i \in 1..Len(draft) : draft[i] \in ArtistDraft /\ draft[i].page \in known
    BY DEF On
  <1>2. ASSUME NEW i \in 1..Len(draft) PROVE all[i] \in Suggestion /\ all[i].page \in known
    <2>1. draft[i].artist \in Artist /\ draft[i].page \in Page
      BY <1>1 DEF ArtistDraft
    <2>2. (draft[i].artist \in Performers(songs)) \in BOOLEAN
      OBVIOUS
    <2> QED BY <1>1, <2>1, <2>2 DEF Suggestion
  <1>3. CardArtists(draft, songs) = Cut(all, ShownArtists)
    BY DEF CardArtists
  <1>4. DOMAIN all = 1..Len(draft) /\ all = [i \in 1..Len(draft) |-> all[i]]
    BY <1>1
  <1> HIDE DEF all
  <1>5. all \in Seq(Suggestion) /\ Len(all) = Len(draft)
    BY <1>1, <1>2, <1>4
  <1>6. On(all, Suggestion, known)
    BY <1>2, <1>5 DEF On
  <1> QED BY <1>3, <1>6, Bounds, CutOn

-----------------------------------------------------------------------------
(* Claims *)

(* What a draft claims, kept to the pages listed. *)
LEMMA SanitizeIs ==
  ASSUME NEW claim \in Claim, NEW pages
  PROVE  /\ Sanitize(claim, DOMAIN pages) \in Claim
         /\ Backed(Sanitize(claim, DOMAIN pages), pages)
  BY DEF Sanitize, Claim, Verdict, Backed

(* What a reviewer says of a claim: it is supported only by pages listed,  *)
(* and without any it is weak.                                             *)
LEMMA ApplyReviewIs ==
  ASSUME NEW claim \in Claim, NEW review \in Review, NEW pages, DOMAIN pages \subseteq 1..MaxRefs
  PROVE  /\ ApplyReview(claim, review, pages) \in Claim
         /\ Backed(ApplyReview(claim, review, pages), pages)
  <1> DEFINE refs == review.refs \cap DOMAIN pages
             cited == {pages[i] : i \in refs}
             verdict == IF review.verdict = "supported" /\ refs = {} THEN "unsupported"
                                                                     ELSE review.verdict
             confidence ==
               CASE verdict = "supported" ->
                      IF cited \cap Strong # {} /\ Cardinality(refs) >= 2 THEN "high" ELSE "medium"
                 [] verdict \in {"partial", "conflicting"} ->
                      IF cited \cap (Strong \cup Fair) # {} THEN "medium" ELSE "low"
                 [] OTHER -> "low"
             out == [claim EXCEPT !.refs = refs, !.status = verdict, !.confidence = confidence]
  <1>1. ApplyReview(claim, review, pages) = out
    BY DEF ApplyReview
  <1>2. refs \subseteq 1..MaxRefs /\ refs \subseteq DOMAIN pages /\ (refs = {} => cited = {})
    OBVIOUS
  <1> HIDE DEF refs, cited
  <1>3. verdict \in Verdict /\ (refs = {} => verdict # "supported")
    BY DEF Review, Verdict
  <1> HIDE DEF verdict
  <1>4. confidence \in {"high", "medium", "low"} /\ (refs = {} => confidence = "low")
    BY <1>2, <1>3 DEF Verdict
  <1> HIDE DEF confidence
  <1>5. /\ out.fact = claim.fact /\ out.refs = refs
        /\ out.status = verdict /\ out.confidence = confidence /\ out \in Claim
    BY <1>2, <1>3, <1>4 DEF Claim
  <1> QED BY <1>1, <1>2, <1>3, <1>4, <1>5 DEF Backed

(* The pages an analysis lists are known, and no more than it may number.  *)
LEMMA RefPagesAre ==
  ASSUME Inv
  PROVE  /\ RefPages \in Seq(Listable) /\ Len(RefPages) \in Nat /\ Len(RefPages) <= MaxRefs
         /\ \A i \in 1..Len(RefPages) : RefPages[i] \in Known
  <1> DEFINE old == {i \in DOMAIN sources : sources[i].inherited}
             new == {i \in DOMAIN sources : ~sources[i].inherited}
             carried == Cut(Kept(sources, old), Carried)
             current == Kept(sources, new)
             raw == Cut(carried \o current, MaxRefs)
             pages == [i \in DOMAIN raw |-> raw[i].page]
  <1>1. RefPages = pages
    BY DEF RefPages
  <1>2. old \in SUBSET (DOMAIN sources) /\ new \in SUBSET (DOMAIN sources)
    OBVIOUS
  <1> HIDE DEF old, new
  <1>3. On(current, Source, Known) /\ On(Kept(sources, old), Source, Known)
    BY <1>2, KeptOn DEF Inv
  <1>4. On(carried, Source, Known)
    BY <1>3, Bounds, CutOn
  <1>5. On(raw, Source, Known) /\ Len(raw) <= MaxRefs
    <2> HIDE DEF carried, current
    <2>1. On(carried \o current, Source, Known)
      BY <1>3, <1>4, ConcatOn
    <2> QED BY <2>1, Bounds, CutOn
  <1> HIDE DEF raw
  <1>6. /\ DOMAIN raw = 1..Len(raw) /\ Len(raw) \in Nat
        /\ \A i \in 1..Len(raw) : raw[i].page \in Listable /\ raw[i].page \in Known
    <2>1. \A x \in Source : x.page \in Listable
      BY DEF Source
    <2> QED BY <1>5, <2>1 DEF On
  <1>7. pages \in Seq(Listable) /\ Len(pages) = Len(raw)
    BY <1>6
  <1>8. \A i \in 1..Len(raw) : pages[i] \in Known
    BY <1>6
  <1> HIDE DEF pages
  <1> QED BY <1>1, <1>5, <1>6, <1>7, <1>8

(* The pages a new analysis starts from are those of the last one. *)
LEMMA InheritedSourcesAre ==
  ASSUME Inv
  PROVE  On(InheritedSources, Source, Known)
  <1> DEFINE places == {i \in DOMAIN cards : cards[i].kind = "analysis"}
             kept == Kept(cards, places)
  <1>1. /\ cards \in Seq(SongCard \cup AnalysisCard) /\ Len(cards) \in Nat
        /\ \A i \in 1..Len(cards) : GoodSongs(cards[i], Known) \/ GoodAnalysis(cards[i], Known)
    BY DEF Inv, GoodCards
  <1>2. places \in SUBSET (DOMAIN cards) /\ \A i \in places : i \in 1..Len(cards)
    BY <1>1
  <1>3. ASSUME NEW i \in places PROVE GoodAnalysis(cards[i], Known)
    BY <1>1, <1>2 DEF GoodSongs, SongCard
  <1>4. AnalysisCards = kept
    BY DEF AnalysisCards
  <1> HIDE DEF places
  <1>5. /\ kept \in Seq(SongCard \cup AnalysisCard) /\ Len(kept) \in Nat
        /\ \E at \in [1..Len(kept) -> places] : \A k \in 1..Len(kept) : kept[k] = cards[at[k]]
    BY <1>1, <1>2, KeptIs DEF Keeps
  <1> HIDE DEF kept
  <1>6. CASE kept = <<>>
    BY <1>4, <1>6 DEF InheritedSources, On
  <1>7. CASE kept # <<>>
    <2> DEFINE card == kept[Len(kept)]
               first == Cut(card.pages, Listed)
               listed == Cut(first, ListedAgain)
               out == [i \in DOMAIN listed |-> [page |-> listed[i], inherited |-> TRUE]]
    <2>1. Len(kept) \in 1..Len(kept)
      BY <1>5, <1>7
    <2>2. GoodAnalysis(card, Known)
      BY <1>3, <1>5, <2>1
    <2>3. InheritedSources = out
      BY <1>4, <1>7 DEF InheritedSources, Last
    <2> HIDE DEF card
    <2>4. card.pages \in Seq(Listable) /\ Len(card.pages) \in Nat
          /\ \A i \in 1..Len(card.pages) : card.pages[i] \in Known
      BY <2>2 DEF GoodAnalysis, AnalysisCard
    <2>5. /\ first \in Seq(Listable) /\ Len(first) \in Nat /\ Len(first) <= Len(card.pages)
          /\ \A i \in 1..Len(first) : first[i] = card.pages[i]
      BY <2>4, Bounds, CutIs
    <2> HIDE DEF first
    <2>6. /\ listed \in Seq(Listable) /\ Len(listed) \in Nat /\ Len(listed) <= Len(first)
          /\ \A i \in 1..Len(listed) : listed[i] = first[i]
      BY <2>5, Bounds, CutIs
    <2> HIDE DEF listed
    <2>7. \A i \in 1..Len(listed) : i \in 1..Len(first) /\ i \in 1..Len(card.pages)
      BY <2>4, <2>5, <2>6
    <2>8. \A i \in 1..Len(listed) : listed[i] \in Known /\ listed[i] \in Listable
      BY <2>4, <2>5, <2>6, <2>7
    <2>9. DOMAIN listed = 1..Len(listed)
      BY <2>6
    <2>10. out \in Seq(Source) /\ Len(out) = Len(listed)
      BY <2>6, <2>8, <2>9 DEF Source
    <2>11. \A i \in 1..Len(listed) : out[i].page \in Known
      BY <2>8, <2>9
    <2> HIDE DEF out
    <2> QED BY <2>3, <2>10, <2>11 DEF On
  <1> QED BY <1>6, <1>7

-----------------------------------------------------------------------------
(* Steps *)

(* A turn that ends leaves its card, and nothing else. *)
LEMMA DoneStep ==
  ASSUME Inv, NEW more, GoodCards(more, Known), Done(more)
  PROVE  Inv'
  <1>1. /\ cards' = cards \o more /\ sources' = <<>> /\ found' = found
        /\ request' = [wish |-> "recommend", fresh |-> FALSE, noArtists |-> FALSE,
                       named |-> {}, fullText |-> FALSE]
    BY DEF Done
  <1>2. request' \in Request
    BY <1>1 DEF Request
  <1>3. Known' = Known /\ On(sources, Source, Known)'
    BY <1>1 DEF Known, On
  <1> DEFINE all == cards \o more
             T == SongCard \cup AnalysisCard
  <1> HIDE DEF T
  <1>4. /\ cards \in Seq(T) /\ more \in Seq(T) /\ Len(cards) \in Nat /\ Len(more) \in Nat
        /\ \A i \in 1..Len(cards) : GoodSongs(cards[i], Known) \/ GoodAnalysis(cards[i], Known)
        /\ \A i \in 1..Len(more) : GoodSongs(more[i], Known) \/ GoodAnalysis(more[i], Known)
    BY DEF Inv, GoodCards, T
  <1>5. /\ all \in Seq(T) /\ Len(all) = Len(cards) + Len(more)
        /\ \A i \in 1..Len(all) :
             all[i] = IF i <= Len(cards) THEN cards[i] ELSE more[i - Len(cards)]
    BY <1>4
  <1>6. \A i \in 1..Len(all) : /\ i <= Len(cards) => i \in 1..Len(cards)
                               /\ ~(i <= Len(cards)) => i - Len(cards) \in 1..Len(more)
    BY <1>4, <1>5
  <1>7. \A i \in 1..Len(all) : GoodSongs(all[i], Known) \/ GoodAnalysis(all[i], Known)
    BY <1>4, <1>5, <1>6
  <1> HIDE DEF all
  <1>8. GoodCards(all, Known)
    BY <1>5, <1>7 DEF GoodCards, T
  <1>9. GoodCards(cards', Known')
    BY <1>1, <1>3, <1>8 DEF all
  <1> QED BY <1>2, <1>3, <1>9 DEF Inv

(* No card is a good list of cards, and one good card is. *)
LEMMA OneCard ==
  ASSUME NEW known
  PROVE  /\ GoodCards(<<>>, known)
         /\ \A card : GoodSongs(card, known) \/ GoodAnalysis(card, known)
                       => GoodCards(<<card>>, known)
  BY DEF GoodCards, GoodSongs, GoodAnalysis

(* A new turn starts from the pages of the last analysis, or from none.    *)
LEMMA AskStep ==
  ASSUME Inv, Ask
  PROVE  Inv'
  <1>1. /\ request' \in Request /\ UNCHANGED <<cards, found>>
        /\ sources' = InheritedSources \/ sources' = <<>>
    BY CardsAssumption DEF Ask
  <1>2. Known' = Known
    BY <1>1 DEF Known
  <1>3. GoodCards(cards', Known')
    BY <1>1, <1>2 DEF Inv
  <1>4. On(<<>>, Source, Known)
    BY DEF On
  <1>5. On(sources', Source, Known')
    BY <1>1, <1>2, <1>4, InheritedSourcesAre
  <1> QED BY <1>1, <1>3, <1>5 DEF Inv

(* What a search returns is known from then on. *)
LEMMA SearchWebStep ==
  ASSUME Inv, SearchWeb
  PROVE  Inv'
  <1>1. PICK hits \in Hits :
          /\ sources' = Merge(sources, [i \in DOMAIN hits |-> [page |-> hits[i], inherited |-> FALSE]],
                              searches > 0)
          /\ found' = found \cup ToSet(hits)
    BY DEF SearchWeb
  <1>2. request' = request /\ cards' = cards
    BY DEF SearchWeb
  <1> DEFINE new == [i \in DOMAIN hits |-> [page |-> hits[i], inherited |-> FALSE]]
             known == found' \cup {Catalogue}
  <1>3. /\ hits \in Seq(Page) /\ DOMAIN hits = 1..Len(hits) /\ Len(hits) \in Nat
        /\ \A i \in 1..Len(hits) : hits[i] \in Page /\ hits[i] \in known
    BY <1>1, CardsAssumption DEF ToSet
  <1>4. Known \subseteq known /\ Known' = known
    BY <1>1 DEF Known
  <1> HIDE DEF known
  <1>5. new \in Seq(Source) /\ Len(new) = Len(hits)
    BY <1>3 DEF Source, Listable
  <1>6. \A i \in 1..Len(hits) : new[i].page \in known
    BY <1>3
  <1>7. sources' = Merge(sources, new, searches > 0)
    BY <1>1
  <1> HIDE DEF new
  <1>8. On(new, Source, known)
    BY <1>5, <1>6 DEF On
  <1>9. On(sources, Source, known) /\ GoodCards(cards, known)
    BY <1>4, GoodCardsStay DEF Inv, On
  <1>10. On(sources', Source, known)
    BY <1>7, <1>8, <1>9, MergeOn
  <1> QED BY <1>2, <1>4, <1>9, <1>10 DEF Inv

(* A recommendation that goes through leaves a card of known pages, in the *)
(* order of its variety, whatever was drafted, resolved or added.          *)
LEMMA RecommendStep ==
  ASSUME Inv, Recommend
  PROVE  Inv'
  <1>1. PICK draft \in SongDrafts, people \in ArtistDrafts, resolved \in BOOLEAN :
          LET standing == StandingSongs(draft)
              verified == IF resolved THEN Verified(standing) ELSE <<>>
          IN \E more \in Supplements(verified) :
               LET songs == CardSongs(more \o verified)
                   artists == CardArtists(StandingArtists(people), verified)
                   empty == songs = <<>> /\ artists = <<>>
               IN IF searches < MaxSearches /\ (empty \/ Gaps(songs))
                  THEN UNCHANGED vars
                  ELSE Done(IF empty THEN <<>>
                            ELSE <<[kind |-> "songs", songs |-> songs, artists |-> artists,
                                    fresh |-> request.fresh]>>)
    BY DEF Recommend
  <1> DEFINE standing == StandingSongs(draft)
             verified == IF resolved THEN Verified(standing) ELSE <<>>
  <1>2. PICK more \in Supplements(verified) :
               LET songs == CardSongs(more \o verified)
                   artists == CardArtists(StandingArtists(people), verified)
                   empty == songs = <<>> /\ artists = <<>>
               IN IF searches < MaxSearches /\ (empty \/ Gaps(songs))
                  THEN UNCHANGED vars
                  ELSE Done(IF empty THEN <<>>
                            ELSE <<[kind |-> "songs", songs |-> songs, artists |-> artists,
                                    fresh |-> request.fresh]>>)
    BY <1>1
  <1>3. On(standing, SongDraft, Known) /\ On(StandingArtists(people), ArtistDraft, Known)
    BY CitableIsKnown, StandingOn DEF On
  <1>4. On(verified, Song, Known)
    <2> HIDE DEF standing
    <2>1. On(Verified(standing), Song, Known)
      BY <1>3, VerifiedOn
    <2>2. On(<<>>, Song, Known)
      BY DEF On
    <2> QED BY <2>1, <2>2
  <1> HIDE DEF verified
  <1>5. On(more, Song, Known)
    <2>1. Pages(sources) \cup {Catalogue} \subseteq Known /\ On(sources, Source, Known)
      BY CitableIsKnown DEF Inv, Known
    <2> QED BY <2>1, SupplementsOn
  <1> DEFINE songs == CardSongs(more \o verified)
             artists == CardArtists(StandingArtists(people), verified)
             empty == songs = <<>> /\ artists = <<>>
             card == [kind |-> "songs", songs |-> songs, artists |-> artists,
                      fresh |-> request.fresh]
  <1>6. On(songs, Song, Known) /\ Distinct(songs) /\ Varied(songs)
    <2>1. On(more \o verified, Song, Known)
      BY <1>4, <1>5, ConcatOn
    <2> QED BY <2>1, CardsAssumption, CardSongsAre
  <1>7. On(artists, Suggestion, Known)
    BY <1>3, CardArtistsOn
  <1>8. \/ UNCHANGED vars
        \/ Done(IF empty THEN <<>> ELSE <<card>>)
    BY <1>2
  <1> HIDE DEF songs, artists
  <1>9. GoodSongs(card, Known)
    <2>1. request.fresh \in BOOLEAN
      BY DEF Inv, Request
    <2>2. songs \in Seq(Song) /\ artists \in Seq(Suggestion)
      BY <1>6, <1>7 DEF On
    <2>3. card \in SongCard
      BY <2>1, <2>2 DEF SongCard
    <2> QED BY <1>6, <1>7, <2>3 DEF GoodSongs
  <1> HIDE DEF card
  <1>10. GoodCards(<<>>, Known) /\ GoodCards(<<card>>, Known)
    BY <1>9, OneCard
  <1>11. CASE UNCHANGED vars
    BY <1>11 DEF vars, Inv, Known
  <1>12. CASE Done(<<>>) \/ Done(<<card>>)
    BY <1>10, <1>12, DoneStep
  <1> QED BY <1>8, <1>11, <1>12

(* An analysis leaves a card whose claims are backed, whether they were    *)
(* reviewed, passed over or made for want of better ones.                  *)
LEMMA AnalyseStep ==
  ASSUME Inv, Analyse
  PROVE  Inv'
  <1> DEFINE pages == RefPages
             card(claims) == [kind |-> "analysis", pages |-> pages, claims |-> claims]
  <1>1. /\ pages \in Seq(Listable) /\ Len(pages) \in Nat /\ Len(pages) <= MaxRefs
        /\ \A i \in 1..Len(pages) : pages[i] \in Known
    BY RefPagesAre
  <1>2. \/ Done(<<card(<<FallbackClaim(pages)>>)>>)
        \/ \E draft \in ClaimDrafts :
             LET claims == [i \in DOMAIN draft |-> Sanitize(draft[i], DOMAIN pages)]
             IN \E spoken \in IF NeedsReview(claims) THEN SUBSET DOMAIN claims ELSE {{}} :
                \E reviews \in [spoken -> Verdicts] :
                  Done(<<card(Reviewed(claims, reviews, pages))>>)
    BY DEF Analyse
  <1> HIDE DEF pages
  <1>3. DOMAIN pages = 1..Len(pages) /\ DOMAIN pages \subseteq 1..MaxRefs /\ MaxRefs \in Nat
    BY <1>1, CardsAssumption
  <1>4. ASSUME NEW claims \in Seq(Claim), \A i \in 1..Len(claims) : Backed(claims[i], pages),
               Done(<<card(claims)>>)
        PROVE  Inv'
    <2>1. GoodAnalysis(card(claims), Known)
      BY <1>1, <1>4 DEF GoodAnalysis, AnalysisCard
    <2> HIDE DEF card
    <2>2. GoodCards(<<card(claims)>>, Known)
      BY <2>1, OneCard
    <2> QED BY <1>4, <2>2, DoneStep
  <1>5. CASE Done(<<card(<<FallbackClaim(pages)>>)>>)
    <2> DEFINE claim == FallbackClaim(pages)
    <2>1. claim.refs \subseteq DOMAIN pages /\ claim.fact = FALSE /\ claim \in Claim
      BY <1>3 DEF FallbackClaim, Claim, Verdict
    <2>2. Backed(claim, pages)
      BY <2>1 DEF Backed
    <2> HIDE DEF claim
    <2>3. <<claim>> \in Seq(Claim) /\ Len(<<claim>>) = 1 /\ <<claim>>[1] = claim
      BY <2>1
    <2>4. \A i \in 1..Len(<<claim>>) : Backed(<<claim>>[i], pages)
      BY <2>2, <2>3
    <2>5. Done(<<card(<<claim>>)>>)
      BY <1>5 DEF claim
    <2> HIDE DEF card
    <2> QED BY <1>4, <2>3, <2>4, <2>5
  <1>6. ASSUME NEW draft \in ClaimDrafts,
               LET claims == [i \in DOMAIN draft |-> Sanitize(draft[i], DOMAIN pages)]
               IN \E spoken \in IF NeedsReview(claims) THEN SUBSET DOMAIN claims ELSE {{}} :
                  \E reviews \in [spoken -> Verdicts] :
                    Done(<<card(Reviewed(claims, reviews, pages))>>)
        PROVE  Inv'
    <2> DEFINE claims == [i \in DOMAIN draft |-> Sanitize(draft[i], DOMAIN pages)]
    <2>1. PICK spoken \in IF NeedsReview(claims) THEN SUBSET DOMAIN claims ELSE {{}} :
               \E reviews \in [spoken -> Verdicts] :
                 Done(<<card(Reviewed(claims, reviews, pages))>>)
      BY <1>6
    <2>2. PICK reviews \in [spoken -> Verdicts] : Done(<<card(Reviewed(claims, reviews, pages))>>)
      BY <2>1
    <2>3. /\ draft \in Seq(Claim) /\ DOMAIN draft = 1..Len(draft) /\ Len(draft) \in Nat
          /\ \A i \in 1..Len(draft) : draft[i] \in Claim
      BY CardsAssumption
    <2>4. /\ DOMAIN claims = 1..Len(draft)
          /\ \A i \in 1..Len(draft) : claims[i] \in Claim
      BY <2>3, SanitizeIs
    <2> DEFINE final(i) == IF i \in DOMAIN reviews THEN ApplyReview(claims[i], reviews[i], pages)
                                                    ELSE Sanitize(claims[i], DOMAIN pages)
               finals == [i \in DOMAIN claims |-> final(i)]
    <2>5. Reviewed(claims, reviews, pages) = finals
      BY DEF Reviewed
    <2> HIDE DEF claims
    <2>6. ASSUME NEW i \in 1..Len(draft) PROVE final(i) \in Claim /\ Backed(final(i), pages)
      <3>1. CASE i \in DOMAIN reviews
        <4>1. reviews[i] \in Review
          BY <3>1, CardsAssumption
        <4>2. ApplyReview(claims[i], reviews[i], pages) \in Claim
              /\ Backed(ApplyReview(claims[i], reviews[i], pages), pages)
          BY <1>3, <2>4, <4>1, ApplyReviewIs
        <4> QED BY <3>1, <4>2
      <3>2. CASE i \notin DOMAIN reviews
        BY <2>4, <3>2, SanitizeIs
      <3> QED BY <3>1, <3>2
    <2> HIDE DEF final
    <2>7. /\ finals \in Seq(Claim) /\ Len(finals) = Len(draft)
          /\ \A i \in 1..Len(draft) : finals[i] = final(i)
      BY <2>3, <2>4, <2>6
    <2>8. Done(<<card(finals)>>)
      BY <2>2, <2>5
    <2> HIDE DEF finals, card
    <2>9. \A i \in 1..Len(finals) : Backed(finals[i], pages)
      BY <2>6, <2>7
    <2> QED BY <1>4, <2>7, <2>8, <2>9
  <1> QED BY <1>2, <1>5, <1>6

(* The invariant holds in every initial state.                             *)
LEMMA InitInv == Init => Inv
  <1> SUFFICES ASSUME Init PROVE Inv
    OBVIOUS
  <1>1. request \in Request
    BY CardsAssumption DEF Init
  <1>2. On(sources, Source, Known) /\ GoodCards(cards, Known)
    BY OneCard DEF Init, On
  <1> QED BY <1>1, <1>2 DEF Inv

(* Every step keeps the invariant.                                         *)
LEMMA NextInv == Inv /\ [Next]_vars => Inv'
  <1> SUFFICES ASSUME Inv, [Next]_vars PROVE Inv'
    OBVIOUS
  <1>1. CASE Ask
    BY <1>1, AskStep
  <1>2. CASE SearchWeb
    BY <1>2, SearchWebStep
  <1>3. CASE Recommend
    BY <1>3, RecommendStep
  <1>4. CASE Degrade
    BY <1>4, OneCard, DoneStep DEF Degrade
  <1>5. CASE Analyse
    BY <1>5, AnalyseStep
  <1>6. CASE UNCHANGED vars
    BY <1>6 DEF vars, Inv, Known
  <1> QED BY <1>1, <1>2, <1>3, <1>4, <1>5, <1>6 DEF Next

(* The invariant holds throughout.                                         *)
LEMMA AlwaysInv == Spec => []Inv
  BY InitInv, NextInv, PTL DEF Spec

-----------------------------------------------------------------------------
(* Theorems *)

(* Nothing is recommended or listed from memory, in a conversation of any  *)
(* length: every page on a card was returned by research or is the         *)
(* catalogue's own, a claim cites only pages its card lists, and a fact    *)
(* that cites none is neither supported nor more than weak.                *)
THEOREM CardsRestOnEvidence == Spec => []EvidenceIsFound
  <1>1. Inv => EvidenceIsFound
    <2> SUFFICES ASSUME Inv PROVE EvidenceIsFound
      OBVIOUS
    <2>1. /\ cards \in Seq(SongCard \cup AnalysisCard) /\ Len(cards) \in Nat
          /\ \A i \in 1..Len(cards) : GoodSongs(cards[i], Known) \/ GoodAnalysis(cards[i], Known)
      BY DEF Inv, GoodCards
    <2>2. ASSUME NEW card \in ToSet(cards)
          PROVE  Pages(Songs(card)) \cup Pages(Suggestions(card))
                   \cup (IF card.kind = "analysis" THEN ToSet(card.pages) ELSE {}) \subseteq Known
      <3>1. GoodSongs(card, Known) \/ GoodAnalysis(card, Known)
        BY <2>1 DEF ToSet
      <3>2. CASE GoodSongs(card, Known)
        <4>1. card.kind = "songs"
          BY <3>2 DEF GoodSongs, SongCard
        <4>2. Pages(card.songs) \subseteq Known /\ Pages(card.artists) \subseteq Known
          BY <3>2, PagesOn DEF GoodSongs, On
        <4> QED BY <4>1, <4>2 DEF Songs, Suggestions
      <3>3. CASE GoodAnalysis(card, Known)
        <4>1. card.kind = "analysis" /\ card.pages \in Seq(Listable)
          BY <3>3 DEF GoodAnalysis, AnalysisCard
        <4>2. ToSet(card.pages) \subseteq Known
          BY <3>3, <4>1 DEF GoodAnalysis, ToSet
        <4>3. Songs(card) = <<>> /\ Suggestions(card) = <<>> /\ Pages(<<>>) = {}
          BY <4>1 DEF Songs, Suggestions, Pages, ToSet
        <4> QED BY <4>1, <4>2, <4>3
      <3> QED BY <3>1, <3>2, <3>3
    <2>3. ASSUME NEW card \in ToSet(AnalysisCards) PROVE GoodAnalysis(card, Known)
      <3> DEFINE places == {i \in DOMAIN cards : cards[i].kind = "analysis"}
                 kept == Kept(cards, places)
      <3>1. places \in SUBSET (DOMAIN cards) /\ \A i \in places : i \in 1..Len(cards)
        BY <2>1
      <3>2. ASSUME NEW i \in places PROVE GoodAnalysis(cards[i], Known)
        BY <2>1, <3>1 DEF GoodSongs, SongCard
      <3>3. AnalysisCards = kept
        BY DEF AnalysisCards
      <3> HIDE DEF places
      <3>4. /\ kept \in Seq(SongCard \cup AnalysisCard)
            /\ \E at \in [1..Len(kept) -> places] : \A k \in 1..Len(kept) : kept[k] = cards[at[k]]
        BY <2>1, <3>1, KeptIs DEF Keeps
      <3> HIDE DEF kept
      <3>5. PICK k \in 1..Len(kept) : card = kept[k]
        BY <3>3, <3>4 DEF ToSet
      <3> QED BY <3>2, <3>4, <3>5
    <2>4. ASSUME NEW card \in ToSet(AnalysisCards), NEW claim \in ToSet(card.claims)
          PROVE  Backed(claim, card.pages)
      <3>1. GoodAnalysis(card, Known)
        BY <2>3
      <3>2. card.claims \in Seq(Claim)
        BY <3>1 DEF GoodAnalysis, AnalysisCard
      <3>3. PICK i \in 1..Len(card.claims) : claim = card.claims[i]
        BY <3>2 DEF ToSet
      <3> QED BY <3>1, <3>3 DEF GoodAnalysis
    <2> QED BY <2>2, <2>4 DEF EvidenceIsFound, Known, Backed
  <1> QED BY <1>1, AlwaysInv, PTL

(* The visible songs of every card keep the contract of variety: none      *)
(* twice, and no artist a second time before another a first time.         *)
THEOREM CardsAreVaried == Spec => []VarietyFirst
  <1>1. Inv => VarietyFirst
    <2> SUFFICES ASSUME Inv, NEW card \in SongCards
                 PROVE  Distinct(card.songs) /\ Varied(card.songs)
      BY DEF VarietyFirst, Distinct, Varied
    <2>1. PICK i \in 1..Len(cards) : card = cards[i] /\ card.kind = "songs"
      BY DEF SongCards, ToSet, Inv, GoodCards
    <2>2. GoodSongs(card, Known)
      BY <2>1 DEF Inv, GoodCards, GoodAnalysis, AnalysisCard
    <2> QED BY <2>2 DEF GoodSongs
  <1> QED BY <1>1, AlwaysInv, PTL

=============================================================================
