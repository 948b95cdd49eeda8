SPECIFICATION Spec
CONSTANTS
  p1 = p1
  p2 = p2
  p3 = p3
  catalogue = catalogue
  hebe = hebe
  tanya = tanya
  none = none
  Page <- AllPages
  Catalogue = catalogue
  Strong <- StrongPages
  Fair <- FairPages
  Recording <- Songs3
  Artist = {hebe, tanya}
  ArtistOf <- Performer
  Key <- Keys5
  KeyOf <- KeyOfSong
  Singer <- SingerOf
  Resolve <- Denotes
  None = none
  Requests <- Asked
  Hits <- Found
  SongDrafts <- Drafts
  ArtistDrafts <- People
  ClaimDrafts <- Claims
  Verdicts <- Verdict3
  MaxCoverage = 5
  Few = 2
  Shown = 3
  ShownArtists = 3
  Carried = 1
  MaxRefs = 3
  Listed = 2
  ListedAgain = 12
  MaxSearches = 2
  MaxTurns = 2
INVARIANTS EvidenceIsFound VarietyFirst
