SPECIFICATION Spec
CONSTANTS
  anita = anita
  bo = bo
  Recording <- Songs4
  Artist = {anita, bo}
  ArtistOf <- Performer
  VersionOf <- Version
  Hinted <- OnPages
  Requests <- Asked
  Size = 1
  Batch = 1
  Rounds = 2
  MaxIterations = 6
  StagnationLimit = 2
  CheckedUntil = 4
INVARIANTS TypeOK PoolIsPlayable GivesUpLast OpenPoolIsBroadened WithinBudget
