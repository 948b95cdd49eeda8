\* Eight entries, two votes at a time, requests may die.
SPECIFICATION Spec
CONSTANTS
  Sizes <- EightEntries
  NoEntry = NoEntry
  NoClient = NoClient
  Clients = {c1, c2}
  Handlers = {h1, h2}
  MaxTries = 3
  MayDie = TRUE
INVARIANTS TypeOK SlotsHoldWinners ResultFollowsVotes SomeMatchIsPlayable
PROPERTIES VotesAreFinal
SYMMETRY Symmetry
CONSTRAINT Preferences
\* Nobody need vote, and a tournament ends.
CHECK_DEADLOCK FALSE
