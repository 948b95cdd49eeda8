\* A vote answered as accepted that is in no table.
SPECIFICATION Spec
CONSTANTS
  Sizes <- FourEntries
  NoEntry = NoEntry
  NoClient = NoClient
  Clients = {c1, c2}
  Handlers = {h1, h2}
  MaxTries = 3
  MayDie = FALSE
INVARIANTS AcceptedIsKept
SYMMETRY Symmetry
CHECK_DEADLOCK FALSE
