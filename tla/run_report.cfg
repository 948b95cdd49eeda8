SPECIFICATION Spec
CONSTANTS
  Page = {p1, p2}
  Brackets <- Both
  MinSongs = 2
  MaxSongs = 3
  MaxFound = 2
  MinCards = 3
  MaxCards = 5
  FreeRounds = 4
  Calls = 7
INVARIANTS TypeOK DeliveredIsReviewed TrajectoryTellsBothSides EndsInTime
SYMMETRY PageSymmetry
