\* A crash, a lost call and an overtaken transaction; every kind of run, and an answer.
SPECIFICATION Spec
CONSTANTS
  Runs = {r1}
  Slots = {w1, w2}
  NoRun = NoRun
  Kinds = {"CONVERSATION", "CANDIDATE_POOL", "TOURNAMENT_REPORT"}
  Answers = {a1}
  RetryLimit = 2
  MaxAttempts = 5
  MaxCrashes = 1
  MaxDisconnects = 0
  MaxDrops = 1
  MaxDuplicates = 0
  MaxLapses = 0
  MaxOverlaps = 1
SYMMETRY SlotSymmetry
INVARIANTS TypeOK DeadLetterIsFailure StatusIsPublished
CHECK_DEADLOCK FALSE
