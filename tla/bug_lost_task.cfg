\* One worker crash.
SPECIFICATION FairSpec
CONSTANTS
  Runs = {r1}
  Slots = {w1, w2}
  NoRun = NoRun
  Kinds = {"TOURNAMENT_REPORT"}
  Answers = {}
  RetryLimit = 3
  MaxAttempts = 4
  MaxCrashes = 1
  MaxDisconnects = 0
  MaxDrops = 0
  MaxDuplicates = 0
  MaxLapses = 0
  MaxOverlaps = 0
PROPERTIES QueuedIsServed
CHECK_DEADLOCK FALSE
