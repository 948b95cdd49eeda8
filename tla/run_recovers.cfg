\* A worker crash, a lost connection, a duplicated message and a lapsed lease; no transaction is overtaken, no call is lost.
SPECIFICATION FairSpec
CONSTANTS
  Runs = {r1}
  Slots = {w1, w2}
  NoRun = NoRun
  Kinds = {"CONVERSATION", "TOURNAMENT_REPORT"}
  Answers = {}
  RetryLimit = 2
  MaxAttempts = 5
  MaxCrashes = 1
  MaxDisconnects = 1
  MaxDrops = 0
  MaxDuplicates = 1
  MaxLapses = 1
  MaxOverlaps = 0
INVARIANTS LeaseDiscipline RetryKeepsTicket RunningIsRecoverable
PROPERTIES RunningEnds LifecycleSpec
CHECK_DEADLOCK FALSE
