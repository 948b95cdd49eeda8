\* Two messages, two runs, an answer, a lapse or a restart.
SPECIFICATION FairSpec
CONSTANTS
  k1 = k1
  k2 = k2
  Keys <- TwoKeys
  Answers = {a1}
  Attempts = 2
  MaxRuns = 2
  MaxFaults = 1
INVARIANTS TypeOK UsedOnce NothingWaitsBehind AppliedWasHeard
PROPERTY WaitingMessageMovesOn
CONSTRAINT FirstKeyFirst
CHECK_DEADLOCK FALSE
