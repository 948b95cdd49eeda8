\* Every transaction that writes to a run, two at a time, followed by one client.
SPECIFICATION Spec
CONSTANTS
  Writers = {x1, x2}
  Kinds = {"claim", "complete", "cancel", "fail", "waiting", "resume"}
  MaxEvents = 3
  MaxReconnects = 1
  MaxBreaks = 1
INVARIANTS TypeOK NoGaps SeenIsPrefix
PROPERTIES NoStaleOverwrite PollKnowsResult FollowerSettles
CHECK_DEADLOCK FALSE
