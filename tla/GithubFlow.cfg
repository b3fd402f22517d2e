CONSTANTS
  Purpose = {"code", "tasks"}
  MaxStarts = 2
  MaxMounts = 1
  MaxRestarts = 1
  Slots = {1}
SPECIFICATION FairSpec
INVARIANTS TypeOK OnePoll CodeIsPolled StoredAsAsked StoredOnce
PROPERTY CodeResolves
CHECK_DEADLOCK FALSE
