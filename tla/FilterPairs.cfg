CONSTANTS
  Level = {"+", "#", "a", "b"}
  MaxFilter = 3
  MaxTopic = 4
SPECIFICATION PairSpec
INVARIANTS
  CoverSound
  OverlapComplete
  ExactOnTopics
  LoopsAgree
  Tight
CHECK_DEADLOCK FALSE
