CONSTANTS
  MaxCommands = 2
  MaxOutput = 1
  NoAnswer = NoAnswer
SPECIFICATION FairSpec
INVARIANTS
  TypeOK
  AnswerWhole
  NoLeftovers
PROPERTY AlwaysAnswered
CHECK_DEADLOCK FALSE
