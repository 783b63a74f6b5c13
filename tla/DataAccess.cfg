SPECIFICATION Spec
CONSTANTS
  Callers = {c1, c2}
  Programs <- MCPrograms
  NoOne = NoOne
  Requests = {q1, q2}
  MaxRows = 2
INVARIANTS
  TypeOK
  CallsDoNotMix
  PageTotalSeen
  LoneAnswerExact
CHECK_DEADLOCK FALSE
