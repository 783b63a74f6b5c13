CONSTANTS
  root = root  alice = alice
  User <- MCUser
  Root = root
  MaxStarts = 3
  MaxEdits = 3
SPECIFICATION Spec
INVARIANTS
  TypeOK
  ShownWasSet
PROPERTIES
  ImplementsFirstAccount
CHECK_DEADLOCK FALSE
