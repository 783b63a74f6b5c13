SPECIFICATION FairSpec
CONSTANTS
  Word = {"a", "b", "x"}
  WithHash = {"#", "a#"}
  WithPlus = {"+", "a+"}
  Files <- MCFiles
  NoConfig = NoConfig
  Sockets = {s1, s2}
  Clients = {c1}
  Posts = {p1}
  NoOne = NoOne
INVARIANTS
  TypeOK
  ServedByWhole
  SubscriptionsOwned
PROPERTY NothingStuck
CHECK_DEADLOCK FALSE
