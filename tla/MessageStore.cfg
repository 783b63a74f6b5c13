CONSTANTS
  c1 = c1  c2 = c2
  Level = {"+", "#", "a", "b", "$SYS"}
  Connection = {c1, c2}
  Published <- MCPublished
  SysName = {"$SYS"}
  StoreFilter <- MCStoreFilter
  MaxPublished = 2
  MaxFaults = 2
SPECIFICATION FairSpec
INVARIANTS
  TypeOK
  StoreFaithful
PROPERTY EndsStoredOrLost
CHECK_DEADLOCK FALSE
