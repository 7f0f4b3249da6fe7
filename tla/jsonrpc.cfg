SPECIFICATION FairSpec
CONSTANTS
  Ids = {i1, i2}
  Origins = {"*", "app"}
  OwnLists = {{"GET"}}
  Null = Null
INVARIANTS TypeOK FaultIsTold IdReturned BrowserCanRead
PROPERTY EveryRequestAnswered
CHECK_DEADLOCK FALSE
