SPECIFICATION Spec
CONSTANTS
  Ids = {i1}
  Origins = {"*"}
  OwnLists = {}
  Null = Null
INVARIANT MissingIdRefused
CHECK_DEADLOCK FALSE
