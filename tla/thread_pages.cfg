SPECIFICATION ReadsSpec
CONSTANTS
  alice = alice  admin = admin  c1 = c1  c2 = c2  t1 = t1
  None = None  BadName = BadName
  Procs = {p1}
  Contexts = {c1, c2, c3}
  ValidContexts = {c1, c2, c3}
  Root <- MCApart
  LegacyContexts = {c1}
  EventIds = {e1, e2}
  Callers = {alice, admin}
  UserCallers = {alice}
  SystemCallers = {admin}
  Times = {t1}
  UpdateRequests <- MCCursorRequests
  NameForms <- MCOwnRow
  HasUserStatesTable = TRUE
  Methods = {"AppendThreadEvent", "DeleteThread", "UpdateUserThreadState"}
  Readers = {r1}
  ReadMethods = {"ListThreads", "GetThread", "GetUserThreadState"}
  PageSizes <- MCPageSizes
  MaxPageSize = 2
  CreateTimes = {1, 2, 3}
SYMMETRY PageSymmetry
INVARIANTS ReadsTypeOK  ShownCanBeOpened ReadsInv
PROPERTY UnreadIsReal
PROPERTY OwnStateIsLive
CHECK_DEADLOCK FALSE
