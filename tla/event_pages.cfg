SPECIFICATION ReadsSpec
CONSTANTS
  alice = alice  admin = admin  c1 = c1  c2 = c2  t1 = t1
  None = None  BadName = BadName
  Procs = {p1}
  Contexts = {c1, c2}
  ValidContexts = {c1}
  Root <- MCNested
  LegacyContexts = {}
  EventIds = {e1, e2, e3, e4}
  Callers = {alice}
  UserCallers = {alice}
  SystemCallers = {}
  Times = {t1}
  UpdateRequests = {}
  NameForms = {}
  HasUserStatesTable = FALSE
  Methods = {"AppendThreadEvent", "DeleteThread"}
  Readers = {r1}
  ReadMethods = {"ListThreadEvents"}
  PageSizes <- MCPageSizes
  MaxPageSize = 2
  CreateTimes = {1, 2, 3, 4}
SYMMETRY EventSymmetry
INVARIANTS NothingMissed PagingInv
CHECK_DEADLOCK FALSE
