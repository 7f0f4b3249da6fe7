SPECIFICATION Spec
CONSTANTS
  alice = alice  bob = bob  admin = admin
  c1 = c1  c2 = c2  t1 = t1  t2 = t2
  None = None  BadName = BadName
  Procs = {p1, p2}
  Contexts = {c1}
  ValidContexts = {c1}
  Root <- MCApart
  LegacyContexts = {}
  EventIds = {e1, e2}
  Callers = {alice}
  UserCallers = {alice}
  SystemCallers = {}
  Times = {t1, t2}
  UpdateRequests <- MCUpdateRequests
  NameForms <- MCOwnRow
  HasUserStatesTable = TRUE
  Methods = {"AppendThreadEvent", "UpdateUserThreadState"}
SYMMETRY ProcEventSymmetry
INVARIANTS ReadWithinLatest LoopIsMerge
PROPERTY UnmaskedFieldsKept
CHECK_DEADLOCK FALSE
