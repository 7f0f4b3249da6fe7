SPECIFICATION Spec
CONSTANTS
  alice = alice  bob = bob  admin = admin
  c1 = c1  c2 = c2  t1 = t1  t2 = t2
  None = None  BadName = BadName
  Procs = {p1, p2}
  Contexts = {c1, c2}
  ValidContexts = {c1, c2}
  Root <- MCApart
  LegacyContexts = {c1}
  EventIds = {e1, e2}
  Callers = {bob, admin}
  UserCallers = {bob}
  SystemCallers = {admin}
  Times = {t1}
  UpdateRequests <- MCFewUpdateRequests
  NameForms <- MCNameForms
  HasUserStatesTable = TRUE
  Methods = {"AppendThreadEvent", "DeleteThread", "UpdateUserThreadState"}
SYMMETRY ProcEventSymmetry
INVARIANTS TypeOK NoOrphans RowsWellFormed IInv
CHECK_DEADLOCK FALSE
