SPECIFICATION Spec
CONSTANTS
  alice = alice  bob = bob  admin = admin
  c1 = c1  c2 = c2  t1 = t1  t2 = t2
  None = None  BadName = BadName
  Procs = {p1}
  Contexts = {c1, c2}
  ValidContexts = {c1}
  Root <- MCApart
  LegacyContexts = {}
  EventIds = {e1, e2}
  Callers = {alice}
  UserCallers = {alice}
  SystemCallers = {}
  Times = {t1}
  UpdateRequests = {}
  NameForms = {}
  HasUserStatesTable = TRUE
  Methods = {"AppendThreadEvent", "DeleteThread"}
INVARIANT ThreadNamesMatch
CHECK_DEADLOCK FALSE
