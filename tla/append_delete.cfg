SPECIFICATION FairSpec
CONSTANTS
  alice = alice  bob = bob  admin = admin
  c1 = c1  c2 = c2  t1 = t1  t2 = t2
  None = None  BadName = BadName
  Procs = {p1, p2, p3}
  Contexts = {c1, c2}
  ValidContexts = {c1}
  Root <- MCNested
  LegacyContexts = {c2}
  EventIds = {e1, e2, e3}
  Callers = {alice, bob}
  UserCallers = {alice, bob}
  SystemCallers = {}
  Times = {t1}
  UpdateRequests = {}
  NameForms = {}
  HasUserStatesTable = FALSE
  Methods = {"AppendThreadEvent", "DeleteThread"}
INVARIANTS SequencesGapless AdminWroteFirst
PROPERTY ImplementsThreadLog
PROPERTY EveryCallEnds
CHECK_DEADLOCK FALSE
