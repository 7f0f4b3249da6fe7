SPECIFICATION RecordSpec
CONSTANTS
  c1 = c1  Nil = Nil  Failed = Failed
  None = None  BadName = BadName
  Procs = {p1, p2}
  Contexts = {c1, c2}
  ValidContexts = {c1}
  Root <- MCNested
  LegacyContexts = {c2}
  EventIds = {e1, e2}
  Callers = {alice}
  UserCallers = {alice}
  SystemCallers = {}
  Times = {t1}
  UpdateRequests = {}
  NameForms = {}
  HasUserStatesTable = FALSE
  Methods = {"AppendThreadEvent", "DeleteThread"}
  Payloads <- MCPayloads
  MaxPrompt = 4
SYMMETRY RecordSymmetry
INVARIANTS RecordedWhole TitleOfFirstEvent PromptIsPrefix RecordInv
PROPERTIES RefusedWithReason ImplementsRecordedLog
CHECK_DEADLOCK FALSE
