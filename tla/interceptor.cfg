SPECIFICATION Spec
CONSTANTS
  c1 = c1
  Calls = {a, b}
  Contexts = {c1, c2}
  NoContext = NoContext
  Root <- MCNested
  Lost = Lost
  NoLog = NoLog
  NoEvent = NoEvent
  Unconvertible = Unconvertible
  MaxResponses = 2
SYMMETRY CallSymmetry
INVARIANTS TypeOK RecordedExactlyOnce DuplicatesOnlyAfterLostAnswers IInv
PROPERTIES RequestBeforeResponse DeferredNotDropped
CHECK_DEADLOCK FALSE
