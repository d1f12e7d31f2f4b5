SPECIFICATION Spec
CONSTANTS
  q1 = q1
  q2 = q2
  v1 = v1
  v2 = v2
  panel = panel
  console = console
  b1 = b1
  b2 = b2
INVARIANTS
  EventsOnce
  SendsWhole
  TranslatesWhole
PROPERTY AnswersArrive
CHECK_DEADLOCK FALSE
