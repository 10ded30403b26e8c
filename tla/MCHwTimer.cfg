SPECIFICATION Spec
CONSTANTS
  WORD = 16
  MAX_GAP = 2
  Waits = {0, 1, 4, 13}
  CAP = 20
INVARIANTS
  NeverEarly
  NeverLate
  EventNotMissed
