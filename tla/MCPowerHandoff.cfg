SPECIFICATION FairSpec
CONSTANTS
  TOP = 4
  MIN_BATT_VOLT = 2
  MIN_OPEN_CIRC_VOLT = 3
  STABLE = 1
  DRIFT = 2
  WAIT = 5
  CLOCK = 8
  GAP = 1
  RISE = 3
  DROP = 1
  CAP_ROUNDS = 2
  CURRENTS <- MCCurrents
  CHARGE_CURRENT_LIMIT_4P2_CAP = 50
  CHARGE_CURRENT_STEP_SIZE_4P2_CAP = 10
  CHARGE_CURRENT_LIMIT_4P2_RAIL = 780
  CHARGE_CURRENT_STEP_SIZE_4P2_RAIL = 100
INVARIANTS VerdictRight RailKnown InputNeedsRail
PROPERTIES SoftStart CallReturns
\* The chip may be off.
CHECK_DEADLOCK FALSE
