SPECIFICATION FairSpec
CONSTANTS
  VBUS_VALID_THRESH_4000 = 1
  CAP_CHARGE_4P2_CURRENT_LIMIT = 3
  BOOTUP_CHARGE_4P2_CURRENT_LIMIT = 48
INVARIANT DcdcGuarded
INVARIANT NoBlindRide
INVARIANT WindowRestores
INVARIANT FourP2BroughtUp
INVARIANT CoreKeepsSupply
PROPERTY SwitchingHarmless
PROPERTY BootResolves
\* The chip may be off for good.
CHECK_DEADLOCK FALSE
