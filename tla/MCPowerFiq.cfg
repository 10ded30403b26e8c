SPECIFICATION FairSpec
CONSTANTS
  WORD = 4
  FIQ_DEBOUNCE_MICROSECONDS = 2
  MAX_DROOPS = 1
INVARIANTS
  HealthyKeepsPower
  DebouncedPowerDown
  DroopHandedOn
PROPERTY
  EveryBrownoutEnds
