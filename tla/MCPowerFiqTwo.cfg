SPECIFICATION Spec
CONSTANTS
  WORD = 4
  FIQ_DEBOUNCE_MICROSECONDS = 2
  MAX_DROOPS = 1
PROPERTY
  FalseMeansHealthy
