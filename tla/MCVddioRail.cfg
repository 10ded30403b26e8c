SPECIFICATION FairSpec
CONSTANTS
  VOLTAGE_STEP_MV = 25
  VDDIO_BASE_MV = 2800
  VDDIO_SAFE_MIN_MV = 2825
  VDDIO_SAFE_MAX_MV = 3575
  BO_MIN_OFFSET_MV = 25
  BO_MAX_OFFSET_MV = 175
  DDI_POWER_MAX_VOLTAGE_STEP_MV = 100
  VDDIO_DEFAULT = 12
  BO_DEFAULT = 4
  Sources = {"DCDC_LINREG_OFF", "DCDC_LINREG_READY", "LINREG_DCDC_OFF"}
  Targets = {2700, 3090, 3300}
  Brownouts = {3000, 3150, 3400}
INVARIANT NoFalseBrownout
PROPERTIES CallReturns
\* The chip may be off for good.
CHECK_DEADLOCK FALSE
