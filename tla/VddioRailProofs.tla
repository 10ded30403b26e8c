-------------------------- MODULE VddioRailProofs ---------------------------
(***************************************************************************)
(* Proofs about ddi_power_SetVddio for every safe range, margin, step and  *)
(* request: the registers stay within their ranges, no brownout is of the  *)
(* program's own making, and detection is on again after every call.       *)
(***************************************************************************)
EXTENDS VddioRail, TLAPS

-----------------------------------------------------------------------------
(***************************************************************************)
(* Millivolts and settings.                                                *)
(***************************************************************************)
LEMMA Quotient ==
  \A a \in Int, n \in Nat \ {0} : \E q \in Int : q = a \div n /\ n * q <= a /\ a < n * q + n
OBVIOUS

LEMMA QuotientAtMost ==
  \A a, q \in Int, n \in Nat \ {0} : a < n * q + n => a \div n <= q
OBVIOUS

LEMMA QuotientAtLeast ==
  \A a, q \in Int, n \in Nat \ {0} : n * q <= a => q <= a \div n
OBVIOUS

LEMMA Distributive == \A a, b, n \in Int : n * (a + b) = n * a + n * b
OBVIOUS

\* The setting of a larger voltage is no smaller.
LEMMA QuotientMonotone ==
  ASSUME NEW a \in Int, NEW b \in Int, NEW n \in Nat \ {0}, a <= b
  PROVE  a \div n \in Int /\ a \div n <= b \div n
<1>1. PICK q \in Int : q = a \div n /\ n * q <= a
  BY ONLY Quotient, a \in Int, n \in Nat \ {0}
<1>2. n * q \in Int
  BY ONLY n \in Nat \ {0}, q \in Int
<1>3. n * q <= b
  BY ONLY <1>1, <1>2, a \in Int, b \in Int, a <= b
<1>. QED  BY ONLY <1>1, <1>3, QuotientAtLeast, b \in Int, n \in Nat \ {0}, q \in Int

\* A voltage of t settings and m millivolts more has the setting t or as many more
\* as fit into m.
LEMMA QuotientOfSum ==
  ASSUME NEW t \in Int, NEW m \in Int, NEW n \in Nat \ {0}
  PROVE  (n * t + m) \div n <= t + m \div n
<1>1. PICK q \in Int : q = m \div n /\ m < n * q + n
  BY ONLY Quotient, m \in Int, n \in Nat \ {0}
<1>2. n * t \in Int /\ n * q \in Int
  BY ONLY n \in Nat \ {0}, q \in Int, t \in Int
<1>3. n * t + m < n * (t + q) + n
  BY ONLY <1>1, <1>2, Distributive, t \in Int, q \in Int, n \in Nat \ {0}, m \in Int
<1>4. n * t + m \in Int /\ t + q \in Int
  BY ONLY <1>2, t \in Int, q \in Int, m \in Int
<1>5. (n * t + m) \div n <= t + q
  BY ONLY <1>3, <1>4, QuotientAtMost, n \in Nat \ {0}
<1>. QED  BY ONLY <1>1, <1>5

LEMMA Constants ==
  /\ MaxSetting \in Nat /\ Widest \in Nat
  /\ VDDIO_DEFAULT \in 0 .. MaxSetting
  /\ BO_DEFAULT \in 1 .. Widest
<1>1. MaxSetting \in Int /\ 0 <= MaxSetting
  <2>1. PICK d \in Int : d = VDDIO_SAFE_MAX_MV - VDDIO_BASE_MV /\ 0 <= d
    BY RailAssumption
  <2>2. VOLTAGE_STEP_MV * 0 <= d
    BY <2>1, RailAssumption
  <2>. QED  BY <2>1, <2>2, Quotient, QuotientAtLeast, RailAssumption
            DEF MaxSetting, ConvertVddioToSetting
<1>2. Widest \in Int /\ 0 <= Widest
  <2>1. VOLTAGE_STEP_MV * 0 <= BO_MAX_OFFSET_MV
    BY RailAssumption
  <2>. QED  BY <2>1, Quotient, QuotientAtLeast, RailAssumption DEF Widest
<1>. QED  BY <1>1, <1>2, RailAssumption DEF MaxSetting, Widest, ConvertVddioToSetting

\* A voltage within the safe range has a setting that the register can hold.
LEMMA SettingInRange ==
  ASSUME NEW mV \in Int, VDDIO_BASE_MV <= mV, mV <= VDDIO_SAFE_MAX_MV
  PROVE  ConvertVddioToSetting(mV) \in 0 .. MaxSetting
<1>1. PICK d \in Int : d = mV - VDDIO_BASE_MV /\ 0 <= d
                       /\ d <= VDDIO_SAFE_MAX_MV - VDDIO_BASE_MV
  BY RailAssumption
<1>2. VOLTAGE_STEP_MV * 0 <= d
  BY <1>1, RailAssumption
<1>3. d \div VOLTAGE_STEP_MV \in Int /\ 0 <= d \div VOLTAGE_STEP_MV
  BY <1>1, <1>2, QuotientAtLeast, QuotientMonotone, RailAssumption
<1>4. d \div VOLTAGE_STEP_MV <= MaxSetting
  <2>1. VDDIO_SAFE_MAX_MV - VDDIO_BASE_MV \in Int
    BY RailAssumption
  <2>. QED  BY <1>1, <2>1, QuotientMonotone, RailAssumption
            DEF MaxSetting, ConvertVddioToSetting
<1>. QED  BY <1>1, <1>3, <1>4, Constants DEF ConvertVddioToSetting

\* A step of a raise, which goes no further than the widest offset.
NextUp(t, target) ==
  ConvertVddioToSetting(
    IF target - (VDDIO_BASE_MV + t * VOLTAGE_STEP_MV) > DDI_POWER_MAX_VOLTAGE_STEP_MV
    THEN VDDIO_BASE_MV + t * VOLTAGE_STEP_MV + DDI_POWER_MAX_VOLTAGE_STEP_MV ELSE target)

LEMMA RaiseStep ==
  ASSUME NEW t \in 0 .. MaxSetting, NEW target \in VDDIO_SAFE_MIN_MV .. VDDIO_SAFE_MAX_MV
  PROVE  NextUp(t, target) \in 0 .. MaxSetting /\ NextUp(t, target) <= t + Widest
<1>1. PICK x \in Int : x = t * VOLTAGE_STEP_MV /\ 0 <= x /\ x = VOLTAGE_STEP_MV * t
  BY Constants, RailAssumption
<1>. DEFINE mV == IF target - (VDDIO_BASE_MV + x) > DDI_POWER_MAX_VOLTAGE_STEP_MV
                  THEN VDDIO_BASE_MV + x + DDI_POWER_MAX_VOLTAGE_STEP_MV ELSE target
<1>2. /\ mV \in Int /\ VDDIO_BASE_MV <= mV /\ mV <= VDDIO_SAFE_MAX_MV
      /\ mV - VDDIO_BASE_MV <= x + BO_MAX_OFFSET_MV
  BY <1>1, RailAssumption
<1>3. NextUp(t, target) = ConvertVddioToSetting(mV)
  BY <1>1 DEF NextUp
<1>. HIDE DEF mV
<1>4. NextUp(t, target) \in 0 .. MaxSetting
  BY <1>2, <1>3, SettingInRange
<1>5. NextUp(t, target) <= (VOLTAGE_STEP_MV * t + BO_MAX_OFFSET_MV) \div VOLTAGE_STEP_MV
  <2>1. PICK a \in Int, b \in Int :
          a = mV - VDDIO_BASE_MV /\ b = VOLTAGE_STEP_MV * t + BO_MAX_OFFSET_MV /\ a <= b
    BY <1>1, <1>2, RailAssumption
  <2>. QED  BY <1>3, <2>1, QuotientMonotone, RailAssumption DEF ConvertVddioToSetting
<1>6. (VOLTAGE_STEP_MV * t + BO_MAX_OFFSET_MV) \div VOLTAGE_STEP_MV <= t + Widest
  BY QuotientOfSum, Constants, RailAssumption DEF Widest
<1>7. (VOLTAGE_STEP_MV * t + BO_MAX_OFFSET_MV) \div VOLTAGE_STEP_MV \in Int
  <2>1. PICK b \in Int : b = VOLTAGE_STEP_MV * t + BO_MAX_OFFSET_MV
    BY <1>1, RailAssumption
  <2>. QED  BY <2>1, Quotient, RailAssumption
<1>. QED  BY <1>4, <1>5, <1>6, <1>7, Constants

\* A step down, which starts at or above its target.
NextDown(t, target) ==
  ConvertVddioToSetting(
    IF (VDDIO_BASE_MV + t * VOLTAGE_STEP_MV) - target > DDI_POWER_MAX_VOLTAGE_STEP_MV
    THEN (VDDIO_BASE_MV + t * VOLTAGE_STEP_MV) - DDI_POWER_MAX_VOLTAGE_STEP_MV ELSE target)

LEMMA LowerStep ==
  ASSUME NEW t \in 0 .. MaxSetting, NEW target \in VDDIO_SAFE_MIN_MV .. VDDIO_SAFE_MAX_MV,
         target <= VDDIO_BASE_MV + t * VOLTAGE_STEP_MV
  PROVE  NextDown(t, target) \in 0 .. MaxSetting /\ NextDown(t, target) <= t
<1>1. PICK x \in Int : x = t * VOLTAGE_STEP_MV /\ 0 <= x /\ x = VOLTAGE_STEP_MV * t
  BY Constants, RailAssumption
<1>. DEFINE mV == IF (VDDIO_BASE_MV + x) - target > DDI_POWER_MAX_VOLTAGE_STEP_MV
                  THEN (VDDIO_BASE_MV + x) - DDI_POWER_MAX_VOLTAGE_STEP_MV ELSE target
<1>2. x <= VDDIO_SAFE_MAX_MV - VDDIO_BASE_MV
  <2>1. PICK d \in Int : d = VDDIO_SAFE_MAX_MV - VDDIO_BASE_MV
    BY RailAssumption
  <2>2. PICK q \in Int : q = d \div VOLTAGE_STEP_MV /\ VOLTAGE_STEP_MV * q <= d
    BY <2>1, Quotient, RailAssumption
  <2>3. t <= q
    BY <2>1, <2>2, Constants DEF MaxSetting, ConvertVddioToSetting
  <2>4. VOLTAGE_STEP_MV * t <= VOLTAGE_STEP_MV * q /\ VOLTAGE_STEP_MV * q \in Int
    BY <2>3, Constants, RailAssumption
  <2>. QED  BY <1>1, <2>1, <2>2, <2>4
<1>3. /\ mV \in Int /\ VDDIO_BASE_MV <= mV /\ mV <= VDDIO_SAFE_MAX_MV
      /\ mV - VDDIO_BASE_MV <= x
  BY <1>1, <1>2, RailAssumption
<1>4. NextDown(t, target) = ConvertVddioToSetting(mV)
  BY <1>1 DEF NextDown
<1>. HIDE DEF mV
<1>5. NextDown(t, target) \in 0 .. MaxSetting
  BY <1>3, <1>4, SettingInRange
<1>6. NextDown(t, target) <= t
  <2>1. PICK a \in Int : a = mV - VDDIO_BASE_MV /\ a <= x
    BY <1>3, RailAssumption
  <2>2. a < VOLTAGE_STEP_MV * t + VOLTAGE_STEP_MV
    BY <1>1, <2>1, RailAssumption
  <2>. QED  BY <1>4, <2>1, <2>2, QuotientAtMost, Constants, RailAssumption
            DEF ConvertVddioToSetting
<1>. QED  BY <1>5, <1>6

-----------------------------------------------------------------------------
(***************************************************************************)
(* The range of the registers.  A step down needs to know that it starts   *)
(* at or above its target.                                                 *)
(***************************************************************************)
Headed   == pc = "lower" => u16NewTarget <= hw_power_GetVddioValue
RangeInv == TypeOK /\ Headed

\* What ddi_power_LimitVddioAndBo makes of any request.
LEMMA Limits ==
  ASSUME NEW t \in Targets, NEW b \in Brownouts
  PROVE  /\ LimitTarget(t) \in VDDIO_SAFE_MIN_MV .. VDDIO_SAFE_MAX_MV
         /\ LimitTarget(t) - LimitBo(LimitTarget(t), b)
              \in BO_MIN_OFFSET_MV .. BO_MAX_OFFSET_MV
<1>1. LimitTarget(t) \in VDDIO_SAFE_MIN_MV .. VDDIO_SAFE_MAX_MV
  BY RailAssumption DEF LimitTarget
<1>2. PICK target \in Int : target = LimitTarget(t)
  BY <1>1, RailAssumption
<1>3. target - LimitBo(target, b) \in BO_MIN_OFFSET_MV .. BO_MAX_OFFSET_MV
  BY <1>2, RailAssumption DEF LimitBo, WithMargin
<1>. QED  BY <1>1, <1>2, <1>3

\* The offset the comparator is given is at least one setting.
LEMMA OffsetInRange ==
  \A mV \in BO_MIN_OFFSET_MV .. BO_MAX_OFFSET_MV : mV \div VOLTAGE_STEP_MV \in 1 .. Widest
<1>. TAKE mV \in BO_MIN_OFFSET_MV .. BO_MAX_OFFSET_MV
<1>1. mV \in Int /\ mV <= BO_MAX_OFFSET_MV /\ VOLTAGE_STEP_MV * 1 <= mV
  BY RailAssumption
<1>2. mV \div VOLTAGE_STEP_MV \in Int /\ mV \div VOLTAGE_STEP_MV <= Widest
  BY <1>1, QuotientMonotone, RailAssumption DEF Widest
<1>3. 1 <= mV \div VOLTAGE_STEP_MV
  BY <1>1, QuotientAtLeast, RailAssumption
<1>. QED  BY <1>2, <1>3, Constants

LEMMA InitInRange == Init => RangeInv
<1>. SUFFICES ASSUME Init PROVE TypeOK /\ Headed
  BY DEF RangeInv
<1>1. TRG \in 0 .. MaxSetting /\ out \in 0 .. MaxSetting /\ BO_OFFSET \in 1 .. Widest
  BY Constants DEF Init
<1>2. /\ u16NewTarget \in VDDIO_SAFE_MIN_MV .. VDDIO_SAFE_MAX_MV
      /\ u16NewBrownout \in BO_MIN_OFFSET_MV .. BO_MAX_OFFSET_MV
  BY RailAssumption DEF Init
<1>. QED  BY <1>1, <1>2 DEF Init, TypeOK, Headed

LEMMA StepInRange == RangeInv /\ [Next]_vars => RangeInv'
<1>. SUFFICES ASSUME RangeInv, [Next]_vars PROVE RangeInv'
  OBVIOUS
<1>. USE DEF RangeInv, Raising, Lowering
<1>1. CASE hw_power_SetVddioPowerSource
  BY <1>1 DEF hw_power_SetVddioPowerSource, TypeOK, Headed, hw_power_GetVddioValue,
              call, detect, DcdcSources
<1>2. CASE SetVddio
  <2>1. PICK t \in Targets, b \in Brownouts :
          /\ u16NewTarget' = LimitTarget(t)
          /\ u16NewBrownout' = LimitTarget(t) - LimitBo(LimitTarget(t), b)
          /\ pc' = IF LimitTarget(t) > hw_power_GetVddioValue THEN "widen" ELSE "lower"
    BY <1>2 DEF SetVddio
  <2>2. /\ bPoweredByLinReg' \in BOOLEAN
        /\ UNCHANGED <<TRG, BO_OFFSET, source, detect, v5, out, bPrevBoSetting, late>>
    BY <1>2 DEF SetVddio
  <2>3. TypeOK'
    BY <2>1, <2>2, Limits DEF TypeOK, source, detect
  <2>4. Headed'
    <3>1. PICK v \in Int : v = hw_power_GetVddioValue /\ v = hw_power_GetVddioValue'
      BY <2>2, Constants, RailAssumption DEF TypeOK, hw_power_GetVddioValue
    <3>2. LimitTarget(t) \in Int
      BY Limits, RailAssumption
    <3>. QED  BY <2>1, <3>1, <3>2 DEF Headed
  <2>. QED  BY <2>3, <2>4
<1>3. CASE Widen
  <2>1. Widest \in 1 .. Widest
    BY Constants DEF TypeOK
  <2>. QED  BY <1>3, <2>1 DEF Widen, TypeOK, Headed, source
<1>4. CASE Raise
  <2>1. TRG' = NextUp(TRG, u16NewTarget)
    BY <1>4 DEF Raise, Step, NextUp, hw_power_GetVddioValue
  <2>2. TRG' \in 0 .. MaxSetting
    BY <2>1, RaiseStep DEF TypeOK
  <2>. QED  BY <1>4, <2>2 DEF Raise, Step, TypeOK, Headed, source, detect, call
<1>5. CASE Lower
  <2>1. TRG' = NextDown(TRG, u16NewTarget)
    BY <1>5 DEF Lower, Step, NextDown, hw_power_GetVddioValue
  <2>2. TRG' \in 0 .. MaxSetting
    BY <1>5, <2>1, LowerStep DEF Lower, Step, TypeOK, Headed, hw_power_GetVddioValue
  <2>. QED  BY <1>5, <2>2 DEF Lower, Step, TypeOK, Headed, source, detect, call
<1>6. ASSUME WaitEnds, late' \in BOOLEAN PROVE RangeInv'
  <2>1. TypeOK'
    BY <1>6 DEF WaitEnds, TypeOK, source, detect, call
  <2>2. Headed'
    <3>1. PICK v \in Int, u \in Int :
            /\ v = hw_power_GetVddioValue /\ v = hw_power_GetVddioValue'
            /\ u = u16NewTarget /\ u = u16NewTarget'
      BY <1>6, Constants, RailAssumption DEF WaitEnds, TypeOK, hw_power_GetVddioValue, call
    <3>. QED  BY <1>6, <3>1 DEF WaitEnds, MoreToLower, Headed
  <2>. QED  BY <2>1, <2>2
<1>7. CASE WaitStable
  BY <1>6, <1>7 DEF WaitStable, TypeOK
<1>8. CASE WaitTimesOut
  BY <1>6, <1>8 DEF WaitTimesOut
<1>9. CASE Restore
  BY <1>9 DEF Restore, TypeOK, Headed, source, detect, call
<1>10. CASE SetBrownout
  BY <1>10, OffsetInRange DEF SetBrownout, TypeOK, Headed, source, detect, call
<1>11. CASE Follow
  <2>1. out' \in 0 .. MaxSetting
    BY <1>11, Constants DEF Follow, TypeOK
  <2>. QED  BY <1>11, <2>1 DEF Follow, TypeOK, Headed, hw_power_GetVddioValue,
                               source, detect, call
<1>12. CASE Supply5v
  BY <1>12 DEF Supply5v, TypeOK, Headed, hw_power_GetVddioValue, source, detect, call
<1>13. CASE Latch
  BY <1>13 DEF Latch, TypeOK, Headed, hw_power_GetVddioValue, source, call
<1>14. CASE FiqPowersDown
  BY <1>14 DEF FiqPowersDown, TypeOK, Headed, source, detect, call
<1>15. CASE FiqClears
  BY <1>15 DEF FiqClears, TypeOK, Headed, hw_power_GetVddioValue, source, call
<1>16. CASE UNCHANGED vars
  BY <1>16 DEF vars, TypeOK, Headed, hw_power_GetVddioValue, source, detect, call
<1>. QED  BY <1>1, <1>2, <1>3, <1>4, <1>5, <1>7, <1>8, <1>9, <1>10, <1>11, <1>12, <1>13,
             <1>14, <1>15, <1>16 DEF Next, Program, Hardware

LEMMA RangeInvariant == Spec => []RangeInv
BY InitInRange, StepInRange, PTL DEF Spec

\* Whatever target and brownout level are asked for, the target register of VDDIO
\* stays between the setting 0 and that of the safe maximum, and the brownout level
\* at least one setting and at most the widest offset below it.
THEOREM RegistersInRange == Spec => []TypeOK
<1>1. RangeInv => TypeOK
  BY DEF RangeInv
<1>. QED  BY <1>1, RangeInvariant, PTL

-----------------------------------------------------------------------------
(***************************************************************************)
(* No brownout of the program's own making.  The rail is either on the     *)
(* linear regulator or on the converter, in a configuration that           *)
(* hw_power_GetVddioPowerSource recognizes: each wait then ends with the   *)
(* rail at its target, or sets late.  So the output is at or above the     *)
(* target whenever a step begins, a step is no longer than the widest      *)
(* offset, and the offset is the widest until the raise is over.           *)
(***************************************************************************)
Carried == \/ DISABLE_FET /\ ~ENABLE_DCDC /\ v5 /\ LINREG_OFFSET = "NO_STEP"
           \/ ~DISABLE_FET /\ ENABLE_DCDC /\ LINREG_OFFSET = "STEP_BELOW"

Settled == late \/ /\ pc # "off"
                   /\ pc # "raising" => out >= TRG
                   /\ pc = "raising" => out >= TRG - BO_OFFSET

Wide == pc \in {"raise", "raising", "restore"} => BO_OFFSET = Widest

RailInv == RangeInv /\ Carried /\ Settled /\ Wide

LEMMA InitHolds == Init => RailInv
<1>. SUFFICES ASSUME Init PROVE Carried /\ Settled /\ Wide
  BY InitInRange DEF RailInv
<1>1. VDDIO_DEFAULT \in Int
  BY Constants
<1>. QED  BY <1>1 DEF Init, Carried, Settled, Wide

\* While a rail is carried, the wait of a step ends where the step led to.
LEMMA WaitedFor == TypeOK /\ Carried /\ Stable => out = TRG
BY DEF TypeOK, Carried, Stable, hw_power_GetVddioPowerSource, MaySayOk, CarriedByDcdc

LEMMA NotLow == TypeOK /\ Settled => late \/ ~Low
<1>. SUFFICES ASSUME TypeOK, Settled, ~late PROVE ~Low
  OBVIOUS
<1>1. TRG \in Int /\ out \in Int /\ BO_OFFSET \in Int /\ BO_OFFSET >= 1
  BY Constants DEF TypeOK
<1>. QED  BY <1>1 DEF Settled, Low, Level

LEMMA SourceCarries ==
  "LINREG_DCDC_READY" \notin Sources /\ RangeInv /\ Carried /\ [Next]_vars => Carried'
<1>. SUFFICES ASSUME "LINREG_DCDC_READY" \notin Sources, RangeInv, Carried, [Next]_vars
              PROVE  Carried'
  OBVIOUS
<1>1. CASE hw_power_SetVddioPowerSource
  <2>1. PICK s \in Sources :
          /\ s \in LinregSources => v5
          /\ LINREG_OFFSET' = IF s = "LINREG_DCDC_OFF" THEN "NO_STEP" ELSE "STEP_BELOW"
          /\ DISABLE_FET' = (s = "LINREG_DCDC_OFF")
          /\ ENABLE_DCDC' = (s \in DcdcSources)
          /\ v5' = v5
    BY <1>1 DEF hw_power_SetVddioPowerSource
  <2>2. s = "LINREG_DCDC_OFF" \/ s \in DcdcSources
    BY RailAssumption DEF LinregSources
  <2>. QED  BY <2>1, <2>2 DEF Carried, LinregSources, DcdcSources
<1>2. CASE Supply5v
  BY <1>2 DEF Supply5v, Carried, CarriedByDcdc, source
<1>3. CASE UNCHANGED <<source, v5>>
  BY <1>3 DEF Carried, source
<1>. QED  BY <1>1, <1>2, <1>3 DEF Next, Program, Hardware, vars, SetVddio, Widen, Raise,
             Lower, Step, WaitStable, WaitTimesOut, WaitEnds, Restore, SetBrownout, Follow,
             Latch, FiqPowersDown, FiqClears

LEMMA StepSettles ==
  ASSUME RailInv, [Next]_vars
  PROVE  Settled' /\ Wide'
<1>. USE DEF RailInv, RangeInv
<1>1. /\ TRG \in Int /\ out \in Int /\ BO_OFFSET \in Int /\ BO_OFFSET >= 1 /\ Widest \in Int
      /\ late \in BOOLEAN
  BY Constants DEF TypeOK
<1>2. CASE hw_power_SetVddioPowerSource
  BY <1>2 DEF hw_power_SetVddioPowerSource, Settled, Wide
<1>3. CASE SetVddio
  BY <1>3 DEF SetVddio, Settled, Wide
<1>4. CASE Widen
  BY <1>4 DEF Widen, Settled, Wide
<1>5. CASE Raise
  <2>1. TRG' = NextUp(TRG, u16NewTarget)
    BY <1>5 DEF Raise, Step, NextUp, hw_power_GetVddioValue
  <2>2. PICK t \in Int : t = TRG' /\ t <= TRG + Widest
    BY <2>1, RaiseStep, Constants DEF TypeOK
  <2>3. BO_OFFSET = Widest /\ (late \/ out >= TRG)
    BY <1>5 DEF Raise, Step, Settled, Wide
  <2>4. out >= TRG => out >= t - Widest
    <3>1. TRG \in Int /\ out \in Int /\ Widest \in Int /\ t <= TRG + Widest
      BY <1>1, <2>2
    <3>. QED  BY ONLY <3>1, t \in Int
  <2>. QED  BY <1>5, <2>2, <2>3, <2>4 DEF Raise, Step, Settled, Wide
<1>6. CASE Lower
  <2>1. TRG' = NextDown(TRG, u16NewTarget)
    BY <1>6 DEF Lower, Step, NextDown, hw_power_GetVddioValue
  <2>2. PICK t \in Int : t = TRG' /\ t <= TRG
    BY <1>6, <2>1, LowerStep, Constants
    DEF Lower, Step, TypeOK, Headed, hw_power_GetVddioValue
  <2>3. late \/ out >= t
    BY <1>1, <1>6, <2>2 DEF Lower, Step, Settled
  <2>. QED  BY <1>6, <2>2, <2>3 DEF Lower, Step, Settled, Wide
<1>7. CASE WaitStable
  <2>1. out = TRG
    BY <1>7, WaitedFor DEF WaitStable
  <2>. QED  BY <1>1, <1>7, <2>1 DEF WaitStable, WaitEnds, Settled, Wide
<1>8. CASE WaitTimesOut
  BY <1>8 DEF WaitTimesOut, WaitEnds, Settled, Wide
<1>9. CASE Restore
  BY <1>9 DEF Restore, Settled, Wide
<1>10. CASE SetBrownout
  BY <1>10 DEF SetBrownout, Settled, Wide
<1>11. CASE Follow
  <2>1. PICK o \in Int : o = out' /\ (o >= out \/ o >= TRG)
    BY <1>1, <1>11 DEF Follow
  <2>5. late' <=> (late /\ o # TRG)
    BY <1>11, <2>1 DEF Follow
  <2>2. pc # "off" /\ UNCHANGED <<TRG, BO_OFFSET, pc>>
    BY <1>11 DEF Follow, Running
  <2>3. CASE late'
    BY <2>2, <2>3 DEF Settled, Wide
  <2>4. CASE ~late'
    <3>1. late => o = TRG
      BY <2>4, <2>5
    <3>2. pc # "raising" => o >= TRG
      BY <1>1, <2>1, <3>1 DEF Settled
    <3>3. pc = "raising" => o >= TRG - BO_OFFSET
      BY <1>1, <2>1, <3>1 DEF Settled
    <3>. QED  BY <2>1, <2>2, <3>2, <3>3 DEF Settled, Wide
  <2>. QED  BY <2>3, <2>4
<1>12. CASE Supply5v
  BY <1>12 DEF Supply5v, Settled, Wide
<1>13. CASE Latch
  BY <1>13 DEF Latch, Settled, Wide
<1>14. CASE FiqPowersDown
  <2>1. late
    BY <1>14, NotLow DEF FiqPowersDown
  <2>. QED  BY <1>14, <2>1 DEF FiqPowersDown, Settled, Wide
<1>15. CASE FiqClears
  BY <1>15 DEF FiqClears, Settled, Wide
<1>16. CASE UNCHANGED vars
  BY <1>16 DEF vars, Settled, Wide
<1>. QED  BY <1>2, <1>3, <1>4, <1>5, <1>6, <1>7, <1>8, <1>9, <1>10, <1>11, <1>12, <1>13,
             <1>14, <1>15, <1>16 DEF Next, Program, Hardware

\* Moving VDDIO up or down, in any sequence of calls and changes of the source and
\* whatever 5 V does, never puts the level of an enabled detection above the output
\* and never powers the chip down, unless a wait for the converter timed out on an
\* output that lags.  The source LINREG_DCDC_READY is left out: the program does
\* not recognize a rail in it, and does not wait for it.
THEOREM NoBrownoutOfItsOwn ==
  "LINREG_DCDC_READY" \notin Sources => (Spec => []NoFalseBrownout)
<1>. SUFFICES ASSUME "LINREG_DCDC_READY" \notin Sources
              PROVE  Spec => []NoFalseBrownout
  OBVIOUS
<1>1. RailInv /\ [Next]_vars => RailInv'
  BY StepInRange, SourceCarries, StepSettles DEF RailInv
<1>2. RailInv => NoFalseBrownout
  BY NotLow DEF RailInv, RangeInv, Settled, NoFalseBrownout
<1>. QED  BY InitHolds, <1>1, <1>2, PTL DEF Spec

-----------------------------------------------------------------------------
(***************************************************************************)
(* Detection is switched off for the time of a raise only.                 *)
(***************************************************************************)
Remembered(on) ==
  CASE pc \in {"raise", "raising", "restore"} /\ bPoweredByLinReg -> bPrevBoSetting = on
    [] pc = "off" -> TRUE
    [] OTHER -> ENIRQ_VDDIO_BO = on

\* ddi_power_SetVddio turns the detection of VDDIO off while the linear regulator
\* is raised: after the call, whatever happened during it, detection is on if it was
\* on before the first call and off if it was off.
THEOREM DetectionRestored ==
  \A on \in BOOLEAN : Spec /\ ENIRQ_VDDIO_BO = on =>
    [](pc \notin {"raise", "raising", "restore", "off"} => ENIRQ_VDDIO_BO = on)
<1>. SUFFICES ASSUME NEW on \in BOOLEAN
              PROVE  Spec /\ ENIRQ_VDDIO_BO = on =>
                       [](pc \notin {"raise", "raising", "restore", "off"}
                            => ENIRQ_VDDIO_BO = on)
  OBVIOUS
<1>1. Init /\ ENIRQ_VDDIO_BO = on => Remembered(on)
  BY DEF Init, Remembered
<1>2. Remembered(on) /\ [Next]_vars => Remembered(on)'
  <2>. SUFFICES ASSUME Remembered(on), [Next]_vars PROVE Remembered(on)'
    OBVIOUS
  <2>. USE DEF Remembered
  <2>1. CASE SetVddio
    BY <2>1 DEF SetVddio, detect
  <2>2. CASE Widen
    BY <2>2 DEF Widen
  <2>3. CASE Raise \/ Lower
    BY <2>3 DEF Raise, Lower, Step, detect, call
  <2>4. CASE WaitStable \/ WaitTimesOut
    BY <2>4 DEF WaitStable, WaitTimesOut, WaitEnds, detect, call
  <2>5. CASE Restore
    BY <2>5 DEF Restore, detect, call
  <2>6. CASE SetBrownout
    BY <2>6 DEF SetBrownout, detect, call
  <2>7. CASE FiqPowersDown
    BY <2>7 DEF FiqPowersDown
  <2>8. CASE UNCHANGED <<pc, bPoweredByLinReg, bPrevBoSetting, ENIRQ_VDDIO_BO>>
    BY <2>8
  <2>. QED  BY <2>1, <2>2, <2>3, <2>4, <2>5, <2>6, <2>7, <2>8
            DEF Next, Program, Hardware, vars, call, detect, hw_power_SetVddioPowerSource,
                Follow, Supply5v, Latch, FiqClears
<1>3. Remembered(on) => (pc \notin {"raise", "raising", "restore", "off"}
                           => ENIRQ_VDDIO_BO = on)
  BY DEF Remembered
<1>. QED  BY <1>1, <1>2, <1>3, PTL DEF Spec
=============================================================================
