----------------------------- MODULE VddioRail ------------------------------
(***************************************************************************)
(* ddi_power_SetVddio (ddi_power.c): the I/O rail is moved to a new target *)
(* in steps, each followed by a wait for the rail to settle, while the     *)
(* rail's brownout comparator goes on watching it.  The brownout level is  *)
(* an offset from the target: it jumps with the target, and the output of  *)
(* the rail follows at its own pace.  A brownout that is seen meanwhile is *)
(* one the program made itself, and the fast interrupt (see PowerFiq)      *)
(* powers the chip down for it.                                            *)
(*                                                                         *)
(* Which wait is made, and whether detection is disabled for the time of a *)
(* raise, depends on hw_power_GetVddioPowerSource, which infers the source *)
(* from the registers that hw_power_SetVddioPowerSource has written.       *)
(*                                                                         *)
(* Requests are in millivolts, the registers and the output of the rail in *)
(* settings of VOLTAGE_STEP_MV above VDDIO_BASE_MV.                        *)
(***************************************************************************)
EXTENDS Integers

CONSTANTS VOLTAGE_STEP_MV,              \* 25
          VDDIO_BASE_MV,                \* 2800: the setting 0
          VDDIO_SAFE_MIN_MV, VDDIO_SAFE_MAX_MV,     \* 2825, 3575
          BO_MIN_OFFSET_MV, BO_MAX_OFFSET_MV,       \* 25, 175
          DDI_POWER_MAX_VOLTAGE_STEP_MV,            \* 100
          VDDIO_DEFAULT, BO_DEFAULT,    \* settings after a reset
          Sources,                      \* power sources that are asked for
          Targets, Brownouts            \* requests: millivolts

LinregSources == {"LINREG_DCDC_OFF", "LINREG_DCDC_READY"}
DcdcSources   == {"DCDC_LINREG_OFF", "DCDC_LINREG_READY", "DCDC_LINREG_ON"}

ASSUME RailAssumption ==
  /\ VOLTAGE_STEP_MV \in Nat \ {0} /\ VDDIO_BASE_MV \in Nat
  /\ VDDIO_SAFE_MIN_MV \in Nat /\ VDDIO_SAFE_MAX_MV \in Nat
  /\ VDDIO_BASE_MV <= VDDIO_SAFE_MIN_MV /\ VDDIO_SAFE_MIN_MV <= VDDIO_SAFE_MAX_MV
  /\ BO_MIN_OFFSET_MV >= VOLTAGE_STEP_MV /\ BO_MAX_OFFSET_MV >= BO_MIN_OFFSET_MV
  /\ BO_MIN_OFFSET_MV \in Nat /\ BO_MAX_OFFSET_MV \in Nat
  /\ DDI_POWER_MAX_VOLTAGE_STEP_MV \in Nat
  /\ DDI_POWER_MAX_VOLTAGE_STEP_MV <= BO_MAX_OFFSET_MV     \* a step within the widest offset
  /\ VDDIO_DEFAULT \in 0 .. (VDDIO_SAFE_MAX_MV - VDDIO_BASE_MV) \div VOLTAGE_STEP_MV
  /\ BO_DEFAULT \in 1 .. BO_MAX_OFFSET_MV \div VOLTAGE_STEP_MV
  /\ Sources \subseteq LinregSources \cup DcdcSources
  /\ Targets \subseteq Nat /\ Brownouts \subseteq Nat

VARIABLES
  TRG, BO_OFFSET,               \* VDDIOCTRL: target and brownout offset, settings
  DISABLE_FET, LINREG_OFFSET,   \* VDDIOCTRL: the converter's output; the regulator's step
  ENABLE_DCDC,                  \* 5VCTRL
  ENIRQ_VDDIO_BO, VDDIO_BO_IRQ, \* CTRL: detection, and its latch
  v5,                           \* 5 V is present
  out,                          \* the output of the rail, a setting
  pc,
  u16NewTarget, u16NewBrownout, \* of the present call, after the limits; an offset
  bPoweredByLinReg, bPrevBoSetting,
  late                          \* auxiliary: a wait for the converter has timed out,
                                \* and the rail has not settled since

source == <<DISABLE_FET, LINREG_OFFSET, ENABLE_DCDC>>
detect == <<ENIRQ_VDDIO_BO, VDDIO_BO_IRQ>>
call   == <<u16NewTarget, u16NewBrownout, bPoweredByLinReg, bPrevBoSetting>>
vars   == <<TRG, BO_OFFSET, source, detect, v5, out, pc, call, late>>

Running == pc # "off"

-----------------------------------------------------------------------------
\* Faulty variants of definitions below, by which it is checked that the
\* properties can fail: the offset is left as it was for the time of a raise, a raise that waits until the target is exceeded.
OffsetAsItIs     == BO_OFFSET
StillBelow       == u16NewTarget >= VDDIO_BASE_MV + TRG * VOLTAGE_STEP_MV

-----------------------------------------------------------------------------
ConvertVddioToSetting(mV) == (mV - VDDIO_BASE_MV) \div VOLTAGE_STEP_MV
hw_power_GetVddioValue    == VDDIO_BASE_MV + TRG * VOLTAGE_STEP_MV

\* The comparator is low.
Level == TRG - BO_OFFSET
Low   == out < Level

\* hw_power_GetVddioPowerSource; VDDD's offset, which it reads in two places, is
\* set together with VDDIO's.
hw_power_GetVddioPowerSource ==
  CASE v5 /\ (DISABLE_FET \/ ~ENABLE_DCDC) /\ LINREG_OFFSET = "NO_STEP"
         -> "LINREG_DCDC_OFF"
    [] (v5 => ENABLE_DCDC) /\ LINREG_OFFSET = "STEP_BELOW"
         -> "DCDC_LINREG_ON"
    [] OTHER -> "UNKNOWN"

\* hw_power_SetVddioPowerSource, as its callers use it: for all three rails, and
\* with the converter enabled accordingly (ENABLE_DCDC "must be cleared to prevent
\* DCDC and LinReg conflict").
hw_power_SetVddioPowerSource == \E s \in Sources :
  /\ pc = "idle"
  /\ s \in LinregSources => v5
  /\ LINREG_OFFSET' = IF s = "LINREG_DCDC_OFF" THEN "NO_STEP" ELSE "STEP_BELOW"
  /\ DISABLE_FET' = (s = "LINREG_DCDC_OFF")
  /\ ENABLE_DCDC' = (s \in DcdcSources)
  /\ UNCHANGED <<TRG, BO_OFFSET, detect, v5, out, pc, call, late>>

-----------------------------------------------------------------------------
\* ddi_power_LimitVddioAndBo: the target within the safe range, the brownout level
\* at least one margin below it and at most the other.
LimitTarget(t) == CASE t > VDDIO_SAFE_MAX_MV -> VDDIO_SAFE_MAX_MV
                    [] t < VDDIO_SAFE_MIN_MV -> VDDIO_SAFE_MIN_MV
                    [] OTHER -> t
WithMargin(t, b) == IF t - b < BO_MIN_OFFSET_MV THEN t - BO_MIN_OFFSET_MV ELSE b
LimitBo(t, b) == IF t - WithMargin(t, b) > BO_MAX_OFFSET_MV
                   THEN t - BO_MAX_OFFSET_MV ELSE WithMargin(t, b)

\* ddi_power_SetVddio up to the test for the direction.
SetVddio == \E t \in Targets, b \in Brownouts :
  LET target == LimitTarget(t) IN
  /\ pc = "idle"
  /\ u16NewTarget' = target
  /\ u16NewBrownout' = target - LimitBo(target, b)
  /\ bPoweredByLinReg' = (hw_power_GetVddioPowerSource \in LinregSources)
  /\ pc' = IF target > hw_power_GetVddioValue THEN "widen" ELSE "lower"
  /\ UNCHANGED <<TRG, BO_OFFSET, source, detect, v5, out, bPrevBoSetting, late>>

\* Before a raise: no detection on the linear regulator, and the widest offset.
Widest == BO_MAX_OFFSET_MV \div VOLTAGE_STEP_MV

Widen ==
  /\ pc = "widen" /\ pc' = "raise"
  /\ IF bPoweredByLinReg
       THEN bPrevBoSetting' = ENIRQ_VDDIO_BO /\ ENIRQ_VDDIO_BO' = FALSE
       ELSE UNCHANGED <<bPrevBoSetting, ENIRQ_VDDIO_BO>>
  /\ BO_OFFSET' = Widest
  /\ UNCHANGED <<TRG, source, VDDIO_BO_IRQ, v5, out, u16NewTarget, u16NewBrownout,
                 bPoweredByLinReg, late>>

\* One step: the register is written, and the wait begins.
Step(from, to, difference, toward) ==
  /\ pc = from /\ pc' = to
  /\ TRG' = ConvertVddioToSetting(IF difference > DDI_POWER_MAX_VOLTAGE_STEP_MV
                                    THEN toward ELSE u16NewTarget)
  /\ UNCHANGED <<BO_OFFSET, source, detect, v5, out, call, late>>

Raise == Step("raise", "raising", u16NewTarget - hw_power_GetVddioValue,
              hw_power_GetVddioValue + DDI_POWER_MAX_VOLTAGE_STEP_MV)
Lower == Step("lower", "lowering", hw_power_GetVddioValue - u16NewTarget,
              hw_power_GetVddioValue - DDI_POWER_MAX_VOLTAGE_STEP_MV)

\* DC_OK says that the converter's output is in regulation; of a rail that the
\* linear regulator carries it says nothing.
CarriedByDcdc == ~DISABLE_FET /\ (ENABLE_DCDC \/ ~v5)
MaySayOk      == CarriedByDcdc => out = TRG

\* ddi_power_WaitForVddioStable: for the linear regulator a time that it settles in;
\* otherwise until hw_power_CheckDcdcTransitionDone, which asks DC_OK only where a
\* rail is known to be on the converter.
Stable ==
  CASE hw_power_GetVddioPowerSource = "LINREG_DCDC_OFF" -> out = TRG
    [] hw_power_GetVddioPowerSource = "DCDC_LINREG_ON"  -> MaySayOk
    [] OTHER -> TRUE

MoreToRaise == u16NewTarget > hw_power_GetVddioValue
MoreToLower == u16NewTarget < hw_power_GetVddioValue

WaitEnds ==
  /\ \/ pc = "raising"  /\ pc' = IF MoreToRaise THEN "raise" ELSE "restore"
     \/ pc = "lowering" /\ pc' = IF MoreToLower THEN "lower" ELSE "set"
  /\ UNCHANGED <<TRG, BO_OFFSET, source, detect, v5, out, call>>

WaitStable == Stable /\ WaitEnds /\ UNCHANGED late

\* The longest wait is over; that the rail has not settled is not reported.
WaitTimesOut ==
  /\ hw_power_GetVddioPowerSource = "DCDC_LINREG_ON" /\ out # TRG
  /\ WaitEnds /\ late' = TRUE

\* After a raise: an interrupt of the meantime is cleared before detection.
Restore ==
  /\ pc = "restore" /\ pc' = "set"
  /\ IF bPoweredByLinReg
       THEN VDDIO_BO_IRQ' = FALSE /\ ENIRQ_VDDIO_BO' = bPrevBoSetting
       ELSE UNCHANGED detect
  /\ UNCHANGED <<TRG, BO_OFFSET, source, v5, out, call, late>>

\* The offset that was asked for.
SetBrownout ==
  /\ pc = "set" /\ pc' = "idle"
  /\ BO_OFFSET' = u16NewBrownout \div VOLTAGE_STEP_MV
  /\ UNCHANGED <<TRG, source, detect, v5, out, call, late>>

-----------------------------------------------------------------------------
\* The output moves towards the target.
Follow ==
  /\ Running /\ out # TRG
  /\ out' = IF out < TRG THEN out + 1 ELSE out - 1
  /\ late' = (late /\ out' # TRG)
  /\ UNCHANGED <<TRG, BO_OFFSET, source, detect, v5, pc, call>>

\* 5 V comes and goes while the converter carries the rail.
Supply5v ==
  /\ Running /\ CarriedByDcdc /\ ENABLE_DCDC
  /\ v5' = ~v5
  /\ UNCHANGED <<TRG, BO_OFFSET, source, detect, out, pc, call, late>>

\* The comparator latches the interrupt; the handler powers the chip down if the
\* rail is still low after the debounce, and clears the interrupt if not.
Latch ==
  /\ Running /\ Low /\ ~VDDIO_BO_IRQ
  /\ VDDIO_BO_IRQ' = TRUE
  /\ UNCHANGED <<TRG, BO_OFFSET, source, ENIRQ_VDDIO_BO, v5, out, pc, call, late>>

FiqPending == Running /\ VDDIO_BO_IRQ /\ ENIRQ_VDDIO_BO

FiqPowersDown ==
  /\ FiqPending /\ Low
  /\ pc' = "off"
  /\ UNCHANGED <<TRG, BO_OFFSET, source, detect, v5, out, call, late>>

FiqClears ==
  /\ FiqPending /\ ~Low
  /\ VDDIO_BO_IRQ' = FALSE
  /\ UNCHANGED <<TRG, BO_OFFSET, source, ENIRQ_VDDIO_BO, v5, out, pc, call, late>>

\* hw_init's settings before its call: the regulators one step below the
\* converter, which carries the rails (hw_init.c 213-245); ddi_power_Init enables
\* the interrupt.
Init ==
  /\ TRG = VDDIO_DEFAULT /\ BO_OFFSET = BO_DEFAULT /\ out = VDDIO_DEFAULT
  /\ DISABLE_FET = FALSE /\ LINREG_OFFSET = "STEP_BELOW" /\ ENABLE_DCDC = TRUE
  /\ ENIRQ_VDDIO_BO \in BOOLEAN /\ VDDIO_BO_IRQ = FALSE
  /\ v5 \in BOOLEAN
  /\ pc = "idle" /\ late = FALSE
  /\ u16NewTarget = VDDIO_SAFE_MIN_MV /\ u16NewBrownout = BO_MIN_OFFSET_MV
  /\ bPoweredByLinReg = FALSE /\ bPrevBoSetting = FALSE

Program  == Widen \/ Raise \/ Lower \/ WaitStable \/ WaitTimesOut \/ Restore \/ SetBrownout
Hardware == Follow \/ Supply5v \/ Latch \/ FiqPowersDown \/ FiqClears
Next     == hw_power_SetVddioPowerSource \/ SetVddio \/ Program \/ Hardware

Spec     == Init /\ [][Next]_vars
FairSpec == Spec /\ WF_vars(Program) /\ WF_vars(Follow)

-----------------------------------------------------------------------------
Raising  == {"widen", "raise", "raising", "restore"}
Lowering == {"lower", "lowering"}
MaxSetting == ConvertVddioToSetting(VDDIO_SAFE_MAX_MV)

\* The variables have their types; the brownout level is a margin of at least one
\* setting below the target, whatever the caller asks for (lines 743-767).
TypeOK ==
  /\ TRG \in 0 .. MaxSetting /\ out \in 0 .. MaxSetting
  /\ BO_OFFSET \in 1 .. Widest
  /\ {DISABLE_FET, ENABLE_DCDC, ENIRQ_VDDIO_BO, VDDIO_BO_IRQ, v5, bPoweredByLinReg,
      bPrevBoSetting, late} \subseteq BOOLEAN
  /\ LINREG_OFFSET \in {"NO_STEP", "STEP_BELOW"}
  /\ pc \in {"idle", "set", "off"} \cup Raising \cup Lowering
  /\ u16NewTarget \in VDDIO_SAFE_MIN_MV .. VDDIO_SAFE_MAX_MV
  /\ u16NewBrownout \in BO_MIN_OFFSET_MV .. BO_MAX_OFFSET_MV

\* "This arrangement is intended to prevent from false VDDIO brownout" (lines
\* 424-426): unless a wait for the converter has timed out on an output that still
\* lags, moving the target up or down, in any sequence of calls and changes among
\* Sources, never puts the level of an enabled detection above the output, and powers
\* nothing down.  Sources must not have LINREG_DCDC_READY, which
\* hw_power_GetVddioPowerSource never recognizes: with it the property is violated.
NoFalseBrownout ==
  late \/ (pc # "off" /\ (ENIRQ_VDDIO_BO => ~Low))

\* A call returns (or the chip is off), though a wait may time out, if its target is
\* one that the register can hold or lies below the present one.
CallReturns ==
  (pc \in Raising \cup Lowering \cup {"set"}
     /\ (u16NewTarget % VOLTAGE_STEP_MV = 0 \/ pc \notin Raising))
    ~> pc \in {"idle", "off"}
=============================================================================
