---------------------------- MODULE PowerHandoff ----------------------------
(***************************************************************************)
(* The power driver after the boot: ddi_power_Init with the battery test   *)
(* (BatteryTest), the start and the stop of the 4P2 rail, and the handoff  *)
(* between 5 V and battery (ddi_power_init.c, ddi_power.c,                 *)
(* ddi_power_handoff.c, hw_power.c, hw_power_init.c).  Its callers call it *)
(* in any order; 5 V comes and goes between any two steps.                 *)
(*                                                                         *)
(* It starts from what hw_init (PowerPrep) left.  The masking of the 5 V   *)
(* detection while an enable bit is switched on, steps of their own in     *)
(* PowerPrep, is one step here.                                            *)
(***************************************************************************)
EXTENDS BatteryTest

CONSTANTS
  CAP_ROUNDS,                   \* rounds until MAX_4P2_CAP_CHARGE_TIME has passed
  CURRENTS,                     \* currentPerBit
  CHARGE_CURRENT_LIMIT_4P2_CAP, CHARGE_CURRENT_STEP_SIZE_4P2_CAP,
  CHARGE_CURRENT_LIMIT_4P2_RAIL, CHARGE_CURRENT_STEP_SIZE_4P2_RAIL

\* 50, 10, 780 and 100 mA in the source.
ASSUME HandoffAssumption ==
  /\ CAP_ROUNDS \in Nat \ {0} /\ CURRENTS \in [0 .. 5 -> Nat \ {0}]
  /\ {CHARGE_CURRENT_LIMIT_4P2_CAP, CHARGE_CURRENT_STEP_SIZE_4P2_CAP,
      CHARGE_CURRENT_LIMIT_4P2_RAIL, CHARGE_CURRENT_STEP_SIZE_4P2_RAIL} \subseteq Nat \ {0}

VARIABLES
  v5,                                       \* 5 V is present
  b4p2Enabled,                              \* the logical state of the rail
  bEnableMasterCharge, bEnableMaster4p2, bMasterFlagsInitialized,
  bBatteryCheckComplete, bPowerDriverInitialized,
  bEnable4p2,                               \* the parameter of ddi_power_Init
  caller,                                   \* of ddi_power_Start4p2 or Stop4p2
  mA, rounds                                \* locals of the charging loops

masters  == <<bEnableMasterCharge, bEnableMaster4p2>>
inits    == <<bMasterFlagsInitialized, bBatteryCheckComplete, bPowerDriverInitialized,
              bEnable4p2>>
loops    == <<mA, rounds>>
testOnly == <<cell, volt, now, lag, t, Statics>>
driver   == <<b4p2Enabled, masters, inits, caller, loops>>
vars     == <<pc, on, ilimit, testOnly, v5, driver>>

\* As in PowerPrep "DCDC4P2" is the ENABLE_DCDC of the 4P2 input and "ENABLE_DCDC" the
\* converter's.
Bits == Switches \cup
  {"ENABLE_LOAD", "DCDC4P2", "ENABLE_DCDC", "DCDC_XFER", "CHRG_STS_OFF", "PWDN_5VBRNOUT",
   "PWDN_BATTBRNOUT", "PWD_OFF", "ENIRQ_VDD5V_DROOP", "ENIRQ_DCDC4P2_BO", "PWD"}

-----------------------------------------------------------------------------
\* hw_power_ConvertSettingToCurrent: the sum of what the bits of the field stand for ...
Share(setting, i, mask) == IF (setting \div mask) % 2 = 1 THEN CURRENTS[i] ELSE 0
Current == [setting \in 0 .. 63 |->
  Share(setting, 5, 32) + Share(setting, 4, 16) + Share(setting, 3, 8)
    + Share(setting, 2, 4) + Share(setting, 1, 2) + Share(setting, 0, 1)]

\* ... and hw_power_ConvertCurrentToSetting, which scans the bits from the highest one.
Scan(s, i, mask) ==
  IF s.rest >= CURRENTS[i] THEN [rest |-> s.rest - CURRENTS[i], bits |-> s.bits + mask] ELSE s
Scanned(current) ==
  LET high == Scan(Scan(Scan([rest |-> current, bits |-> 0], 5, 32), 4, 16), 3, 8)
  IN  Scan(Scan(Scan(high, 2, 4), 1, 2), 0, 1)
Setting == [current \in 0 .. CHARGE_CURRENT_LIMIT_4P2_RAIL + CHARGE_CURRENT_STEP_SIZE_4P2_RAIL |->
              Scanned(current).bits]

\* What the start takes for granted of these numbers: the settings up to 3 are within
\* the capacitor's limit, this limit and its steps are no greater than a step of the
\* ramp, and 100 mA more are not converted to more than 100 mA more.
ASSUME RampAssumption ==
  /\ CURRENTS[0] + CURRENTS[1] <= CHARGE_CURRENT_LIMIT_4P2_CAP
  /\ CHARGE_CURRENT_LIMIT_4P2_CAP <= CHARGE_CURRENT_STEP_SIZE_4P2_RAIL
  /\ CHARGE_CURRENT_STEP_SIZE_4P2_CAP <= CHARGE_CURRENT_STEP_SIZE_4P2_RAIL
  /\ CHARGE_CURRENT_LIMIT_4P2_CAP <= CHARGE_CURRENT_LIMIT_4P2_RAIL
  /\ \A current \in 0 .. CHARGE_CURRENT_LIMIT_4P2_RAIL - 1 :
       Current[Setting[current + CHARGE_CURRENT_STEP_SIZE_4P2_RAIL]]
         <= Current[Setting[current]] + CHARGE_CURRENT_STEP_SIZE_4P2_RAIL

\* hw_power_Enable5vBrownoutPowerdown, with hw_power_ConfigureMasterBrownout.
Brownout5v(S, enable) ==
  LET T == IF enable THEN S \cup {"PWDN_5VBRNOUT"} ELSE S \ {"PWDN_5VBRNOUT"}
  IN  IF enable \/ "PWDN_BATTBRNOUT" \in S THEN T \ {"PWD_OFF"} ELSE T \cup {"PWD_OFF"}
Unguarded(S) == Brownout5v(S, FALSE) \ {"ENIRQ_VDD5V_DROOP"}

\* Switching an enable bit on: 5 V's brownout is as before, and the bit that is taken
\* for MINPWR's, the lowest of the limit, is clear.
SwitchedOn(S, bit) == Brownout5v(S, "PWDN_5VBRNOUT" \in S) \cup {bit}
WithoutBit0(n) == n - (n % 2)

\* hw_power_EnableDcdc: if the converter is on already it returns at once, and the
\* brownout stays off.
EnableDcdc ==
  IF "ENABLE_DCDC" \in on
    THEN on' = Unguarded(on) /\ UNCHANGED ilimit
    ELSE on' = SwitchedOn(on, "ENABLE_DCDC") \ {"DCDC_XFER"} /\ ilimit' = WithoutBit0(ilimit)

\* hw_power_ConfigureMasterChargeAnd4p2.
MasterSwitch(S, charge, rail) ==
  IF charge \/ rail THEN S \ {"PWD_CHARGE_4P2"} ELSE S \cup {"PWD_CHARGE_4P2"}

-----------------------------------------------------------------------------
\* Faulty variants of definitions below: the rail is powered with the limit that is
\* set, the converter's input stays on, and the loop forgets the time.
LimitAsItIs             == ilimit
InputLeftOn(S)          == Unguarded(S) \ {"ENABLE_LOAD"}
NoTimeout               == TRUE
-----------------------------------------------------------------------------
Goto(from, to) == pc = from /\ pc' = to

\* ddi_power_Init.  That the driver is initialised may also be what the registers say of
\* an earlier application; neither ends the call.
MayKeep(parameter) ==
  IF bPowerDriverInitialized THEN {parameter} ELSE {parameter, b4p2Enabled}
ddi_power_Init ==
  /\ Goto("boot", IF bBatteryCheckComplete THEN "supplies" ELSE "check")
     \/ Goto("idle", IF bBatteryCheckComplete THEN "supplies" ELSE "check")
  /\ bEnable4p2' \in BOOLEAN
  /\ b4p2Enabled' \in MayKeep(bEnable4p2')
  /\ IF bMasterFlagsInitialized
       THEN UNCHANGED masters
       ELSE /\ bEnableMaster4p2' = ("ENABLE_4P2" \in on /\ "PWD_CHARGE_4P2" \notin on)
            /\ bEnableMasterCharge' = ({"PWD_BATTCHRG", "PWD_CHARGE_4P2"} \cap on = {})
  /\ bMasterFlagsInitialized' = TRUE
  /\ on' = on \ {"DCDC_XFER"}
  /\ UNCHANGED <<ilimit, testOnly, v5, bBatteryCheckComplete, bPowerDriverInitialized,
                 caller, loops>>

BatteryChecked ==
  /\ Goto("checked", "supplies")
  /\ bBatteryCheckComplete' = TRUE
  /\ UNCHANGED <<on, ilimit, testOnly, v5, b4p2Enabled, masters, bMasterFlagsInitialized,
                 bPowerDriverInitialized, bEnable4p2, caller, loops>>

IsPowerSupplyInitialized == "ENABLE_4P2" \in on

KeepSupply ==
  /\ Goto("supplies", "finish")
  /\ IsPowerSupplyInitialized
  /\ b4p2Enabled' = bEnable4p2
  /\ UNCHANGED <<on, ilimit, testOnly, v5, masters, inits, caller, loops>>

hw_power_Init4p2EnabledPowerSupply ==
  /\ Goto("supplies", "enable")
  /\ ~IsPowerSupplyInitialized /\ bEnable4p2
  /\ ilimit' = 63 /\ caller' = "init"
  /\ UNCHANGED <<on, testOnly, v5, b4p2Enabled, masters, inits, loops>>

hw_power_InitPowerSupplies ==
  /\ Goto("supplies", IF v5 THEN "finish" ELSE "battery")
  /\ ~IsPowerSupplyInitialized /\ ~bEnable4p2
  /\ on' = IF ~v5 /\ volt <= MIN_BATT_VOLT THEN on \cup {"PWD"} ELSE on
  /\ UNCHANGED <<ilimit, testOnly, v5, driver>>

InitOnBattery ==
  /\ Goto("battery", "finish")
  /\ EnableDcdc
  /\ UNCHANGED <<testOnly, v5, driver>>

\* hw_power_EnableHardwarePowerdown( false ) is compiled in.
InitFinished ==
  /\ Goto("finish", "idle")
  /\ on' = on \cup {"PWD_OFF"}
  /\ bPowerDriverInitialized' = TRUE
  /\ bEnable4p2' = FALSE
  /\ UNCHANGED <<ilimit, testOnly, v5, b4p2Enabled, masters, bMasterFlagsInitialized,
                 bBatteryCheckComplete, caller, loops>>

-----------------------------------------------------------------------------
\* ddi_power_Enable4p2, and where a start of the rail returns to.
ddi_power_Enable4p2 ==
  /\ Goto("idle", "enable") /\ caller' = "user"
  /\ UNCHANGED <<on, ilimit, testOnly, v5, b4p2Enabled, masters, inits, loops>>

Started(success) ==
  /\ caller' = "none"
  /\ pc' = IF caller = "init" /\ success THEN "finish" ELSE "idle"
  /\ b4p2Enabled' = IF caller = "handoff" THEN b4p2Enabled ELSE success

PrepareToStart4p2 ==
  /\ pc = "enable"
  /\ \/ v5 /\ pc' = "start" /\ UNCHANGED <<b4p2Enabled, caller>>
     \/ ~v5 /\ Started(TRUE)
  /\ UNCHANGED <<on, ilimit, testOnly, v5, masters, inits, loops>>

\* ddi_power_Start4p2: hw_power_PowerOn4p2Rail ...
INITIAL_LIMIT == 1
ddi_power_Start4p2 ==
  /\ pc = "start"
  /\ \/ /\ "PWD_CHARGE_4P2" \notin on       \* ERROR_HW_POWER_4P2_ALREADY_ON
        /\ Started(FALSE) /\ UNCHANGED <<on, ilimit>>
     \/ /\ "PWD_CHARGE_4P2" \in on /\ pc' = "input"
        /\ on' = on \cup {"ENABLE_4P2", "ENABLE_LOAD"}
        /\ ilimit' = INITIAL_LIMIT
        /\ UNCHANGED <<b4p2Enabled, caller>>
  /\ UNCHANGED <<testOnly, v5, masters, inits, loops>>

InputOn ==
  /\ Goto("input", "master")
  /\ on' = SwitchedOn(on, "DCDC4P2") /\ ilimit' = WithoutBit0(ilimit)
  /\ UNCHANGED <<testOnly, v5, driver>>

MasterOn ==
  /\ Goto("master", "first limit")
  /\ bEnableMaster4p2' = TRUE
  /\ on' = MasterSwitch(on, bEnableMasterCharge, TRUE)
  /\ UNCHANGED <<ilimit, testOnly, v5, b4p2Enabled, bEnableMasterCharge, inits, caller, loops>>

FirstLimit ==
  /\ Goto("first limit", "cap")
  /\ ilimit' = 2 /\ rounds' = 0
  /\ UNCHANGED <<on, testOnly, v5, b4p2Enabled, masters, inits, caller, mA>>

\* ... ddi_power_Charge4p2Cap, until the rail is up (DCDC_4P2_BO) or the time is,
\* unless 5 V goes away ...
TimeLeft == rounds < CAP_ROUNDS
CapRound ==
  /\ Goto("cap", "cap wait") /\ TimeLeft
  /\ ilimit' = IF Current[ilimit] < CHARGE_CURRENT_LIMIT_4P2_CAP
                 THEN Setting[Current[ilimit] + CHARGE_CURRENT_STEP_SIZE_4P2_CAP] ELSE ilimit
  /\ rounds' = IF rounds < CAP_ROUNDS THEN rounds + 1 ELSE rounds
  /\ UNCHANGED <<on, testOnly, v5, b4p2Enabled, masters, inits, caller, mA>>

CapWaited ==
  /\ Goto("cap wait", IF v5 THEN "cap" ELSE "stop")
  /\ UNCHANGED <<on, ilimit, testOnly, v5, driver>>

CapCharged ==
  /\ Goto("cap", "ramp")
  /\ mA' = Current[ilimit]
  /\ UNCHANGED <<on, ilimit, testOnly, v5, b4p2Enabled, masters, inits, caller, rounds>>

\* ... ddi_power_Charge4p2Rail, which does not read the limit again ...
Ramp ==
  /\ Goto("ramp", "ramp") /\ mA < CHARGE_CURRENT_LIMIT_4P2_RAIL
  /\ mA' = mA + CHARGE_CURRENT_STEP_SIZE_4P2_RAIL
  /\ ilimit' = Setting[mA']
  /\ UNCHANGED <<on, testOnly, v5, b4p2Enabled, masters, inits, caller, rounds>>

\* ... and hw_power_Enable4p2Rail.
RailOn ==
  /\ Goto("ramp", "unload") /\ mA >= CHARGE_CURRENT_LIMIT_4P2_RAIL
  /\ on' = on \ {"DCDC_XFER"}
  /\ UNCHANGED <<ilimit, testOnly, v5, driver>>

ConverterOn ==
  /\ Goto("unload", "unloaded")
  /\ EnableDcdc
  /\ UNCHANGED <<testOnly, v5, driver>>

LoadOff ==
  /\ pc = "unloaded" /\ Started(TRUE)
  /\ on' = on \ {"ENABLE_LOAD"} /\ mA' = 0 /\ rounds' = 0
  /\ UNCHANGED <<ilimit, testOnly, v5, masters, inits>>

-----------------------------------------------------------------------------
\* ddi_power_Stop4p2, of a start that fails or of ddi_power_Disable4p2.
ddi_power_Disable4p2 ==
  /\ Goto("idle", "stop") /\ caller' = "disable"
  /\ UNCHANGED <<on, ilimit, testOnly, v5, b4p2Enabled, masters, inits, loops>>

StopRail ==
  /\ Goto("stop", "stop input")
  /\ on' = on \ {"ENIRQ_DCDC4P2_BO", "ENABLE_4P2"}
  /\ UNCHANGED <<ilimit, testOnly, v5, driver>>

InputOff(S) == Unguarded(S) \ {"DCDC4P2", "ENABLE_LOAD"}
StopInput ==
  /\ Goto("stop input", "stop master")
  /\ on' = InputOff(on)
  /\ UNCHANGED <<ilimit, testOnly, v5, driver>>

StopMaster ==
  /\ pc = "stop master"
  /\ bEnableMaster4p2' = FALSE
  /\ on' = MasterSwitch(on, bEnableMasterCharge, FALSE)
  /\ Started(FALSE)
  /\ rounds' = 0
  /\ UNCHANGED <<ilimit, testOnly, v5, bEnableMasterCharge, inits, mA>>

-----------------------------------------------------------------------------
\* The handoff and the charger.
hw_power_EnableMasterCharge == \E enable \in BOOLEAN :
  /\ Goto("idle", "idle")
  /\ bEnableMasterCharge' = enable
  /\ on' = MasterSwitch(on, enable, bEnableMaster4p2)
  /\ UNCHANGED <<ilimit, testOnly, v5, b4p2Enabled, bEnableMaster4p2, inits, caller, loops>>

ddi_power_Enable5VoltsToBatteryHandoff ==
  /\ Goto("idle", "idle")
  /\ on' = IF b4p2Enabled THEN on \cup {"ENIRQ_VDD5V_DROOP"}
                          ELSE Brownout5v(on \cup {"DCDC_XFER"}, FALSE)
  /\ UNCHANGED <<ilimit, testOnly, v5, driver>>

ddi_power_EnableBatteryTo5VoltsHandoff ==
  /\ Goto("idle", "idle")
  /\ EnableDcdc
  /\ UNCHANGED <<testOnly, v5, driver>>

ddi_power_ExecuteBatteryTo5VoltsHandoff ==
  /\ \/ /\ b4p2Enabled /\ Goto("idle", "start")
        /\ caller' = "handoff" /\ UNCHANGED on
     \/ /\ ~b4p2Enabled /\ Goto("idle", "linregs")
        /\ on' = Brownout5v(on, TRUE) /\ UNCHANGED caller
  /\ UNCHANGED <<ilimit, testOnly, v5, b4p2Enabled, masters, inits, loops>>

ConverterOff ==
  /\ Goto("linregs", "idle")
  /\ on' = Unguarded(on) \ {"ENABLE_DCDC"}
  /\ UNCHANGED <<ilimit, testOnly, v5, driver>>

\* Another application: its variables are new, the registers as they are.
NextApplication ==
  /\ Goto("idle", "boot")
  /\ b4p2Enabled' = FALSE
  /\ bEnableMasterCharge' = FALSE /\ bEnableMaster4p2' = FALSE
  /\ bMasterFlagsInitialized' = FALSE /\ bBatteryCheckComplete' = FALSE
  /\ bPowerDriverInitialized' = FALSE /\ bEnable4p2' = FALSE
  /\ bBatteryConnected' = FALSE /\ bBatteryConnectionTestComplete' = FALSE
  /\ UNCHANGED <<on, ilimit, cell, volt, now, lag, t, v5, caller, loops>>

-----------------------------------------------------------------------------
\* The hardware.  A disconnect of 5 V takes the converter's 4P2 input off, and the
\* chip where no battery is there or the brownout powers it down.
Supply5v ==
  /\ pc # "off" /\ v5' = ~v5
  /\ LET down == v5 /\ (cell = "none"
                        \/ {"PWDN_5VBRNOUT", "PWD_OFF"} \cap on = {"PWDN_5VBRNOUT"})
     IN  pc' = IF down THEN "off" ELSE pc
  /\ on' = IF v5 THEN on \ {"DCDC4P2"} ELSE on
  /\ UNCHANGED <<ilimit, testOnly, driver>>

PoweredDown ==
  /\ pc # "off" /\ "PWD" \in on /\ pc' = "off"
  /\ UNCHANGED <<on, ilimit, testOnly, v5, driver>>

\* What hw_init leaves (LeftByBoot of PowerPrep): it has started from 5 V and brought
\* the rail up, with or without a good battery, or from the battery.  The converter's
\* input is off if 5 V went away since; with a good battery it need not be back.
BOOTUP_CHARGE_4P2_CURRENT_LIMIT == 48
RailBits    == {"PWD_BATTCHRG", "ENABLE_DCDC", "ENABLE_4P2"}
BatteryBits == {"PWD_BATTCHRG", "ENABLE_DCDC", "PWD_CHARGE_4P2"}
GuardBits   == {"PWDN_5VBRNOUT", "ENIRQ_DCDC4P2_BO"}

Init ==
  /\ pc = "boot" /\ TestInit
  /\ \/ /\ v5 = TRUE /\ ilimit = BOOTUP_CHARGE_4P2_CURRENT_LIMIT
        /\ \E input \in {{}, {"DCDC4P2"}}, guard \in {{}, GuardBits} :
             on = RailBits \cup input \cup guard
     \/ /\ cell = "battery" /\ v5 = FALSE
        /\ on = RailBits /\ ilimit = BOOTUP_CHARGE_4P2_CURRENT_LIMIT
     \/ /\ cell = "battery" /\ v5 \in BOOLEAN
        /\ on = BatteryBits /\ ilimit = 0
  /\ b4p2Enabled = FALSE /\ bEnableMasterCharge = FALSE /\ bEnableMaster4p2 = FALSE
  /\ bMasterFlagsInitialized = FALSE /\ bBatteryCheckComplete = FALSE
  /\ bPowerDriverInitialized = FALSE /\ bEnable4p2 = FALSE
  /\ caller = "none" /\ mA = 0 /\ rounds = 0

Callers ==
  \/ ddi_power_Enable4p2 \/ ddi_power_Disable4p2 \/ hw_power_EnableMasterCharge
  \/ ddi_power_Enable5VoltsToBatteryHandoff \/ ddi_power_EnableBatteryTo5VoltsHandoff
  \/ ddi_power_ExecuteBatteryTo5VoltsHandoff \/ ddi_power_Init \/ NextApplication
Program ==
  \/ Test /\ UNCHANGED <<v5, driver>>
  \/ BatteryChecked \/ KeepSupply \/ hw_power_Init4p2EnabledPowerSupply
  \/ hw_power_InitPowerSupplies \/ InitOnBattery \/ InitFinished
  \/ PrepareToStart4p2 \/ ddi_power_Start4p2 \/ InputOn \/ MasterOn \/ FirstLimit
  \/ CapRound \/ CapWaited \/ CapCharged \/ Ramp \/ RailOn \/ ConverterOn \/ LoadOff
  \/ StopRail \/ StopInput \/ StopMaster \/ ConverterOff
Hardware == Supply5v \/ PoweredDown
Next == Callers \/ Program \/ Hardware

Spec     == Init /\ [][Next]_vars
FairSpec == Spec /\ WF_vars(Program)

-----------------------------------------------------------------------------
Places == TestPlaces \cup
  {"boot", "idle", "check", "checked", "supplies", "battery", "finish", "enable", "start",
   "input", "master", "first limit", "cap", "cap wait", "ramp", "unload", "unloaded",
   "stop", "stop input", "stop master", "linregs", "off"}

\* The variables have their types; the range of the limit is what SoftStart is about.
TypeOK ==
  /\ TestTypeOK /\ pc \in Places /\ on \subseteq Bits
  /\ v5 \in BOOLEAN /\ b4p2Enabled \in BOOLEAN /\ bEnable4p2 \in BOOLEAN
  /\ bEnableMasterCharge \in BOOLEAN /\ bEnableMaster4p2 \in BOOLEAN
  /\ bMasterFlagsInitialized \in BOOLEAN /\ bBatteryCheckComplete \in BOOLEAN
  /\ bPowerDriverInitialized \in BOOLEAN
  /\ caller \in {"none", "init", "user", "handoff", "disable"}
  /\ mA \in Nat /\ rounds \in 0 .. CAP_ROUNDS

\* The test tells a battery from an open pin, whatever the voltage it starts from,
\* whenever the pin rises and wherever in its range the clock is (ddi_power_handoff.c
\* 352-483), also in an application that finds the result of an earlier one.
VerdictRight == pc = "checked" => bBatteryConnected = (cell = "battery")

Powered == "ENABLE_4P2" \in on /\ "PWD_CHARGE_4P2" \notin on

\* The driver knows the rail: what bEnableMaster4p2 says of it is what its regulator
\* does, but for the steps of a start or a stop.  The test that runs on the rail gives
\* it back on or off as it was (ddi_power_handoff.c 437, 493), a start that fails leaves
\* it off, and the next application finds out (hw_power_init.c 104-107).
RailKnown ==
  bMasterFlagsInitialized
    /\ pc \notin TestPlaces \cup {"input", "master", "stop input", "stop master", "off"}
  => (bEnableMaster4p2 <=> "ENABLE_4P2" \in on)

\* The rail never asks more of 5 V at once than one step of the ramp: it is powered
\* with the capacitor's limit at most, and from then on the limit is raised by 100 mA
\* at most, through every start, stop, test and handoff (ddi_power.c 1775-1786).
SoftStart ==
  [][Powered' =>
       Current[ilimit'] <= IF Powered THEN Current[ilimit] + CHARGE_CURRENT_STEP_SIZE_4P2_RAIL
                           ELSE CHARGE_CURRENT_LIMIT_4P2_CAP]_vars

\* The charger and the rail share one switch: neither a stop of the rail nor the test
\* takes the power of the charger, nor the charger that of the rail (hw_power.c
\* 1436-1462).
SwitchShared == bEnableMasterCharge \/ bEnableMaster4p2 => "PWD_CHARGE_4P2" \notin on

\* The converter's 4P2 input is on only while the rail is enabled, but for a stop's own
\* steps: no failure of a start leaves it behind (ddi_power.c 1939-1946).
InputNeedsRail == "DCDC4P2" \in on => "ENABLE_4P2" \in on \/ pc \in {"stop input", "off"}

\* Every call returns: neither the test's loops nor those that charge go on for ever.
CallReturns == pc \notin {"boot", "idle", "off"} ~> pc \in {"idle", "off"}

-----------------------------------------------------------------------------
\* "Restore the previous settings" (ddi_power_handoff.c 487): the limit too.  It is kept
\* in a bool and comes back as 0 or 1, that is 10 mA, for the rail the chip runs on.
LimitRestored ==
  [][pc = "level" => t'.limit = ilimit \/ pc' # "clock"]_vars

\* "We need to make sure the chip shuts down properly if 5V is removed in this window"
\* (ddi_power_handoff.c 231-233): where the handoff leaves the chip on 5 V alone, its
\* brownout powers down.  hw_power_EnableDcdc( false ) turns that off again.
HandoffGuarded == [][pc = "linregs" /\ pc' = "idle" => "PWDN_5VBRNOUT" \in on']_vars
=============================================================================
