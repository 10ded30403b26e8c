----------------------------- MODULE PowerPrep -----------------------------
(***************************************************************************)
(* The boot program hw_init (hw_init.c: _start and the PowerPrep           *)
(* functions) on the power block it programs: it decides which supply to   *)
(* run from, brings up the 4P2 rail and the DCDC converter, and arms the   *)
(* brownout protection.                                                    *)
(*                                                                         *)
(* Beside it run the 5 V input, the battery, the power switch and the      *)
(* hardware's own reactions: a disconnect of 5 V turns off the converter's *)
(* 4P2 input and, where PWDN_5VBRNOUT allows it, the chip; an armed fast   *)
(* interrupt makes the ROM's handler turn off the chip.  Switching on      *)
(* either enable bit of the converter may look like a disconnect to the    *)
(* hardware (chip errata ENGR00115837), which is why the code masks the    *)
(* detection for that time: the window below.                              *)
(***************************************************************************)
EXTENDS Integers, FiniteSets

CONSTANTS
  VBUS_VALID_THRESH_4000,           \* 1, a value of the field VBUSVALID_TRSH
  CAP_CHARGE_4P2_CURRENT_LIMIT,     \* 3 and 48, values of CHARGE_4P2_ILIMIT
  BOOTUP_CHARGE_4P2_CURRENT_LIMIT

\* The windows set the lowest bit of CHARGE_4P2_ILIMIT (see there), so that the limit
\* for the capacitor holds only if its own lowest bit is set.
ASSUME PrepAssumption ==
  /\ VBUS_VALID_THRESH_4000 \in 0 .. 7
  /\ {CAP_CHARGE_4P2_CURRENT_LIMIT, BOOTUP_CHARGE_4P2_CURRENT_LIMIT} \subseteq 0 .. 63
  /\ CAP_CHARGE_4P2_CURRENT_LIMIT % 2 = 1

VARIABLES
  v5,              \* the 5 V input: "none", "weak" (above VDDIO only), "valid"
  lost5v,          \* it has disconnected since it was last there
  batt,            \* the battery: "dead" (below 3.0 V), "low", "ready" (3.35 V)
  psw, vddioBo,    \* PSWITCH pressed; VDDIO_BO
  on,              \* the bits of the power registers that are set
  trsh, ilimit,    \* VBUSVALID_TRSH and CHARGE_4P2_ILIMIT
  bBatteryReady, bEnableMaster5vBrownout, bEnableMasterBattBrownout,
  pc,
  win              \* the locals of the window that is open

env   == <<v5, lost5v, batt, psw, vddioBo>>
flags == <<bBatteryReady, bEnableMaster5vBrownout, bEnableMasterBattBrownout>>
vars  == <<env, on, trsh, ilimit, flags, pc, win>>

\* The two ENABLE_DCDC fields: "ENABLE_DCDC" is the converter's, in 5VCTRL;
\* "DCDC4P2" its 4P2 input's, in DCDC4P2.  The two VECTORs are the fast
\* interrupts' in the interrupt collector.
Bits == {"PWDN_5VBRNOUT", "PWDN_BATTBRNOUT", "PWD_OFF", "PWD", "5VDETECT", "VBUSVALID_IRQ",
         "PWD_CHARGE_4P2", "ENABLE_4P2", "ENABLE_LOAD", "DCDC4P2", "ENABLE_DCDC",
         "ENIRQ_DCDC4P2_BO", "4P2_VECTOR", "BRWNOUT_LVL", "ENIRQBATT_BO",
         "BATT_VECTOR", "ENIRQ_VDD5V_DROOP", "VDDD_LINREG", "VDDD_FET",
         "RAIL_PWDN"}

Start == {"setup5v", "init", "ready", "source", "5vboot", "5vboot2", "conflict",
          "battboot", "battwait"}
Valid == {"valid", "params", "regulator", "charge", "charging", "guard",
          "source4p2", "dcdc", "unload"}
Window == {"w_mask", "w_set", "w_settle", "w_clear", "w_restore"}
Last == {"battbo", "vddd", "rails", "handoff", "finish", "done", "off"}
NoWindow == [bit |-> "DCDC4P2", back |-> "charging", pwdn |-> FALSE,
             droop |-> FALSE, detect |-> FALSE, trsh |-> 0]

\* PWD_OFF as hw_power_ConfigureMasterBrownout leaves it.
ConfigureMasterBrownout(S, m5) ==
  IF m5 \/ bEnableMasterBattBrownout THEN S \ {"PWD_OFF"} ELSE S \cup {"PWD_OFF"}

-----------------------------------------------------------------------------
\* What the properties can fail by: faulty variants of definitions below.
FiqWithoutVector      == {"ENIRQ_DCDC4P2_BO"}
BrownoutLeftOn        == on
DetectionNotRestored  == {}
FullLimit             == 63
NoConverter           == {"BATT_VECTOR"}
HandoffAlways         == TRUE
LossUnseen            == vddioBo

-----------------------------------------------------------------------------
(* The program's steps.  Do goes from one place to the next, setting and   *)
(* clearing bits of the registers.                                         *)
Do(from, to, set, clear) ==
  /\ pc = from /\ pc' = to
  /\ on' = (on \cup set) \ clear
  /\ UNCHANGED <<env, flags, win>>

Just(from, to) == Do(from, to, {}, {}) /\ UNCHANGED <<trsh, ilimit>>

NormalThreshold == VBUS_VALID_THRESH_4000

PowerPrep_Setup5vDetect ==
  /\ Do("setup5v", "init", {}, {})
  /\ trsh' = NormalThreshold
  /\ UNCHANGED ilimit

hw_power_Init ==
  /\ pc = "init" /\ pc' = "ready"
  /\ bEnableMaster5vBrownout' = ("PWDN_5VBRNOUT" \in on)
  /\ bEnableMasterBattBrownout' = ("PWDN_BATTBRNOUT" \in on)
  /\ UNCHANGED <<env, on, trsh, ilimit, bBatteryReady, win>>

PowerPrep_IsBatteryReady == batt = "ready"

ReadBattery ==
  /\ pc = "ready" /\ pc' = "source"
  /\ bBatteryReady' = PowerPrep_IsBatteryReady
  /\ UNCHANGED <<env, on, trsh, ilimit, bEnableMaster5vBrownout,
                 bEnableMasterBattBrownout, win>>

IsVbusValid    == v5 = "valid"
IsVdd5vGtVddio == v5 \in {"weak", "valid"}
Is5vPresent    == IsVbusValid \/ IsVdd5vGtVddio

PowerPrep_ConfigurePowerSource ==
  Just("source", IF IsVdd5vGtVddio THEN "5vboot" ELSE "battboot")

\* A second look after a millisecond.
PowerPrep_5vBoot ==
  \/ Just("5vboot", IF IsVbusValid THEN "valid" ELSE "5vboot2")
  \/ Just("5vboot2", IF IsVbusValid THEN "valid" ELSE "conflict")

-----------------------------------------------------------------------------
\* hw_power_PowerDown: the chip goes off some time after; until then the
\* program runs on from where it was called.
PowerDown(from, to) ==
  Do(from, to, {"PWD"}, {"PWD_OFF"}) /\ UNCHANGED <<trsh, ilimit>>

ConflictLost == vddioBo \/ ~Is5vPresent
PowerPrep_Handle5vConflict ==
  \/ ConflictLost /\ PowerDown("conflict", "battbo")
  \/ ~vddioBo /\ IsVbusValid /\ Just("conflict", "valid")
  \/ ~ConflictLost /\ ~IsVbusValid /\ psw /\ Just("conflict", "battboot")

InitBattBoFiqBits == {"BATT_VECTOR"}
BattBootBits == InitBattBoFiqBits \cup {"ENABLE_DCDC"}

PowerPrep_BattBoot ==
  \/ ~bBatteryReady /\ Just("battboot", "battwait")
  \/ /\ bBatteryReady
     /\ Do("battboot", "battbo", BattBootBits, {}) /\ UNCHANGED <<trsh, ilimit>>

WaitForPswitch ==
  \/ /\ pc = "battwait" /\ psw /\ ~bBatteryReady
     /\ PowerPrep_IsBatteryReady /\ bBatteryReady' = TRUE
     /\ UNCHANGED <<env, on, trsh, ilimit, bEnableMaster5vBrownout,
                    bEnableMasterBattBrownout, pc, win>>
  \/ (~psw \/ bBatteryReady) /\ PowerDown("battwait", "battbo")

-----------------------------------------------------------------------------
PowerPrep_BootValid5v ==
  Do("valid", "params", {"5VDETECT"}, {"VBUSVALID_IRQ"}) /\ UNCHANGED <<trsh, ilimit>>

PowerPrep_Init4p2Parameters ==
  Do("params", "regulator", {}, {}) /\ ilimit' = 63 /\ UNCHANGED trsh

RegulatorBits == {"ENABLE_4P2", "ENABLE_LOAD"}
FirstLimit    == 0

\* The rail is switched on with its limit at zero, which is then raised to
\* charge the capacitor.
PowerPrep_Init4p2Regulator ==
  /\ Do("regulator", "charge", RegulatorBits, {})
  /\ ilimit' = FirstLimit /\ UNCHANGED trsh

hw_power_EnableMaster4p2 ==
  /\ pc = "charge" /\ "PWD_CHARGE_4P2" \in on
  /\ on' = on \ {"PWD_CHARGE_4P2"}
  /\ UNCHANGED <<env, trsh, ilimit, flags, pc, win>>

\* hw_power_Enable4p2DcdcInput and hw_power_EnableDcdc open with the same
\* two calls; what they find is kept to be restored.
Opened == ConfigureMasterBrownout(on \ {"PWDN_5VBRNOUT"}, FALSE)
OpenWindow(from, bit, back) ==
  /\ pc = from /\ pc' = "w_mask"
  /\ on' = Opened \ {"ENIRQ_VDD5V_DROOP"}
  /\ bEnableMaster5vBrownout' = FALSE
  /\ win' = [bit |-> bit, back |-> back, pwdn |-> "PWDN_5VBRNOUT" \in on,
             droop |-> "ENIRQ_VDD5V_DROOP" \in on, detect |-> "5VDETECT" \in on,
             trsh |-> trsh]
  /\ UNCHANGED <<env, trsh, bBatteryReady, bEnableMasterBattBrownout>>

InputBit == "DCDC4P2"

StartCharge ==
  /\ "PWD_CHARGE_4P2" \notin on
  /\ OpenWindow("charge", InputBit, "charging")
  /\ ilimit' = CAP_CHARGE_4P2_CURRENT_LIMIT

\* The capacitor is charged, or MAX_4P2_CAP_CHARGE_TIME has passed.
Charged ==
  /\ Do("charging", "guard", {}, {})
  /\ ilimit' = BOOTUP_CHARGE_4P2_CURRENT_LIMIT /\ UNCHANGED trsh

FourP2FiqBits == {"ENIRQ_DCDC4P2_BO", "4P2_VECTOR"}

PowerPrep_Enable4p2 ==
  /\ Do("guard", "source4p2",
        IF bBatteryReady THEN InitBattBoFiqBits ELSE FourP2FiqBits, {})
  /\ UNCHANGED <<trsh, ilimit>>

PowerPrep_InitDcdc4p2Source ==
  \/ "DCDC4P2" \in on /\ Just("source4p2", "dcdc")
  \/ /\ "DCDC4P2" \notin on
     /\ OpenWindow("source4p2", InputBit, "dcdc") /\ UNCHANGED ilimit

hw_power_EnableDcdc ==
  OpenWindow("dcdc", "ENABLE_DCDC", "unload") /\ UNCHANGED ilimit

Unload == Do("unload", "battbo", {}, {"ENABLE_LOAD"}) /\ UNCHANGED <<trsh, ilimit>>

-----------------------------------------------------------------------------
(* The window.  BM_POWER_MINPWR_PWD_BO is written to 5VCTRL, where its bit *)
(* is the lowest of CHARGE_4P2_ILIMIT: set while the window is open, clear *)
(* after, since MINPWR's own bit, which decides, is clear.                 *)
WithBit0(n)    == IF n % 2 = 0 THEN n + 1 ELSE n
WithoutBit0(n) == IF n % 2 = 0 THEN n ELSE n - 1

Masked == on \ {"5VDETECT"}
Mask ==
  /\ pc = "w_mask" /\ pc' = "w_set"
  /\ on' = Masked /\ trsh' = 0 /\ ilimit' = WithBit0(ilimit)
  /\ UNCHANGED <<env, flags, win>>

SetEnable == Do("w_set", "w_settle", {win.bit}, {}) /\ UNCHANGED <<trsh, ilimit>>

Restored == IF win.detect THEN {"5VDETECT"} ELSE {}
Unmask ==
  /\ Do("w_settle", "w_clear", Restored, {})
  /\ trsh' = win.trsh /\ ilimit' = WithoutBit0(ilimit)

hw_power_ClearVbusValidInterrupt ==
  Do("w_clear", "w_restore", {}, {"VBUSVALID_IRQ"}) /\ UNCHANGED <<trsh, ilimit>>

PrevBrownout == win.pwdn
RestoreBrownout ==
  LET pwdn  == IF PrevBrownout THEN {"PWDN_5VBRNOUT"} ELSE {}
      droop == IF win.droop THEN {"ENIRQ_VDD5V_DROOP"} ELSE {}
  IN  /\ pc = "w_restore" /\ pc' = win.back
      /\ on' = ConfigureMasterBrownout(on \cup pwdn \cup droop, PrevBrownout)
      /\ bEnableMaster5vBrownout' = PrevBrownout
      /\ win' = NoWindow
      /\ UNCHANGED <<env, trsh, ilimit, bBatteryReady, bEnableMasterBattBrownout>>

InWindow == Mask \/ SetEnable \/ Unmask \/ hw_power_ClearVbusValidInterrupt
            \/ RestoreBrownout

-----------------------------------------------------------------------------
BattBoBits == {"BRWNOUT_LVL", "ENIRQBATT_BO"}
PowerPrep_InitBattBo == Do("battbo", "vddd", BattBoBits, {}) /\ UNCHANGED <<trsh, ilimit>>

PowerPrep_SwitchVdddToDdcdcSource ==
  Do("vddd", "rails", {"VDDD_FET"}, {"VDDD_LINREG"}) /\ UNCHANGED <<trsh, ilimit>>

PowerPrep_EnableOutputRailProtection ==
  Do("rails", "handoff", {"RAIL_PWDN"}, {}) /\ UNCHANGED <<trsh, ilimit>>

MayHandOff == bBatteryReady
Handoff ==
  /\ Do("handoff", "finish", {}, IF MayHandOff THEN {"PWDN_5VBRNOUT"} ELSE {})
  /\ UNCHANGED <<trsh, ilimit>>

Finish == Just("finish", "done")      \* ddi_power_SetVddio and hw_mem_init

Boot5v ==
  \/ PowerPrep_BootValid5v \/ PowerPrep_Init4p2Parameters
  \/ PowerPrep_Init4p2Regulator \/ hw_power_EnableMaster4p2 \/ StartCharge
  \/ Charged \/ PowerPrep_Enable4p2 \/ PowerPrep_InitDcdc4p2Source
  \/ hw_power_EnableDcdc \/ Unload

\* hw_init.c: _start.
Program ==
  \/ PowerPrep_Setup5vDetect \/ hw_power_Init \/ ReadBattery
  \/ PowerPrep_ConfigurePowerSource \/ PowerPrep_5vBoot
  \/ PowerPrep_Handle5vConflict \/ PowerPrep_BattBoot \/ WaitForPswitch
  \/ Boot5v \/ InWindow
  \/ PowerPrep_InitBattBo \/ PowerPrep_SwitchVdddToDdcdcSource
  \/ PowerPrep_EnableOutputRailProtection \/ Handoff \/ Finish

-----------------------------------------------------------------------------
(* The hardware.                                                           *)
Running == pc # "off"

BattArmed   == {"BATT_VECTOR", "ENIRQBATT_BO", "BRWNOUT_LVL"} \subseteq on
FourP2Armed == {"4P2_VECTOR", "ENIRQ_DCDC4P2_BO"} \subseteq on

\* VBUSVALID decides what a disconnect is once 5VDETECT is set.
Connected(v, S) == IF "5VDETECT" \in S THEN v = "valid" ELSE v # "none"

Supply5v ==
  /\ Running
  /\ \E v \in {"none", "weak", "valid"} \ {v5} :
       LET cut == Connected(v5, on) /\ ~Connected(v, on)
       IN  /\ v5' = v
           /\ lost5v' = (cut \/ (lost5v /\ ~Connected(v, on)))
           /\ on' = (on \cup (IF v5 = "valid" THEN {"VBUSVALID_IRQ"} ELSE {}))
                    \ (IF cut THEN {"DCDC4P2"} ELSE {})
  /\ UNCHANGED <<batt, psw, vddioBo, trsh, ilimit, flags, pc, win>>

\* What switching on an enable bit may look like to the detection.
FalseTrip ==
  /\ pc = "w_settle" /\ "VBUSVALID_IRQ" \notin on
  /\ on' = (on \cup {"VBUSVALID_IRQ"})
           \ (IF "5VDETECT" \in on THEN {"DCDC4P2"} ELSE {})
  /\ pc' = IF {"PWDN_5VBRNOUT", "PWD_OFF"} \cap on = {"PWDN_5VBRNOUT"}
             THEN "off" ELSE pc
  /\ UNCHANGED <<env, trsh, ilimit, flags, win>>

Battery ==
  /\ Running /\ batt' \in {"dead", "low", "ready"} \ {batt}
  /\ UNCHANGED <<v5, lost5v, psw, vddioBo, on, trsh, ilimit, flags, pc, win>>

Pswitch ==
  /\ Running /\ psw' = ~psw
  /\ UNCHANGED <<v5, lost5v, batt, vddioBo, on, trsh, ilimit, flags, pc, win>>

Vddio ==
  /\ Running /\ vddioBo' = ~vddioBo
  /\ UNCHANGED <<v5, lost5v, batt, psw, on, trsh, ilimit, flags, pc, win>>

Off == /\ pc' = "off"
       /\ UNCHANGED <<env, on, trsh, ilimit, flags, win>>

PoweredDown  == Running /\ "PWD" \in on /\ Off
Brownout5v   == Running /\ lost5v /\ "PWDN_5VBRNOUT" \in on /\ "PWD_OFF" \notin on /\ Off
FourP2Fiq    == Running /\ lost5v /\ FourP2Armed /\ Off
BattFiq      == Running /\ batt = "dead" /\ BattArmed /\ Off

Hardware == Supply5v \/ FalseTrip \/ Battery \/ Pswitch \/ Vddio
            \/ PoweredDown \/ Brownout5v \/ FourP2Fiq \/ BattFiq

Init ==
  /\ v5 \in {"none", "weak", "valid"} /\ lost5v = FALSE
  /\ batt \in {"dead", "low", "ready"}
  /\ psw \in BOOLEAN /\ vddioBo \in BOOLEAN
  /\ on \in { {"PWDN_5VBRNOUT", "PWD_CHARGE_4P2", "VDDD_LINREG"} \cup b :
                b \in SUBSET {"PWDN_BATTBRNOUT"} }
  /\ trsh = 0 /\ ilimit = 0
  /\ bBatteryReady = FALSE /\ bEnableMaster5vBrownout = FALSE
  /\ bEnableMasterBattBrownout = FALSE
  /\ pc = "setup5v" /\ win = NoWindow

Next == Program \/ Hardware

Spec     == Init /\ [][Next]_vars
FairSpec == Spec /\ WF_vars(Program) /\ WF_vars(PoweredDown) /\ WF_vars(Brownout5v)

-----------------------------------------------------------------------------
\* The variables have their types.
TypeOK ==
  /\ v5 \in {"none", "weak", "valid"} /\ batt \in {"dead", "low", "ready"}
  /\ {lost5v, psw, vddioBo, bBatteryReady, bEnableMaster5vBrownout,
      bEnableMasterBattBrownout} \subseteq BOOLEAN
  /\ on \subseteq Bits /\ trsh \in 0 .. 7 /\ ilimit \in 0 .. 63
  /\ pc \in Start \cup Valid \cup Window \cup Last
  /\ win \in [bit : {"DCDC4P2", "ENABLE_DCDC"}, back : Valid, pwdn : BOOLEAN,
              droop : BOOLEAN, detect : BOOLEAN, trsh : 0 .. 7]

\* The converter never runs without a fast interrupt that is routed for the
\* supply it can fall back to: 4P2's with its interrupt enabled where the
\* battery was not ready, else the battery's (lines 474-492, 833-839).
DcdcGuarded ==
  "ENABLE_DCDC" \in on => "BATT_VECTOR" \in on \/ FourP2Armed

\* Outside the windows, and until power-down has been asked for, the hardware
\* shutdown on a loss of 5 V is given up only in exchange for the complete
\* battery protection: level, interrupt and vector (lines 230-236, 761-767).
NoBlindRide ==
  pc \notin Window \cup {"off"} /\ "PWDN_5VBRNOUT" \notin on /\ "PWD" \notin on
    => BattArmed

\* Each window puts back what it found, also when 5 V comes or goes in it:
\* threshold, detection method, shutdown on loss of 5 V and its master bit
\* (hw_power.c 1508-1528, hw_power_registers.c 256-275).
WindowRestores ==
  pc \notin Window \cup {"setup5v", "init", "off"} =>
    /\ trsh = NormalThreshold /\ bEnableMaster5vBrownout /\ "PWD_OFF" \notin on
    /\ "ENABLE_4P2" \in on => "5VDETECT" \in on
    /\ "PWDN_5VBRNOUT" \notin on => pc \in {"finish", "done"} /\ bBatteryReady

\* The 4P2 rail is unstable without a load (lines 519-521, 646-647): while its
\* regulator and the master switch are on, it has its own or the converter.
FourP2Loaded ==
  "ENABLE_4P2" \in on /\ "PWD_CHARGE_4P2" \notin on
    => {"ENABLE_LOAD", "ENABLE_DCDC"} \cap on # {}

\* The rail's capacitor is never charged with more than the current limit
\* for it, from the moment the rail is powered (lines 523-532).
LimitBeforeRail ==
  (pc \in {"charge", "charging"} \/ (pc \in Window /\ win.back = "charging"))
    /\ "PWD_CHARGE_4P2" \notin on
      => ilimit <= CAP_CHARGE_4P2_CURRENT_LIMIT

\* VDDD's linear regulator is off only when the converter can take over, or
\* the chip has been told to power down (lines 312-320, 845-860).
CoreKeepsSupply ==
  "VDDD_LINREG" \notin on => {"ENABLE_DCDC", "PWD"} \cap on # {}

\* The program runs on after power-down, but brings up no supply any more.
PowerDownIsFinal ==
  "PWD" \in on => {"ENABLE_DCDC", "ENABLE_4P2"} \cap on = {}

\* "ENABLE_DCDC should always be 0 at this point" (lines 538-544): the
\* converter is off whenever the 4P2 input or the converter is to be switched
\* on, so that neither line 569's branch nor hw_power_EnableDcdc's early
\* return, which leaves the 5 V brownout disabled, is taken.
EnableDcdcFirst ==
  pc \in {"charge", "source4p2", "dcdc"} => "ENABLE_DCDC" \notin on

\* What the boot leaves to the power driver (Init of PowerHandoff), unless it has asked
\* for power-down: the converter on the loaded rail, whose interrupt and the shutdown
\* stand guard unless the battery was ready; or on the battery, the rail untouched.
\* The converter's 4P2 input may be gone, with 5 V.
DriverBits == {"ENABLE_DCDC", "ENABLE_4P2", "ENABLE_LOAD", "DCDC4P2", "PWD_CHARGE_4P2",
               "PWDN_5VBRNOUT", "PWD_OFF", "ENIRQ_DCDC4P2_BO"}
RailGuard  == IF bBatteryReady THEN {} ELSE {"PWDN_5VBRNOUT", "ENIRQ_DCDC4P2_BO"}
LeftByBoot ==
  pc = "done" /\ "PWD" \notin on =>
    \/ /\ (on \cap DriverBits) \ {"DCDC4P2"} = {"ENABLE_DCDC", "ENABLE_4P2"} \cup RailGuard
       /\ ilimit = WithoutBit0(BOOTUP_CHARGE_4P2_CURRENT_LIMIT)
    \/ /\ on \cap DriverBits = {"ENABLE_DCDC", "PWD_CHARGE_4P2"}
       /\ ilimit = 0 /\ bBatteryReady

\* The rail comes up loaded, limited, and before the converter, and is left so.
FourP2BroughtUp == FourP2Loaded /\ LimitBeforeRail /\ EnableDcdcFirst /\ LeftByBoot

\* The converter's 4P2 input is dropped by a disconnect of 5 V, never by the
\* program's own switching (hw_power.c 1499-1504).
SourceKept ==
  [][("DCDC4P2" \in on /\ "DCDC4P2" \notin on') => ~Connected(v5', on)]_vars

\* The chip goes off only when told to, or for a supply that really failed:
\* the windows hide the brownout that the switching looks like.
OffHasCause ==
  [][(Running /\ pc' = "off") => "PWD" \in on \/ lost5v \/ batt = "dead"]_vars

\* The program's own switching harms nothing.
SwitchingHarmless == SourceKept /\ OffHasCause

\* Once 5 V is not between its two thresholds any more and PSWITCH is
\* released or the battery ready, the boot ends, started or powered down.
BootEnds ==
  <>[](v5 # "weak") /\ <>[](~psw \/ batt = "ready") => <>(pc \in {"done", "off"})

\* A loss of 5 V without a ready battery powers the chip down, also when it
\* falls into a window in which the shutdown is disabled.
LossOf5vEnds == <>[](lost5v /\ ~bBatteryReady) => <>(pc = "off")

\* The boot comes to one of its ends.
BootResolves == BootEnds /\ LossOf5vEnds

-----------------------------------------------------------------------------
\* "Start charging up the 4p2 capacitor" with CAP_CHARGE_4P2_CURRENT_LIMIT
\* (line 531): the limit that is in force while the capacitor charges.
LimitKept == pc = "charging" => ilimit = CAP_CHARGE_4P2_CURRENT_LIMIT
=============================================================================
