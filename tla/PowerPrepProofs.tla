-------------------------- MODULE PowerPrepProofs ---------------------------
(***************************************************************************)
(* Proofs about PowerPrep, for every threshold of the 5 V detection and    *)
(* every pair of current limits that PrepAssumption allows: no supply is   *)
(* used unguarded, the windows put back what they found, the 4P2 rail      *)
(* comes up loaded and limited, the core keeps its supply, and the         *)
(* program's own switching neither drops a supply nor turns off the chip.  *)
(***************************************************************************)
EXTENDS PowerPrep, TLAPS

\* Where the program is, a window being a part of the step it goes back to.
Phase == IF pc \in Window THEN win.back ELSE pc
Ended == {"battbo", "vddd", "rails", "handoff", "finish", "done"}

\* The shutdown on a loss of 5 V and the detection, outside the windows ...
ResetValues ==
  pc \in {"setup5v", "init"} =>
    /\ "PWDN_5VBRNOUT" \in on /\ "PWD_OFF" \notin on
    /\ pc = "init" => trsh = NormalThreshold
Protected ==
  pc \notin Window \cup {"setup5v", "init", "off"} =>
    /\ trsh = NormalThreshold /\ bEnableMaster5vBrownout /\ "PWD_OFF" \notin on
    /\ "PWDN_5VBRNOUT" \notin on => pc \in {"finish", "done"} /\ bBatteryReady
Detecting ==
  /\ pc \in Valid \ {"valid"} => "5VDETECT" \in on
  /\ "ENABLE_4P2" \in on /\ pc \notin Window \cup {"off"} => "5VDETECT" \in on

\* ... and in them: what a window will restore is what there was before it.
Masking ==
  pc \in Window =>
    /\ win.pwdn /\ win.detect /\ win.trsh = NormalThreshold
    /\ "PWDN_5VBRNOUT" \notin on
    /\ <<win.bit, win.back>> \in {<<"DCDC4P2", "charging">>, <<"DCDC4P2", "dcdc">>,
                                  <<"ENABLE_DCDC", "unload">>}
    /\ IF pc \in {"w_set", "w_settle"} THEN "5VDETECT" \notin on
       ELSE "5VDETECT" \in on /\ trsh = NormalThreshold

DetectionInv == ResetValues /\ Protected /\ Detecting /\ Masking

\* The 4P2 rail has a load from the step on that brings it up, powered or not.
Loaded  == "ENABLE_4P2" \in on => {"ENABLE_LOAD", "ENABLE_DCDC"} \cap on # {}
Limited == Phase \in {"charge", "charging"} => ilimit <= CAP_CHARGE_4P2_CURRENT_LIMIT

\* Which supplies are on, by where the program is: none before it has chosen, the
\* converter not before the end of the boot from 5 V, and after it unless the chip is
\* about to power down.
Chosen ==
  /\ pc \in Start => {"ENABLE_DCDC", "ENABLE_4P2", "PWD"} \cap on = {}
  /\ Phase \in Valid =>
       /\ "PWD" \notin on
       /\ "ENABLE_DCDC" \in on <=> Phase = "unload" /\ pc \notin {"w_mask", "w_set"}
  /\ pc \in Ended => {"ENABLE_DCDC", "PWD"} \cap on # {}

SupplyInv == Loaded /\ Limited /\ Chosen /\ CoreKeepsSupply /\ PowerDownIsFinal

\* The fast interrupt that was chosen for the battery's state is armed before the
\* converter is switched on, and stays armed to the end.
Armed ==
  Phase \in {"source4p2", "dcdc", "unload"} =>
    IF bBatteryReady THEN "BATT_VECTOR" \in on ELSE FourP2Armed
ArmedAtEnd ==
  /\ pc \in Ended /\ "PWD" \notin on /\ bBatteryReady => "BATT_VECTOR" \in on
  /\ pc \in Ended \ {"battbo"} => {"BRWNOUT_LVL", "ENIRQBATT_BO"} \subseteq on

GuardInv == Armed /\ ArmedAtEnd /\ DcdcGuarded

\* The rail's registers, which the power driver will find: as they were at the reset,
\* or as the bring-up has set them.  A window changes the limit's lowest bit only.
RailIsOff ==
  /\ {"ENABLE_4P2", "ENABLE_LOAD", "DCDC4P2", "ENIRQ_DCDC4P2_BO"} \cap on = {}
  /\ "PWD_CHARGE_4P2" \in on
RailIsOn ==
  /\ "ENABLE_4P2" \in on /\ "PWD_CHARGE_4P2" \notin on
  /\ "ENIRQ_DCDC4P2_BO" \in on <=> ~bBatteryReady
BootLimit == WithoutBit0(BOOTUP_CHARGE_4P2_CURRENT_LIMIT)

ComingUp ==
  /\ pc \in Start \cup {"valid", "params", "regulator"} => RailIsOff
  /\ pc \in Start \cup {"valid", "params"} => ilimit = 0
  /\ Phase \in {"charge", "charging", "guard"} =>
       "ENABLE_4P2" \in on /\ "ENIRQ_DCDC4P2_BO" \notin on
  /\ Phase \in {"charging", "guard"} => "PWD_CHARGE_4P2" \notin on
BroughtUp ==
  /\ pc = "guard" \/ Phase \in {"source4p2", "dcdc", "unload"} =>
       WithoutBit0(ilimit) = BootLimit
  /\ Phase \in {"source4p2", "dcdc", "unload"} => RailIsOn
  /\ Phase \in {"unload"} /\ pc \in {"w_clear", "w_restore", "unload"} =>
       ilimit = BootLimit
Left ==
  /\ pc \in Ended /\ "PWD" \notin on =>
       \/ RailIsOn /\ "ENABLE_LOAD" \notin on /\ ilimit = BootLimit
       \/ RailIsOff /\ bBatteryReady /\ ilimit = 0
  /\ pc \in {"finish", "done"} /\ bBatteryReady => "PWDN_5VBRNOUT" \notin on

RailInv == ComingUp /\ BroughtUp /\ Left

PrepInv == TypeOK /\ DetectionInv /\ SupplyInv /\ GuardInv /\ RailInv

-----------------------------------------------------------------------------
LEMMA InitHolds == Init => PrepInv
<1> SUFFICES ASSUME Init PROVE PrepInv
  OBVIOUS
<1>1. TypeOK
  <2>1. {lost5v, psw, vddioBo, bBatteryReady, bEnableMaster5vBrownout,
         bEnableMasterBattBrownout} \subseteq BOOLEAN
    BY DEF Init
  <2>2. on \subseteq Bits
    BY DEF Init, Bits
  <2>3. win \in [bit : {"DCDC4P2", "ENABLE_DCDC"}, back : Valid, pwdn : BOOLEAN,
                 droop : BOOLEAN, detect : BOOLEAN, trsh : 0 .. 7]
    BY DEF Init, NoWindow, Valid
  <2> QED BY <2>1, <2>2, <2>3 DEF Init, TypeOK, Start
<1>2. DetectionInv
  BY DEF Init, DetectionInv, ResetValues, Protected, Detecting, Masking, Window, Valid
<1>3. SupplyInv
  BY DEF Init, SupplyInv, Loaded, Limited, Chosen, CoreKeepsSupply, PowerDownIsFinal,
         Phase, Window, Valid, Ended
<1>4. GuardInv
  BY DEF Init, GuardInv, Armed, ArmedAtEnd, DcdcGuarded, Phase, Window, Ended
<1>5. RailInv
  BY DEF Init, RailInv, ComingUp, BroughtUp, Left, RailIsOff, Phase, Window, Ended
<1> QED BY <1>1, <1>2, <1>3, <1>4, <1>5 DEF PrepInv

\* A window sets the lowest bit of the limit and clears it.
LEMMA LowestBit ==
  \A n \in 0 .. 63 : /\ WithBit0(n) \in 0 .. 63 /\ WithoutBit0(n) \in 0 .. 63
                    /\ WithoutBit0(WithBit0(n)) = WithoutBit0(n)
                    /\ WithoutBit0(WithoutBit0(n)) = WithoutBit0(n)
BY DEF WithBit0, WithoutBit0

\* A window is opened with the shutdown disabled, its master bit with it, and a record
\* of what there was.
LEMMA Opens ==
  ASSUME NEW from, NEW bit, NEW back, OpenWindow(from, bit, back)
  PROVE  /\ pc = from /\ pc' = "w_mask"
         /\ \A b \in Bits \ {"PWDN_5VBRNOUT", "PWD_OFF", "ENIRQ_VDD5V_DROOP"} :
              b \in on' <=> b \in on
         /\ "PWDN_5VBRNOUT" \notin on' /\ on' \subseteq on \cup {"PWD_OFF"}
         /\ bEnableMaster5vBrownout' = FALSE
         /\ win' = [bit |-> bit, back |-> back, pwdn |-> "PWDN_5VBRNOUT" \in on,
                    droop |-> "ENIRQ_VDD5V_DROOP" \in on, detect |-> "5VDETECT" \in on,
                    trsh |-> trsh]
         /\ UNCHANGED <<env, trsh, bBatteryReady, bEnableMasterBattBrownout>>
BY DEF OpenWindow, Opened, ConfigureMasterBrownout, Bits

LEMMA TypesKept == TypeOK /\ Next => TypeOK'
<1> SUFFICES ASSUME TypeOK, Next PROVE TypeOK'
  OBVIOUS
<1> USE DEF TypeOK, Do, Just, env, flags, Bits, Start, Valid, Window, Last
<1>1. CASE PowerPrep_Setup5vDetect \/ PowerPrep_ConfigurePowerSource \/ PowerPrep_5vBoot
           \/ PowerPrep_Handle5vConflict \/ PowerPrep_BattBoot \/ Handoff \/ Finish
  BY <1>1, PrepAssumption
     DEF PowerPrep_Setup5vDetect, NormalThreshold, PowerPrep_ConfigurePowerSource,
         PowerPrep_5vBoot, PowerPrep_Handle5vConflict, PowerDown, PowerPrep_BattBoot,
         BattBootBits, InitBattBoFiqBits, Handoff, Finish
<1>2. CASE hw_power_Init
  BY <1>2 DEF hw_power_Init
<1>3. CASE ReadBattery
  <2>1. bBatteryReady' \in BOOLEAN
    BY <1>3 DEF ReadBattery, PowerPrep_IsBatteryReady
  <2> QED BY <1>3, <2>1 DEF ReadBattery
<1>4. CASE WaitForPswitch
  BY <1>4 DEF WaitForPswitch, PowerDown
<1>5. CASE PowerPrep_BootValid5v \/ PowerPrep_Init4p2Parameters
           \/ PowerPrep_Init4p2Regulator \/ hw_power_EnableMaster4p2 \/ Charged
           \/ PowerPrep_Enable4p2 \/ Unload
  <2>1. CASE PowerPrep_BootValid5v
    BY <2>1 DEF PowerPrep_BootValid5v
  <2>2. CASE PowerPrep_Init4p2Parameters
    BY <2>2 DEF PowerPrep_Init4p2Parameters
  <2>6. CASE PowerPrep_Init4p2Regulator
    BY <2>6 DEF PowerPrep_Init4p2Regulator, RegulatorBits, FirstLimit
  <2>3. CASE hw_power_EnableMaster4p2
    BY <2>3 DEF hw_power_EnableMaster4p2
  <2>4. CASE Charged
    BY <2>4, PrepAssumption DEF Charged
  <2>5. CASE PowerPrep_Enable4p2 \/ Unload
    BY <2>5 DEF PowerPrep_Enable4p2, InitBattBoFiqBits, FourP2FiqBits, Unload
  <2> QED BY <1>5, <2>1, <2>2, <2>3, <2>4, <2>5, <2>6
<1>6. ASSUME NEW from, NEW bit \in {"DCDC4P2", "ENABLE_DCDC"}, NEW back \in Valid,
             OpenWindow(from, bit, back), ilimit' \in 0 .. 63
      PROVE  TypeOK'
  <2>1. win' \in [bit : {"DCDC4P2", "ENABLE_DCDC"}, back : Valid, pwdn : BOOLEAN,
                  droop : BOOLEAN, detect : BOOLEAN, trsh : 0 .. 7]
    <3>1. PICK p \in BOOLEAN, d \in BOOLEAN, x \in BOOLEAN :
            win' = [bit |-> bit, back |-> back, pwdn |-> p, droop |-> d, detect |-> x,
                    trsh |-> trsh]
      <4>1. /\ ("PWDN_5VBRNOUT" \in on) \in BOOLEAN /\ ("5VDETECT" \in on) \in BOOLEAN
            /\ ("ENIRQ_VDD5V_DROOP" \in on) \in BOOLEAN
        OBVIOUS
      <4> QED BY ONLY <4>1, <1>6, Opens
    <3> QED BY <1>6, <3>1
  <2> QED BY <1>6, <2>1, Opens
<1>7. CASE StartCharge
  BY <1>6, <1>7, PrepAssumption DEF StartCharge, InputBit
<1>8. CASE PowerPrep_InitDcdc4p2Source
  BY <1>6, <1>8 DEF PowerPrep_InitDcdc4p2Source, InputBit
<1>9. CASE hw_power_EnableDcdc
  BY <1>6, <1>9 DEF hw_power_EnableDcdc
<1>10. CASE InWindow
  <2>1. CASE Mask
    BY <2>1 DEF Mask, Masked, WithBit0
  <2>2. CASE SetEnable \/ hw_power_ClearVbusValidInterrupt
    BY <2>2 DEF SetEnable, hw_power_ClearVbusValidInterrupt
  <2>3. CASE Unmask
    BY <2>3 DEF Unmask, Restored, WithoutBit0
  <2>4. CASE RestoreBrownout
    BY <2>4 DEF RestoreBrownout, PrevBrownout, ConfigureMasterBrownout, NoWindow
  <2> QED BY <1>10, <2>1, <2>2, <2>3, <2>4 DEF InWindow
<1>11. CASE PowerPrep_InitBattBo \/ PowerPrep_SwitchVdddToDdcdcSource
            \/ PowerPrep_EnableOutputRailProtection
  BY <1>11 DEF PowerPrep_InitBattBo, BattBoBits, PowerPrep_SwitchVdddToDdcdcSource,
               PowerPrep_EnableOutputRailProtection
<1>12. CASE Supply5v \/ FalseTrip
  <2>1. CASE Supply5v
    BY <2>1 DEF Supply5v
  <2>2. CASE FalseTrip
    BY <2>2 DEF FalseTrip
  <2> QED BY <1>12, <2>1, <2>2
<1>13. CASE Battery \/ Pswitch \/ Vddio
  <2>1. {psw', vddioBo'} \subseteq BOOLEAN
    BY <1>13 DEF Battery, Pswitch, Vddio
  <2>2. batt' \in {"dead", "low", "ready"}
    BY <1>13 DEF Battery, Pswitch, Vddio
  <2>3. UNCHANGED <<v5, lost5v, on, trsh, ilimit, flags, pc, win>>
    BY <1>13 DEF Battery, Pswitch, Vddio
  <2> QED BY <2>1, <2>2, <2>3
<1>14. CASE PoweredDown \/ Brownout5v \/ FourP2Fiq \/ BattFiq
  BY <1>14 DEF PoweredDown, Brownout5v, FourP2Fiq, BattFiq, Off
<1> QED
  BY <1>1, <1>2, <1>3, <1>4, <1>5, <1>7, <1>8, <1>9, <1>10, <1>11, <1>12, <1>13, <1>14
     DEF Next, Program, Boot5v, Hardware

\* The shutdown and the detection of 5 V.
LEMMA DetectionKept == TypeOK /\ DetectionInv /\ SupplyInv /\ Next => DetectionInv'
<1> SUFFICES ASSUME TypeOK, DetectionInv, SupplyInv, Next PROVE DetectionInv'
  OBVIOUS
<1> USE DEF TypeOK, DetectionInv, ResetValues, Protected, Detecting, Masking,
            SupplyInv, Chosen, NormalThreshold,
            Do, env, flags, Start, Valid, Window, Last, Bits, NoWindow, Phase, Ended
<1>1. CASE PowerPrep_Setup5vDetect \/ hw_power_Init \/ ReadBattery
  BY <1>1 DEF PowerPrep_Setup5vDetect, hw_power_Init, ReadBattery
<1>2. CASE PowerPrep_ConfigurePowerSource \/ PowerPrep_5vBoot \/ PowerPrep_Handle5vConflict
  BY <1>2 DEF Just, PowerDown, PowerPrep_ConfigurePowerSource, PowerPrep_5vBoot,
         PowerPrep_Handle5vConflict
<1>3. CASE PowerPrep_BattBoot \/ WaitForPswitch
  BY <1>3 DEF Just, PowerPrep_BattBoot, BattBootBits, InitBattBoFiqBits,
         WaitForPswitch, PowerDown
<1>4. CASE PowerPrep_BootValid5v \/ PowerPrep_Init4p2Parameters
           \/ PowerPrep_Init4p2Regulator \/ hw_power_EnableMaster4p2
  BY <1>4 DEF PowerPrep_BootValid5v, PowerPrep_Init4p2Parameters,
         PowerPrep_Init4p2Regulator, RegulatorBits, FirstLimit, hw_power_EnableMaster4p2
<1>5. CASE Charged \/ PowerPrep_Enable4p2 \/ Unload
  BY <1>5 DEF Charged, PowerPrep_Enable4p2, InitBattBoFiqBits, FourP2FiqBits,
         Unload
<1>6. CASE StartCharge
  BY <1>6 DEF StartCharge, InputBit, OpenWindow, Opened, ConfigureMasterBrownout
<1>7. CASE PowerPrep_InitDcdc4p2Source \/ hw_power_EnableDcdc
  BY <1>7 DEF Just, PowerPrep_InitDcdc4p2Source, hw_power_EnableDcdc, InputBit,
         OpenWindow, Opened, ConfigureMasterBrownout
<1>8. CASE Mask \/ SetEnable
  BY <1>8 DEF Mask, Masked, WithBit0, SetEnable
<1>9. CASE Unmask \/ hw_power_ClearVbusValidInterrupt
  BY <1>9 DEF Unmask, Restored, WithoutBit0, hw_power_ClearVbusValidInterrupt
<1>10. CASE RestoreBrownout
  BY <1>10 DEF RestoreBrownout, PrevBrownout, ConfigureMasterBrownout
<1>11. CASE PowerPrep_InitBattBo \/ PowerPrep_SwitchVdddToDdcdcSource
            \/ PowerPrep_EnableOutputRailProtection
  BY <1>11 DEF PowerPrep_InitBattBo, BattBoBits,
         PowerPrep_SwitchVdddToDdcdcSource, PowerPrep_EnableOutputRailProtection
<1>12. CASE Handoff \/ Finish
  BY <1>12 DEF Handoff, MayHandOff, Finish, Just
<1>13. CASE Supply5v \/ FalseTrip
  BY <1>13 DEF Supply5v, FalseTrip
<1>14. CASE Battery \/ Pswitch \/ Vddio
  BY <1>14 DEF Battery, Pswitch, Vddio
<1>15. CASE PoweredDown \/ Brownout5v \/ FourP2Fiq \/ BattFiq
  BY <1>15 DEF PoweredDown, Brownout5v, FourP2Fiq, BattFiq, Off
<1> QED
  BY <1>1, <1>2, <1>3, <1>4, <1>5, <1>6, <1>7, <1>8, <1>9, <1>10, <1>11, <1>12, <1>13, <1>14, <1>15
     DEF Next, Program, Boot5v, InWindow, Hardware

\* The supplies and the limit of the rail.
LEMMA SuppliesKept == TypeOK /\ DetectionInv /\ SupplyInv /\ Next => SupplyInv'
<1> SUFFICES ASSUME TypeOK, DetectionInv, SupplyInv, Next PROVE SupplyInv'
  OBVIOUS
<1> USE PrepAssumption DEF TypeOK, DetectionInv, Masking, SupplyInv, Loaded, Limited, Chosen,
            CoreKeepsSupply, PowerDownIsFinal,
            Do, env, flags, Start, Valid, Window, Last, Bits, NoWindow, Phase, Ended
<1>1. CASE PowerPrep_Setup5vDetect \/ hw_power_Init \/ ReadBattery
  BY <1>1 DEF PowerPrep_Setup5vDetect, hw_power_Init, ReadBattery
<1>2. CASE PowerPrep_ConfigurePowerSource \/ PowerPrep_5vBoot \/ PowerPrep_Handle5vConflict
  BY <1>2 DEF Just, PowerDown, PowerPrep_ConfigurePowerSource, PowerPrep_5vBoot,
         PowerPrep_Handle5vConflict
<1>3. CASE PowerPrep_BattBoot \/ WaitForPswitch
  BY <1>3 DEF Just, PowerPrep_BattBoot, BattBootBits, InitBattBoFiqBits,
         WaitForPswitch, PowerDown
<1>4. CASE PowerPrep_BootValid5v \/ PowerPrep_Init4p2Parameters
           \/ PowerPrep_Init4p2Regulator \/ hw_power_EnableMaster4p2
  BY <1>4 DEF PowerPrep_BootValid5v, PowerPrep_Init4p2Parameters,
         PowerPrep_Init4p2Regulator, RegulatorBits, FirstLimit, hw_power_EnableMaster4p2
<1>5. CASE Charged \/ PowerPrep_Enable4p2 \/ Unload
  BY <1>5 DEF Charged, PowerPrep_Enable4p2, InitBattBoFiqBits, FourP2FiqBits,
         Unload
<1>6. CASE StartCharge
  BY <1>6 DEF StartCharge, InputBit, OpenWindow, Opened, ConfigureMasterBrownout
<1>7. CASE PowerPrep_InitDcdc4p2Source \/ hw_power_EnableDcdc
  BY <1>7 DEF Just, PowerPrep_InitDcdc4p2Source, hw_power_EnableDcdc, InputBit,
         OpenWindow, Opened, ConfigureMasterBrownout
<1>8. CASE Mask \/ SetEnable
  BY <1>8 DEF Mask, Masked, WithBit0, SetEnable
<1>9. CASE Unmask \/ hw_power_ClearVbusValidInterrupt
  BY <1>9 DEF Unmask, Restored, WithoutBit0, hw_power_ClearVbusValidInterrupt
<1>10. CASE RestoreBrownout
  BY <1>10 DEF RestoreBrownout, PrevBrownout, ConfigureMasterBrownout
<1>11. CASE PowerPrep_InitBattBo \/ PowerPrep_SwitchVdddToDdcdcSource
            \/ PowerPrep_EnableOutputRailProtection
  BY <1>11 DEF PowerPrep_InitBattBo, BattBoBits,
         PowerPrep_SwitchVdddToDdcdcSource, PowerPrep_EnableOutputRailProtection
<1>12. CASE Handoff \/ Finish
  BY <1>12 DEF Handoff, MayHandOff, Finish, Just
<1>13. CASE Supply5v \/ FalseTrip
  BY <1>13 DEF Supply5v, FalseTrip
<1>14. CASE Battery \/ Pswitch \/ Vddio
  BY <1>14 DEF Battery, Pswitch, Vddio
<1>15. CASE PoweredDown \/ Brownout5v \/ FourP2Fiq \/ BattFiq
  BY <1>15 DEF PoweredDown, Brownout5v, FourP2Fiq, BattFiq, Off
<1> QED
  BY <1>1, <1>2, <1>3, <1>4, <1>5, <1>6, <1>7, <1>8, <1>9, <1>10, <1>11, <1>12, <1>13, <1>14, <1>15
     DEF Next, Program, Boot5v, InWindow, Hardware

\* The fast interrupts.
LEMMA GuardsKept == TypeOK /\ DetectionInv /\ SupplyInv /\ GuardInv /\ Next => GuardInv'
<1> SUFFICES ASSUME TypeOK, DetectionInv, SupplyInv, GuardInv, Next PROVE GuardInv'
  OBVIOUS
<1> USE DEF TypeOK, DetectionInv, Masking, SupplyInv, Chosen, GuardInv, Armed,
            ArmedAtEnd, DcdcGuarded, FourP2Armed,
            Do, env, flags, Start, Valid, Window, Last, Bits, NoWindow, Phase, Ended
<1>1. CASE PowerPrep_Setup5vDetect \/ hw_power_Init \/ ReadBattery
  BY <1>1 DEF PowerPrep_Setup5vDetect, hw_power_Init, ReadBattery
<1>2. CASE PowerPrep_ConfigurePowerSource \/ PowerPrep_5vBoot \/ PowerPrep_Handle5vConflict
  BY <1>2 DEF Just, PowerDown, PowerPrep_ConfigurePowerSource, PowerPrep_5vBoot,
         PowerPrep_Handle5vConflict
<1>3. CASE PowerPrep_BattBoot \/ WaitForPswitch
  BY <1>3 DEF Just, PowerPrep_BattBoot, BattBootBits, InitBattBoFiqBits,
         WaitForPswitch, PowerDown
<1>4. CASE PowerPrep_BootValid5v \/ PowerPrep_Init4p2Parameters
           \/ PowerPrep_Init4p2Regulator \/ hw_power_EnableMaster4p2
  BY <1>4 DEF PowerPrep_BootValid5v, PowerPrep_Init4p2Parameters,
         PowerPrep_Init4p2Regulator, RegulatorBits, FirstLimit, hw_power_EnableMaster4p2
<1>5. CASE Charged \/ PowerPrep_Enable4p2 \/ Unload
  BY <1>5 DEF Charged, PowerPrep_Enable4p2, InitBattBoFiqBits, FourP2FiqBits,
         Unload
<1>6. CASE StartCharge
  BY <1>6 DEF StartCharge, InputBit, OpenWindow, Opened, ConfigureMasterBrownout
<1>7. CASE PowerPrep_InitDcdc4p2Source \/ hw_power_EnableDcdc
  BY <1>7 DEF Just, PowerPrep_InitDcdc4p2Source, hw_power_EnableDcdc, InputBit,
         OpenWindow, Opened, ConfigureMasterBrownout
<1>8. CASE Mask \/ SetEnable
  BY <1>8 DEF Mask, Masked, WithBit0, SetEnable
<1>9. CASE Unmask \/ hw_power_ClearVbusValidInterrupt
  BY <1>9 DEF Unmask, Restored, WithoutBit0, hw_power_ClearVbusValidInterrupt
<1>10. CASE RestoreBrownout
  BY <1>10 DEF RestoreBrownout, PrevBrownout, ConfigureMasterBrownout
<1>11. CASE PowerPrep_InitBattBo \/ PowerPrep_SwitchVdddToDdcdcSource
            \/ PowerPrep_EnableOutputRailProtection
  BY <1>11 DEF PowerPrep_InitBattBo, BattBoBits,
         PowerPrep_SwitchVdddToDdcdcSource, PowerPrep_EnableOutputRailProtection
<1>12. CASE Handoff \/ Finish
  BY <1>12 DEF Handoff, MayHandOff, Finish, Just
<1>13. CASE Supply5v \/ FalseTrip
  BY <1>13 DEF Supply5v, FalseTrip
<1>14. CASE Battery \/ Pswitch \/ Vddio
  BY <1>14 DEF Battery, Pswitch, Vddio
<1>15. CASE PoweredDown \/ Brownout5v \/ FourP2Fiq \/ BattFiq
  BY <1>15 DEF PoweredDown, Brownout5v, FourP2Fiq, BattFiq, Off
<1> QED
  BY <1>1, <1>2, <1>3, <1>4, <1>5, <1>6, <1>7, <1>8, <1>9, <1>10, <1>11, <1>12, <1>13, <1>14, <1>15
     DEF Next, Program, Boot5v, InWindow, Hardware

\* The registers of the rail.
LEMMA RailKept ==
  TypeOK /\ DetectionInv /\ SupplyInv /\ RailInv /\ Next => RailInv'
<1> SUFFICES ASSUME TypeOK, DetectionInv, SupplyInv, RailInv, Next PROVE RailInv'
  OBVIOUS
<1> USE PrepAssumption, LowestBit DEF BootLimit, TypeOK, DetectionInv, Masking, SupplyInv, Chosen, RailInv, ComingUp,
            BroughtUp, Left, RailIsOff, RailIsOn, Protected,
            Do, env, flags, Start, Valid, Window, Last, Bits, NoWindow, Phase, Ended
<1>1. CASE PowerPrep_Setup5vDetect \/ hw_power_Init \/ ReadBattery
  BY <1>1 DEF PowerPrep_Setup5vDetect, hw_power_Init, ReadBattery
<1>2. CASE PowerPrep_ConfigurePowerSource \/ PowerPrep_5vBoot \/ PowerPrep_Handle5vConflict
  BY <1>2 DEF Just, PowerDown, PowerPrep_ConfigurePowerSource, PowerPrep_5vBoot,
         PowerPrep_Handle5vConflict
<1>3. CASE PowerPrep_BattBoot \/ WaitForPswitch
  BY <1>3 DEF Just, PowerPrep_BattBoot, BattBootBits, InitBattBoFiqBits,
         WaitForPswitch, PowerDown
<1>4. CASE PowerPrep_BootValid5v \/ PowerPrep_Init4p2Parameters
           \/ PowerPrep_Init4p2Regulator \/ hw_power_EnableMaster4p2
  BY <1>4 DEF PowerPrep_BootValid5v, PowerPrep_Init4p2Parameters,
         PowerPrep_Init4p2Regulator, RegulatorBits, FirstLimit, hw_power_EnableMaster4p2
<1>5. CASE Charged \/ PowerPrep_Enable4p2 \/ Unload
  BY <1>5 DEF Charged, PowerPrep_Enable4p2, InitBattBoFiqBits, FourP2FiqBits,
         Unload
<1>6. CASE StartCharge
  BY <1>6 DEF StartCharge, InputBit, OpenWindow, Opened, ConfigureMasterBrownout
<1>7. CASE PowerPrep_InitDcdc4p2Source \/ hw_power_EnableDcdc
  BY <1>7 DEF Just, PowerPrep_InitDcdc4p2Source, hw_power_EnableDcdc, InputBit,
         OpenWindow, Opened, ConfigureMasterBrownout
<1>8. CASE Mask \/ SetEnable
  BY <1>8 DEF Mask, Masked, SetEnable
<1>9. CASE Unmask \/ hw_power_ClearVbusValidInterrupt
  BY <1>9 DEF Unmask, Restored, hw_power_ClearVbusValidInterrupt
<1>10. CASE RestoreBrownout
  BY <1>10 DEF RestoreBrownout, PrevBrownout, ConfigureMasterBrownout
<1>11. CASE PowerPrep_InitBattBo \/ PowerPrep_SwitchVdddToDdcdcSource
            \/ PowerPrep_EnableOutputRailProtection
  BY <1>11 DEF PowerPrep_InitBattBo, BattBoBits,
         PowerPrep_SwitchVdddToDdcdcSource, PowerPrep_EnableOutputRailProtection
<1>12. CASE Handoff \/ Finish
  BY <1>12 DEF Handoff, MayHandOff, Finish, Just
<1>13. CASE Supply5v \/ FalseTrip
  BY <1>13 DEF Supply5v, FalseTrip
<1>14. CASE Battery \/ Pswitch \/ Vddio
  BY <1>14 DEF Battery, Pswitch, Vddio
<1>15. CASE PoweredDown \/ Brownout5v \/ FourP2Fiq \/ BattFiq
  BY <1>15 DEF PoweredDown, Brownout5v, FourP2Fiq, BattFiq, Off
<1> QED
  BY <1>1, <1>2, <1>3, <1>4, <1>5, <1>6, <1>7, <1>8, <1>9, <1>10, <1>11, <1>12, <1>13, <1>14, <1>15
     DEF Next, Program, Boot5v, InWindow, Hardware

LEMMA PrepKept == PrepInv /\ [Next]_vars => PrepInv'
<1>1. CASE UNCHANGED vars
  <2>1. UNCHANGED <<v5, lost5v, batt, psw, vddioBo, on, trsh, ilimit, bBatteryReady,
                    bEnableMaster5vBrownout, bEnableMasterBattBrownout, pc, win>>
    BY <1>1 DEF vars, env, flags
  <2> QED
    BY <2>1 DEF PrepInv, TypeOK, DetectionInv, ResetValues, Protected, Detecting, Masking,
                SupplyInv, Loaded, Limited, Chosen, CoreKeepsSupply, PowerDownIsFinal,
                GuardInv, Armed, ArmedAtEnd, DcdcGuarded, FourP2Armed, Phase,
                RailInv, ComingUp, BroughtUp, Left, RailIsOff, RailIsOn
<1>2. CASE Next
  BY <1>2, TypesKept, DetectionKept, SuppliesKept, GuardsKept, RailKept
     DEF PrepInv
<1> QED BY <1>1, <1>2

THEOREM PrepInvariant == Spec => []PrepInv
BY InitHolds, PrepKept, PTL DEF Spec

-----------------------------------------------------------------------------
\* Every register field, flag and local of the boot program has its type.
THEOREM PrepTypes == Spec => []TypeOK
<1>1. PrepInv => TypeOK
  BY DEF PrepInv
<1> QED BY <1>1, PrepInvariant, PTL

\* The converter never runs without a fast interrupt that is routed for the supply it
\* can fall back to (hw_init.c 474-492, 833-839).
THEOREM ConverterGuarded == Spec => []DcdcGuarded
<1>1. PrepInv => DcdcGuarded
  BY DEF PrepInv, GuardInv
<1> QED BY <1>1, PrepInvariant, PTL

\* The shutdown on a loss of 5 V is given up only for the complete protection of the
\* battery: level, interrupt and vector (hw_init.c 230-236, 761-767).
THEOREM NoBlindRideEver == Spec => []NoBlindRide
<1>1. PrepInv => NoBlindRide
  BY DEF PrepInv, DetectionInv, ResetValues, Protected, SupplyInv, GuardInv, ArmedAtEnd,
         NoBlindRide, BattArmed, Ended
<1> QED BY <1>1, PrepInvariant, PTL

\* Each window puts back the threshold, the detection method, the shutdown and its
\* master bit, whatever 5 V does in it (hw_power.c 1508-1528).
THEOREM WindowsRestore == Spec => []WindowRestores
<1>1. PrepInv => WindowRestores
  BY DEF PrepInv, DetectionInv, Protected, Detecting, WindowRestores
<1> QED BY <1>1, PrepInvariant, PTL

\* The 4P2 rail is loaded whenever it is on, its capacitor is charged within the limit
\* for it, and the converter comes after both (hw_init.c 519-548, 646-647).
THEOREM RailBroughtUp == Spec => []FourP2BroughtUp
<1>1. PrepInv => FourP2Loaded
  BY DEF PrepInv, SupplyInv, Loaded, FourP2Loaded
<1>2. PrepInv => LimitBeforeRail
  BY DEF PrepInv, SupplyInv, Limited, Phase, LimitBeforeRail, Window
<1>3. PrepInv => EnableDcdcFirst
  BY DEF PrepInv, SupplyInv, Chosen, Phase, EnableDcdcFirst, Window, Valid
<1>4. PrepInv => LeftByBoot
  BY DEF PrepInv, TypeOK, DetectionInv, Protected, SupplyInv, Chosen, RailInv, Left,
         RailIsOff, RailIsOn, LeftByBoot, DriverBits, RailGuard, BootLimit, Ended, Window
<1>5. PrepInv => FourP2BroughtUp
  BY <1>1, <1>2, <1>3, <1>4 DEF FourP2BroughtUp
<1> QED BY <1>5, PrepInvariant, PTL

\* VDDD's linear regulator is off only when the converter runs or the chip is about to
\* power down (hw_init.c 312-320, 845-860).
THEOREM CoreSupplied == Spec => []CoreKeepsSupply
<1>1. PrepInv => CoreKeepsSupply
  BY DEF PrepInv, SupplyInv
<1> QED BY <1>1, PrepInvariant, PTL

\* The program that runs on after it has asked for power-down brings up no supply.
THEOREM PowerDownFinal == Spec => []PowerDownIsFinal
<1>1. PrepInv => PowerDownIsFinal
  BY DEF PrepInv, SupplyInv
<1> QED BY <1>1, PrepInvariant, PTL

\* Only the 5 V input drops the converter's 4P2 input, and the chip goes off only when
\* told to or for a supply that failed: while an enable bit is switched on neither the
\* detection nor the shutdown can take it for a disconnect (hw_power.c 1499-1504).
THEOREM SwitchingHarmlessEver == Spec => SwitchingHarmless
<1>1. ASSUME PrepInv, Next, "DCDC4P2" \in on, "DCDC4P2" \notin on'
      PROVE  ~Connected(v5', on)
  <2> USE DEF Do, Just
  <2>1. CASE Supply5v
    BY <1>1, <2>1 DEF Supply5v
  <2>2. CASE FalseTrip
    BY <1>1, <2>2 DEF FalseTrip, PrepInv, DetectionInv, Masking, Window
  <2>3. CASE Hardware /\ ~Supply5v /\ ~FalseTrip
    BY <1>1, <2>3 DEF Hardware, Battery, Pswitch, Vddio, PoweredDown, Brownout5v,
                      FourP2Fiq, BattFiq, Off
  <2>4. CASE Boot5v
    BY <1>1, <2>4, Opens
       DEF Boot5v, PowerPrep_BootValid5v, PowerPrep_Init4p2Parameters,
           PowerPrep_Init4p2Regulator, hw_power_EnableMaster4p2, StartCharge, Charged,
           PowerPrep_Enable4p2, PowerPrep_InitDcdc4p2Source, hw_power_EnableDcdc, Unload,
           Bits
  <2>5. CASE InWindow
    BY <1>1, <2>5 DEF InWindow, Mask, Masked, SetEnable, Unmask,
                      hw_power_ClearVbusValidInterrupt, RestoreBrownout,
                      ConfigureMasterBrownout
  <2>6. CASE Program /\ ~Boot5v /\ ~InWindow
    BY <1>1, <2>6
       DEF Program, PowerPrep_Setup5vDetect, hw_power_Init, ReadBattery,
           PowerPrep_ConfigurePowerSource, PowerPrep_5vBoot, PowerPrep_Handle5vConflict,
           PowerDown, PowerPrep_BattBoot, WaitForPswitch, PowerPrep_InitBattBo,
           PowerPrep_SwitchVdddToDdcdcSource, PowerPrep_EnableOutputRailProtection,
           Handoff, Finish
  <2> QED BY <1>1, <2>1, <2>2, <2>3, <2>4, <2>5, <2>6 DEF Next
<1>2. ASSUME PrepInv, Next, pc # "off", pc' = "off"
      PROVE  "PWD" \in on \/ lost5v \/ batt = "dead"
  <2> USE DEF Do, Just
  <2>1. CASE FalseTrip
    BY <1>2, <2>1 DEF FalseTrip, PrepInv, DetectionInv, Masking, Window
  <2>2. CASE Hardware /\ ~FalseTrip
    BY <1>2, <2>2 DEF Hardware, Supply5v, Battery, Pswitch, Vddio, PoweredDown, Brownout5v,
                      FourP2Fiq, BattFiq, Off
  <2>3. CASE Boot5v
    BY <1>2, <2>3, Opens
       DEF Boot5v, PowerPrep_BootValid5v, PowerPrep_Init4p2Parameters,
           PowerPrep_Init4p2Regulator, hw_power_EnableMaster4p2, StartCharge, Charged,
           PowerPrep_Enable4p2, PowerPrep_InitDcdc4p2Source, hw_power_EnableDcdc, Unload
  <2>4. CASE InWindow
    BY <1>2, <2>4 DEF InWindow, Mask, SetEnable, Unmask, hw_power_ClearVbusValidInterrupt,
                      RestoreBrownout, PrepInv, DetectionInv, Masking, Window
  <2>5. CASE Program /\ ~Boot5v /\ ~InWindow
    BY <1>2, <2>5
       DEF Program, PowerPrep_Setup5vDetect, hw_power_Init, ReadBattery,
           PowerPrep_ConfigurePowerSource, PowerPrep_5vBoot, PowerPrep_Handle5vConflict,
           PowerDown, PowerPrep_BattBoot, WaitForPswitch, PowerPrep_InitBattBo,
           PowerPrep_SwitchVdddToDdcdcSource, PowerPrep_EnableOutputRailProtection,
           Handoff, Finish
  <2> QED BY <1>2, <2>1, <2>2, <2>3, <2>4, <2>5 DEF Next
<1>3. PrepInv /\ [Next]_vars
        => /\ [("DCDC4P2" \in on /\ "DCDC4P2" \notin on') => ~Connected(v5', on)]_vars
           /\ [(Running /\ pc' = "off") => "PWD" \in on \/ lost5v \/ batt = "dead"]_vars
  BY <1>1, <1>2 DEF Running
<1> QED BY <1>3, PrepInvariant, PTL DEF Spec, SwitchingHarmless, SourceKept, OffHasCause
=============================================================================
