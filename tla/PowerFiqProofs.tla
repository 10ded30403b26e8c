--------------------------- MODULE PowerFiqProofs ---------------------------
(***************************************************************************)
(* Proofs about PowerFiq: the types, and the three safety invariants of    *)
(* the handler, for every width of the counter and every debounce time.    *)
(***************************************************************************)
EXTENDS PowerFiq, TLAPS

\* In the debounce loop.
InLoop == pc \in {"window", "sample"}

\* What the recorded time says of the counter, where the end of the loop does not
\* wrap: a tick more may have been seen since the last test, but no second one; and
\* the comparators have been read before the time can be over.
Debouncing ==
  /\ InLoop /\ NoWrap => /\ now = u32Start + elapsed
                         /\ elapsed <= FIQ_DEBOUNCE_MICROSECONDS
                         /\ ~ticked => elapsed < FIQ_DEBOUNCE_MICROSECONDS
  /\ pc = "window" /\ reading = "none" => elapsed <= 1 /\ (~ticked => elapsed = 0)

\* Outside the loop its variables are as a call finds them.
Fresh == pc \in {"idle", "droop", "clear", "bits"} =>
           elapsed = 0 /\ ~ticked /\ reading = "none"

\* A droop that was handled is told to the 5 V driver when the handler returns.
DroopTold == ~droopOn => fed = {} /\ (pc # "clear" => vdd5v)

FiqInv ==
  /\ TypeOK /\ Fresh /\ Debouncing /\ DroopTold
  /\ reading # "high"
  /\ DebouncedPowerDown

\* Rails that are all high read as a false brownout, so that the loop never goes on
\* with them.
LEMMA HealthyIsFalse == FalseBrownout({})
BY DEF FalseBrownout

LEMMA InitHolds == Init => FiqInv
<1> SUFFICES ASSUME Init
             PROVE  FiqInv
  OBVIOUS
<1>1. now \in 0 .. WORD - 1 /\ u32Start \in 0 .. WORD - 1 /\ droops \in 0 .. MAX_DROOPS
  BY FiqAssumption DEF Init
<1>2. TypeOK
  BY <1>1 DEF Init, TypeOK
<1>3. Fresh /\ Debouncing /\ DroopTold /\ reading # "high" /\ DebouncedPowerDown
  BY DEF Init, Fresh, Debouncing, DroopTold, InLoop, DebouncedPowerDown
<1> QED BY <1>2, <1>3 DEF FiqInv

\* Each action keeps the types.
LEMMA TypesKept == TypeOK /\ Next => TypeOK'
<1> SUFFICES ASSUME TypeOK, Next
             PROVE  TypeOK'
  OBVIOUS
<1>0. 0 \in 0 .. WORD - 1
  BY FiqAssumption
<1> USE DEF TypeOK, Goto, irqs, outputs, debounce, Ended
<1>1. ASSUME Enter PROVE TypeOK'
  BY <1>1 DEF Enter
<1>2. ASSUME HandleDroop PROVE TypeOK'
  BY <1>2 DEF HandleDroop, FedAfterDroop
<1>3. ASSUME ClearDroop PROVE TypeOK'
  BY <1>3 DEF ClearDroop
<1>4. ASSUME TriggerVdd5v PROVE TypeOK'
  BY <1>0, <1>4 DEF TriggerVdd5v, Return
<1>5. ASSUME ReadBits PROVE TypeOK'
  BY <1>5 DEF ReadBits
<1>6. ASSUME PowerDown4p2 PROVE TypeOK'
  BY <1>6 DEF PowerDown4p2
<1>7. ASSUME ReportBattery PROVE TypeOK'
  BY <1>7 DEF ReportBattery
<1>8. ASSUME StartDebounce PROVE TypeOK'
  BY <1>8 DEF StartDebounce
<1>9. ASSUME LoopTest PROVE TypeOK'
  BY <1>9 DEF LoopTest
<1>10. ASSUME SampleLow PROVE TypeOK'
  BY <1>10 DEF SampleLow
<1>11. ASSUME SampleFalse PROVE TypeOK'
  BY <1>0, <1>11 DEF SampleFalse, Return
<1>12. ASSUME PowerDownRails PROVE TypeOK'
  BY <1>12 DEF PowerDownRails
<1>13. ASSUME Tick PROVE TypeOK'
  <2>1. now' \in 0 .. WORD - 1 /\ elapsed' \in Nat
    BY <1>13, FiqAssumption DEF Tick, Plus
  <2> QED BY <1>13, <2>1 DEF Tick
<1>14. ASSUME RailsChange PROVE TypeOK'
  BY <1>14 DEF RailsChange
<1>15. ASSUME Relatch PROVE TypeOK'
  BY <1>15 DEF Relatch
<1>16. ASSUME DroopComes PROVE TypeOK'
  <2>1. droops' \in 0 .. MAX_DROOPS
    BY <1>16, FiqAssumption DEF DroopComes
  <2> QED BY <1>16, <2>1 DEF DroopComes
<1>17. ASSUME FourP2Browns PROVE TypeOK'
  BY <1>17 DEF FourP2Browns
<1>18. ASSUME BatteryBrowns PROVE TypeOK'
  BY <1>18 DEF BatteryBrowns
<1>19. ASSUME Spin PROVE TypeOK'
  BY <1>19 DEF Spin, vars
<1> QED BY <1>1, <1>2, <1>3, <1>4, <1>5, <1>6, <1>7, <1>8, <1>9, <1>10, <1>11, <1>12,
           <1>13, <1>14, <1>15, <1>16, <1>17, <1>18, <1>19
        DEF Next, hw_power_FiqHandler, Hardware

\* What the actions do to the rest of the invariant.
Recorded == Fresh /\ Debouncing /\ DroopTold /\ reading # "high" /\ DebouncedPowerDown

\* The steps of the handler outside the debounce loop.
LEMMA HandlerPreserves ==
  FiqInv /\ (Enter \/ HandleDroop \/ ClearDroop \/ TriggerVdd5v \/ ReadBits
             \/ PowerDown4p2 \/ ReportBattery) => Recorded'
<1> SUFFICES ASSUME FiqInv,
                    Enter \/ HandleDroop \/ ClearDroop \/ TriggerVdd5v \/ ReadBits
                    \/ PowerDown4p2 \/ ReportBattery
             PROVE  Recorded'
  OBVIOUS
<1> USE DEF FiqInv, TypeOK, Recorded, Fresh, Debouncing, DroopTold, InLoop,
            DebouncedPowerDown, Goto, irqs, outputs, debounce, Ended, NoWrap
<1>1. CASE Enter
  BY <1>1 DEF Enter
<1>2. CASE HandleDroop
  BY <1>2 DEF HandleDroop, FedAfterDroop
<1>3. CASE ClearDroop
  BY <1>3 DEF ClearDroop
<1>4. CASE TriggerVdd5v
  BY <1>4 DEF TriggerVdd5v, Return
<1>5. CASE ReadBits
  BY <1>5 DEF ReadBits
<1>6. CASE PowerDown4p2 \/ ReportBattery
  BY <1>6 DEF PowerDown4p2, ReportBattery
<1> QED BY <1>1, <1>2, <1>3, <1>4, <1>5, <1>6

\* The debounce loop.
LEMMA LoopPreserves ==
  FiqInv /\ (StartDebounce \/ LoopTest \/ SampleLow \/ SampleFalse \/ PowerDownRails)
    => Recorded'
<1> SUFFICES ASSUME FiqInv,
                    StartDebounce \/ LoopTest \/ SampleLow \/ SampleFalse \/ PowerDownRails
             PROVE  Recorded'
  OBVIOUS
<1> USE FiqAssumption
        DEF FiqInv, TypeOK, Recorded, Fresh, Debouncing, DroopTold, InLoop,
            DebouncedPowerDown, Goto, irqs, outputs, debounce, Ended, NoWrap
<1>1. CASE StartDebounce
  <2>1. elapsed' = 0 /\ ~ticked' /\ reading' = "none" /\ pc' = "window"
    BY <1>1 DEF StartDebounce
  <2>2. PICK s \in 0 .. WORD - 1 : u32Start' = s /\ now' = s
    BY <1>1 DEF StartDebounce
  <2>3. Debouncing'
    BY ONLY <2>1, <2>2, FiqAssumption DEF Debouncing, InLoop, NoWrap
  <2>4. Fresh' /\ DebouncedPowerDown'
    BY <2>1
  <2>5. DroopTold'
    BY <1>1 DEF StartDebounce
  <2> QED BY <2>1, <2>3, <2>4, <2>5
<1>2. CASE LoopTest
  <2>1. NoWrap => elapsed < FIQ_DEBOUNCE_MICROSECONDS
    BY <1>2 DEF LoopTest, InWindow, Plus
  <2> QED BY <1>2, <2>1 DEF LoopTest
<1>3. CASE SampleLow
  <2>1. brown # {}
    BY <1>3, HealthyIsFalse DEF SampleLow
  <2>2. reading' = "low"
    BY <1>3, <2>1 DEF SampleLow
  <2> QED BY <1>3, <2>2 DEF SampleLow
<1>4. CASE SampleFalse
  BY <1>4 DEF SampleFalse, Return
<1>5. CASE PowerDownRails
  <2>1. NoWrap => elapsed >= FIQ_DEBOUNCE_MICROSECONDS
    BY <1>5 DEF PowerDownRails, InWindow, Plus
  <2>2. NoWrap => reading = "low"
    BY <1>5, <2>1 DEF PowerDownRails
  <2> QED BY <1>5, <2>1, <2>2 DEF PowerDownRails
<1> QED BY <1>1, <1>2, <1>3, <1>4, <1>5

LEMMA HardwarePreserves == FiqInv /\ (Hardware \/ Spin) => Recorded'
<1> SUFFICES ASSUME FiqInv, Hardware \/ Spin
             PROVE  Recorded'
  OBVIOUS
<1> USE FiqAssumption
        DEF FiqInv, TypeOK, Recorded, Fresh, Debouncing, DroopTold, InLoop,
            DebouncedPowerDown, irqs, outputs, debounce, Ended, NoWrap, Running
<1>1. CASE Tick
  <2>1. now + 1 < WORD => now' = now + 1
    BY <1>1 DEF Tick, Plus
  <2>2. Debouncing'
    <3>1. ticked' = TRUE /\ elapsed' = elapsed + 1 /\ pc' = pc /\ u32Start' = u32Start
          /\ reading' = reading /\ ~ticked
      BY <1>1 DEF Tick
    <3>2. InLoop' /\ NoWrap' => now' = u32Start' + elapsed'
                               /\ elapsed' <= FIQ_DEBOUNCE_MICROSECONDS
      BY <2>1, <3>1
    <3>3. pc' = "window" /\ reading' = "none" => elapsed' = 1
      BY <3>1
    <3> QED BY <3>1, <3>2, <3>3
  <2>3. Fresh' /\ DebouncedPowerDown' /\ reading' # "high"
    BY <1>1 DEF Tick
  <2>4. DroopTold'
    BY <1>1 DEF Tick
  <2> QED BY <2>2, <2>3, <2>4
<1>2. CASE RailsChange \/ Relatch
  BY <1>2 DEF RailsChange, Relatch
<1>3. CASE DroopComes \/ FourP2Browns \/ BatteryBrowns
  BY <1>3 DEF DroopComes, FourP2Browns, BatteryBrowns
<1>4. CASE Spin
  BY <1>4 DEF Spin, vars
<1> QED BY <1>1, <1>2, <1>3, <1>4 DEF Hardware

\* The invariant holds in every state.
THEOREM FiqInvariant == Spec => []FiqInv
<1>1. FiqInv /\ UNCHANGED vars => FiqInv'
  BY DEF FiqInv, TypeOK, Fresh, Debouncing, DroopTold, InLoop, DebouncedPowerDown, vars,
         irqs, outputs, debounce, NoWrap
<1>2. FiqInv /\ [Next]_vars => FiqInv'
  <2> SUFFICES ASSUME FiqInv, Next
               PROVE  FiqInv'
    BY <1>1
  <2>1. TypeOK'
    BY TypesKept DEF FiqInv
  <2>2. Recorded'
    BY HandlerPreserves, LoopPreserves, HardwarePreserves DEF Next, hw_power_FiqHandler
  <2> QED BY <2>1, <2>2 DEF FiqInv, Recorded
<1> QED BY InitHolds, <1>2, PTL DEF Spec

\* The variables keep their types.
THEOREM FiqTypes == Spec => []TypeOK
<1>1. FiqInv => TypeOK
  BY DEF FiqInv
<1> QED BY FiqInvariant, <1>1, PTL

\* No rail that recovers before the loop ends costs the power (hw_power_fiq.c 139-160).
THEOREM HealthyKeepsPowerEver == Spec => []HealthyKeepsPower
<1>1. FiqInv => HealthyKeepsPower
  BY DEF FiqInv, HealthyKeepsPower
<1> QED BY FiqInvariant, <1>1, PTL

\* No power-down for a rail comes before the debounce time is over and the rail was
\* read low in it, unless the end of the time wraps (lines 135-139).
THEOREM DebouncedPowerDownEver == Spec => []DebouncedPowerDown
<1>1. FiqInv => DebouncedPowerDown
  BY DEF FiqInv
<1> QED BY FiqInvariant, <1>1, PTL

\* A droop is handed on, with its feeds cut, before another interrupt is looked at
\* (lines 67-101).
THEOREM DroopHandedOnEver == Spec => []DroopHandedOn
<1>1. FiqInv => DroopHandedOn
  BY DEF FiqInv, DroopTold, DroopHandedOn
<1> QED BY FiqInvariant, <1>1, PTL
=============================================================================
