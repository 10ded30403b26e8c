------------------------------ MODULE PowerFiq ------------------------------
(***************************************************************************)
(* hw_power_FiqHandler (hw_power_fiq.c): what the machine does when a      *)
(* supply browns out.  The handler is called by the fast interrupt, again  *)
(* and again while an interrupt is pending.  A droop of the 5 V input has  *)
(* priority and cuts the 4P2 supply; a brownout of VDDD, VDDA or VDDIO is  *)
(* debounced against the comparators and powers the chip down; one of 4P2  *)
(* powers it down at once; one of the battery is left to the caller, the   *)
(* PMI fast-interrupt handler, which is not part of the source.            *)
(*                                                                         *)
(* Beside the program there are the rails, which may brown out and recover *)
(* between any two of its steps, and the microsecond counter, which moves  *)
(* by at most one between two readings in the debounce loop.  A            *)
(* comparator latches its interrupt when it trips; while it stays low it   *)
(* may latch it again.                                                     *)
(***************************************************************************)
EXTENDS Integers, FiniteSets

CONSTANTS WORD,                         \* values of the counter (2^32)
          FIQ_DEBOUNCE_MICROSECONDS,    \* 11
          MAX_DROOPS                    \* droops of the 5 V input at most

\* With a time of 1 the loop could end before the comparators are read.
ASSUME FiqAssumption == /\ WORD \in Nat
                        /\ FIQ_DEBOUNCE_MICROSECONDS \in 2 .. WORD - 1
                        /\ MAX_DROOPS \in Nat

Rails == {"VDDD", "VDDA", "VDDIO"}
\* The switches of the 4P2 supply: two bits of DCDC4P2 and one of CHARGE.
Feeds == {"ENABLE_DCDC", "ENABLE_4P2", "ENABLE_LOAD"}

VARIABLES
  brown,                    \* rails whose comparator is low (HW_POWER_STS)
  boIrq,                    \* rails whose brownout interrupt is latched
  droopIrq, droopOn,        \* VDD5V_DROOP_IRQ; ENIRQ_VDD5V_DROOP and its vector
  p2Irq, p2On,              \* DCDC4P2_BO_IRQ, ENIRQ_DCDC4P2_BO
  battIrq,                  \* BATT_BO_IRQ
  fed,                      \* the Feeds that are on
  vdd5v,                    \* the VDD5V interrupt has been triggered by software
  droops,                   \* droops so far
  pc,
  u32FIQBits,               \* the interrupts seen on entry
  now, u32Start,            \* in the debounce loop: the counter, its first value,
  ticked,                   \* whether it has moved since it was read,
  reading,                  \* auxiliary: what was read: "none", "low" or "high",
  elapsed                   \* auxiliary: and for how long

irqs     == <<boIrq, droopIrq, droopOn, p2Irq, p2On, battIrq>>
outputs  == <<fed, vdd5v>>
debounce == <<now, u32Start, ticked, reading, elapsed>>
vars     == <<brown, irqs, outputs, droops, pc, u32FIQBits, debounce>>

\* Where the chip is off, or in the hands of the PMI handler.
Ended == {"off_rail", "off_4p2", "handed_over"}

Goto(from, to) == pc = from /\ pc' = to

-----------------------------------------------------------------------------
\* Faulty variants of definitions below, by which it is checked that the
\* properties can fail: a droop that waits for the rails, a loop that ends one
\* microsecond early, a loop that never finds a brownout false or takes a low rail
\* for one, a droop that leaves the load on, a 4P2 brownout that is not acted upon.
DroopAfterRails   == droopIrq /\ droopOn /\ boIrq = {}
WindowTooShort    == now < u32Start + FIQ_DEBOUNCE_MICROSECONDS - 1
NeverFalse(b)     == FALSE
OneLowIsFalse(b)  == Cardinality(b) < 2
LoadStaysOn       == {"ENABLE_LOAD"}
FourP2Ignored     == FALSE

-----------------------------------------------------------------------------
Plus(a, b) == (a + b) % WORD

FiqPending == \/ boIrq # {}
              \/ droopIrq /\ droopOn
              \/ p2Irq /\ p2On
              \/ battIrq

\* The fast interrupt is taken.
Enter == /\ FiqPending
         /\ Goto("idle", "droop")
         /\ UNCHANGED <<brown, irqs, outputs, droops, u32FIQBits, debounce>>

\* The local variables of a call that returns are gone.
Return(from) == /\ Goto(from, "idle")
                /\ u32FIQBits' = {}
                /\ now' = 0 /\ u32Start' = 0 /\ ticked' = FALSE
                /\ reading' = "none" /\ elapsed' = 0

\* A droop of VDD5V is checked first.
Droop == droopIrq /\ droopOn

\* The three bits are cleared: what remains on.
FedAfterDroop == {}

HandleDroop == /\ Goto("droop", "clear")
               /\ Droop
               /\ fed' = FedAfterDroop
               /\ droopOn' = FALSE
               /\ UNCHANGED <<brown, boIrq, droopIrq, p2Irq, p2On, battIrq, vdd5v, droops,
                              u32FIQBits, debounce>>

\* hw_power_ClearVdd5vDroopInterrupt clears until the bit reads 0.
ClearDroop == /\ Goto("clear", "clear")
              /\ droopIrq
              /\ droopIrq' = FALSE
              /\ UNCHANGED <<brown, boIrq, droopOn, p2Irq, p2On, battIrq, outputs, droops,
                             u32FIQBits, debounce>>

\* The interrupt for the removal of 5 V is triggered; the handler returns false.
TriggerVdd5v == /\ ~droopIrq
                /\ Return("clear")
                /\ vdd5v' = TRUE
                /\ UNCHANGED <<brown, irqs, fed, droops>>

\* No droop: the interrupt bits are read.
ReadBits == /\ Goto("droop", "bits")
            /\ ~Droop
            /\ u32FIQBits' = boIrq \cup (IF p2Irq THEN {"DCDC4P2"} ELSE {})
                                   \cup (IF battIrq THEN {"BATT"} ELSE {})
            /\ UNCHANGED <<brown, irqs, outputs, droops, debounce>>

RailDown   == u32FIQBits \cap Rails # {}
FourP2Down == "DCDC4P2" \in u32FIQBits /\ p2On

\* A rail: the debounce loop begins, wherever the counter stands.
StartDebounce == /\ Goto("bits", "window")
                 /\ RailDown
                 /\ u32Start' \in 0 .. WORD - 1 /\ now' = u32Start'
                 /\ u32FIQBits' = {}
                 /\ UNCHANGED <<brown, irqs, outputs, droops, ticked, reading, elapsed>>

\* 4P2, if its interrupt is enabled: power down.
PowerDown4p2 == /\ Goto("bits", "off_4p2")
                /\ ~RailDown /\ FourP2Down
                /\ UNCHANGED <<brown, irqs, outputs, droops, u32FIQBits, debounce>>

\* The battery: the handler returns true and the caller acts.
ReportBattery == /\ Goto("bits", "handed_over")
                 /\ ~RailDown /\ ~FourP2Down /\ "BATT" \in u32FIQBits
                 /\ UNCHANGED <<brown, irqs, outputs, droops, u32FIQBits, debounce>>

\* The last branch, "We should not reach this statement", has no action: a handler
\* that came to it would stop here, and EveryBrownoutEnds would fail.

-----------------------------------------------------------------------------
\* The test of the loop, in words of the counter.
InWindow == now < Plus(u32Start, FIQ_DEBOUNCE_MICROSECONDS)

\* The condition for a false brownout compares three truth values with two chained
\* equalities: the first yields a truth value, which is compared with the third.
FalseBrownout(b) ==
  (("VDDD" \notin b) = ("VDDA" \notin b)) = ("VDDIO" \notin b)

LoopTest == /\ Goto("window", "sample")
            /\ InWindow
            /\ ticked' = FALSE
            /\ UNCHANGED <<brown, irqs, outputs, droops, u32FIQBits, now, u32Start, reading,
                           elapsed>>

\* The comparators are read: the loop goes on ...
SampleLow == /\ Goto("sample", "window")
             /\ ~FalseBrownout(brown)
             /\ reading' = IF brown = {} \/ reading = "high" THEN "high" ELSE "low"
             /\ UNCHANGED <<brown, irqs, outputs, droops, u32FIQBits, now, u32Start, ticked,
                            elapsed>>

\* ... or clears the three interrupts and returns false.
SampleFalse == /\ Return("sample")
               /\ FalseBrownout(brown)
               /\ boIrq' = {}
               /\ UNCHANGED <<brown, droopIrq, droopOn, p2Irq, p2On, battIrq, outputs, droops>>

\* The loop is over: power down.
PowerDownRails == /\ Goto("window", "off_rail")
                  /\ ~InWindow
                  /\ UNCHANGED <<brown, irqs, outputs, droops, u32FIQBits, debounce>>

hw_power_FiqHandler ==
  \/ Enter \/ HandleDroop \/ ClearDroop \/ TriggerVdd5v \/ ReadBits
  \/ PowerDown4p2 \/ ReportBattery
  \/ StartDebounce \/ LoopTest \/ SampleLow \/ SampleFalse \/ PowerDownRails

-----------------------------------------------------------------------------
\* The hardware, as long as the chip runs.
Running == pc \notin Ended

\* A microsecond passes in the debounce loop.
Tick == /\ pc \in {"window", "sample"} /\ ~ticked
        /\ now' = Plus(now, 1)
        /\ ticked' = TRUE /\ elapsed' = elapsed + 1
        /\ UNCHANGED <<brown, irqs, outputs, droops, pc, u32FIQBits, u32Start, reading>>

\* Rails brown out or recover.
RailsChange == /\ Running
               /\ brown' \in SUBSET Rails
               /\ boIrq' = boIrq \cup (brown' \ brown)
               /\ UNCHANGED <<droopIrq, droopOn, p2Irq, p2On, battIrq, outputs, droops, pc,
                              u32FIQBits, debounce>>

\* A comparator that stays low latches its interrupt again.
Relatch == /\ Running
           /\ boIrq' = boIrq \cup brown
           /\ UNCHANGED <<brown, droopIrq, droopOn, p2Irq, p2On, battIrq, outputs, droops, pc,
                          u32FIQBits, debounce>>

DroopComes == /\ Running /\ droops < MAX_DROOPS
              /\ droopIrq' = TRUE
              /\ droops' = droops + 1
              /\ UNCHANGED <<brown, boIrq, droopOn, p2Irq, p2On, battIrq, outputs, pc,
                             u32FIQBits, debounce>>

FourP2Browns == /\ Running
                /\ p2Irq' = TRUE
                /\ UNCHANGED <<brown, boIrq, droopIrq, droopOn, p2On, battIrq, outputs, droops,
                               pc, u32FIQBits, debounce>>

BatteryBrowns == /\ Running
                 /\ battIrq' = TRUE
                 /\ UNCHANGED <<brown, boIrq, droopIrq, droopOn, p2Irq, p2On, outputs, droops,
                                pc, u32FIQBits, debounce>>

Hardware == Tick \/ RailsChange \/ Relatch \/ DroopComes \/ FourP2Browns \/ BatteryBrowns

Spin == ~Running /\ UNCHANGED vars

Init == /\ brown = {} /\ boIrq = {} /\ droopIrq = FALSE /\ droopOn = TRUE
        /\ p2Irq = FALSE /\ p2On \in BOOLEAN /\ battIrq = FALSE
        /\ fed = Feeds /\ vdd5v = FALSE /\ droops = 0
        /\ pc = "idle" /\ u32FIQBits = {}
        /\ now = 0 /\ u32Start = 0 /\ ticked = FALSE /\ reading = "none" /\ elapsed = 0

Next == hw_power_FiqHandler \/ Hardware \/ Spin

Spec == Init /\ [][Next]_vars

\* The interrupt is taken and the handler runs on, the counter counts, and a rail
\* that stays low keeps its interrupt latched.
FairSpec == Spec /\ WF_vars(hw_power_FiqHandler) /\ WF_vars(Tick) /\ WF_vars(Relatch)

-----------------------------------------------------------------------------
\* The variables have their types.
TypeOK ==
  /\ brown \subseteq Rails /\ boIrq \subseteq Rails
  /\ droopIrq \in BOOLEAN /\ droopOn \in BOOLEAN /\ p2Irq \in BOOLEAN /\ p2On \in BOOLEAN
  /\ battIrq \in BOOLEAN /\ vdd5v \in BOOLEAN /\ ticked \in BOOLEAN
  /\ fed \subseteq Feeds
  /\ droops \in 0 .. MAX_DROOPS
  /\ pc \in Ended \cup {"idle", "droop", "clear", "bits", "window", "sample"}
  /\ u32FIQBits \subseteq Rails \cup {"DCDC4P2", "BATT"}
  /\ now \in 0 .. WORD - 1 /\ u32Start \in 0 .. WORD - 1
  /\ reading \in {"none", "low", "high"}
  /\ elapsed \in Nat

NoWrap == u32Start + FIQ_DEBOUNCE_MICROSECONDS < WORD

\* A brownout that is over before the loop ends does not cost the power: the chip
\* is powered down for a rail only if no reading of the comparators found all of
\* them high.
HealthyKeepsPower == pc = "off_rail" => reading # "high"

\* The chip is powered down for a rail only after the comparators have been read
\* low for the whole debounce time, unless the counter wraps within it.
DebouncedPowerDown ==
  pc = "off_rail" /\ NoWrap => reading = "low" /\ elapsed >= FIQ_DEBOUNCE_MICROSECONDS

\* A droop that was handled has cut the whole 4P2 supply, has disabled itself and
\* has told the 5 V driver, before any other interrupt is looked at.
DroopHandedOn ==
  ~droopOn => fed = {} /\ (pc \in {"droop", "bits", "window", "sample"} => vdd5v)

\* A droop cuts the supply however often the rails brown out and recover.
DroopCutsFeed == droopIrq /\ droopOn ~> fed = {} \/ ~Running

\* A rail that browns out alone and stays low ends in power-down, whatever the
\* droop, the battery and 4P2 do.
SteadyRailEnds == <>[](Cardinality(brown) = 1 \/ ~Running) => <>~Running

\* A brownout of 4P2 powers the chip down once the rails are steady.
FourP2Ends == <>[](brown = {} \/ ~Running) => (p2Irq /\ p2On ~> ~Running)

\* None of the three is starved by the others.
EveryBrownoutEnds == DroopCutsFeed /\ SteadyRailEnds /\ FourP2Ends

\* "This was a false brownout": when the loop gives a brownout up, the rails read
\* high.
FalseMeansHealthy == [][pc = "sample" /\ pc' = "idle" => brown = {}]_vars
=============================================================================
