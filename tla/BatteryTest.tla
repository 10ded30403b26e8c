---------------------------- MODULE BatteryTest -----------------------------
(***************************************************************************)
(* The battery test (ddi_power_handoff.c: ddi_power_IsBatteryConnected and *)
(* ddi_power_TestBatteryConnection): with the pin loaded, does its voltage *)
(* hold?  Is it that of a battery?  If neither tells, the charger is       *)
(* turned on with 30 mA: an open pin jumps up, a battery sinks the current *)
(* until the time is over.                                                 *)
(*                                                                         *)
(* The test runs on the register bits and the supply that PowerHandoff     *)
(* shares with it.  Voltages are levels; the clock is only read in the     *)
(* last loop, which may start at any time of it and each of whose steps    *)
(* takes up to GAP ticks, after the reading it is made of.                 *)
(***************************************************************************)
EXTENDS Integers

CONSTANTS
  TOP,                  \* greatest voltage of the pin
  MIN_BATT_VOLT,        \* above it there is a battery (2800 mV)
  MIN_OPEN_CIRC_VOLT,   \* above it the pin is open when it is charged (4000 mV)
  STABLE,               \* two readings are the same below this difference (25 mV)
  DRIFT,                \* the pin is open above this difference (200 mV)
  WAIT,                 \* BATT_TEST__WAIT_TIME_US, in ticks
  CLOCK,                \* values of the clock
  GAP,                  \* greatest time between two readings
  RISE,                 \* an open pin that is charged is up after this time
  DROP                  \* an open pin under load drops by this much in 100 ms

\* What the test takes for granted of an open pin: it does not look stable while it
\* drains, and it is seen to rise while the clock still has not the last word.
ASSUME TestAssumption ==
  /\ {TOP, MIN_BATT_VOLT, MIN_OPEN_CIRC_VOLT, STABLE, DRIFT, WAIT, CLOCK, GAP, RISE, DROP}
       \subseteq Nat
  /\ MIN_BATT_VOLT < MIN_OPEN_CIRC_VOLT /\ MIN_OPEN_CIRC_VOLT < TOP
  /\ 0 < STABLE /\ STABLE <= DROP /\ 0 < GAP
  /\ RISE + 3 * GAP <= WAIT + 1
  /\ WAIT + 2 * GAP < CLOCK

VARIABLES
  pc,           \* where the program is
  on,           \* bits of the power registers that are set
  ilimit,       \* CHARGE_4P2_ILIMIT
  cell, volt,   \* what is at the battery pin, "battery" or "none", and its voltage
  now, lag,     \* the clock; how long the charger has been on, up to RISE
  t,            \* the locals of the test
  bBatteryConnected, bBatteryConnectionTestComplete

testVars == <<pc, on, ilimit, cell, volt, now, lag, t, bBatteryConnected,
              bBatteryConnectionTestComplete>>

\* Addition and subtraction of the clock's values.
Later(a, d)   == IF a + d >= CLOCK THEN a + d - CLOCK ELSE a + d
Elapsed(a, b) == IF a >= b THEN a - b ELSE a - b + CLOCK

\* The bits that the test switches to charge.
Switches == {"PWD_BATTCHRG", "PWD_CHARGE_4P2", "ENABLE_4P2"}
NoLocals == [load |-> FALSE, start |-> 0, first |-> 0, prev |-> {}, limit |-> 0,
             time |-> 0, seen |-> FALSE, battery |-> FALSE]
TestPlaces == {"first", "second", "level", "clock", "threshold", "timeout", "restore"}

-----------------------------------------------------------------------------
\* Faulty variants of definitions below: a comparison that the clock wraps under, and
\* a switch that is not put back.
PastEnd(time)      == now > Later(time, WAIT)
LeftOn(S)          == (S \ {"PWD_BATTCHRG", "PWD_CHARGE_4P2"}) \cup t.prev
-----------------------------------------------------------------------------
\* The test's end: its result is kept for this application, and in CHRG_STS_OFF for
\* the next.
Conclude(S, battery) ==
  /\ pc' = "checked"
  /\ on' = IF battery THEN S \ {"CHRG_STS_OFF"} ELSE S \cup {"CHRG_STS_OFF"}
  /\ bBatteryConnected' = battery
  /\ bBatteryConnectionTestComplete' = TRUE
  /\ t' = NoLocals /\ now' = 0 /\ lag' = 0

Statics == <<bBatteryConnected, bBatteryConnectionTestComplete>>

ddi_power_IsBatteryConnected ==
  /\ pc = "check"
  /\ \/ /\ bBatteryConnectionTestComplete \/ "CHRG_STS_OFF" \in on
        /\ pc' = "checked"
        /\ bBatteryConnected' = (bBatteryConnectionTestComplete /\ bBatteryConnected)
        /\ UNCHANGED <<on, t>>
     \/ /\ ~bBatteryConnectionTestComplete /\ "CHRG_STS_OFF" \notin on
        /\ pc' = "first"
        /\ on' = on \cup {"ENABLE_LOAD"}
        /\ t' = [NoLocals EXCEPT !.load = "ENABLE_LOAD" \in on, !.start = volt]
        /\ UNCHANGED bBatteryConnected
  /\ UNCHANGED <<ilimit, cell, volt, now, lag, bBatteryConnectionTestComplete>>

FirstReading ==
  /\ pc = "first" /\ pc' = "second"
  /\ t' = [t EXCEPT !.first = volt]
  /\ UNCHANGED <<on, ilimit, cell, volt, now, lag, Statics>>

Apart(a, b) == IF a > b THEN a - b ELSE b - a
Drained == IF cell = "battery" \/ "ENABLE_LOAD" \notin on THEN {volt}
           ELSE {v \in 0 .. volt : v = 0 \/ v + DROP <= volt}

\* After 100 ms.  A drift ends the test with the load on.
SecondReading ==
  /\ pc = "second"
  /\ volt' \in Drained
  /\ IF Apart(t.start, volt') > DRIFT
       THEN Conclude(on, FALSE)
       ELSE /\ IF Apart(t.first, volt') < STABLE
                 THEN /\ pc' = "level"
                      /\ on' = IF t.load THEN on ELSE on \ {"ENABLE_LOAD"}
                 ELSE pc' = "first" /\ UNCHANGED on
            /\ UNCHANGED <<now, lag, t, Statics>>
  /\ UNCHANGED <<ilimit, cell>>

\* The limits are saved in a bool: as 0 or 1.
AsBool(n) == IF n = 0 THEN 0 ELSE 1

TurnOnCharger ==
  /\ pc = "level"
  /\ \/ /\ volt > MIN_BATT_VOLT
        /\ Conclude(on, TRUE)
        /\ UNCHANGED ilimit
     \/ /\ volt <= MIN_BATT_VOLT
        /\ pc' = "clock"
        /\ t' = [t EXCEPT !.prev = on \cap Switches, !.limit = AsBool(ilimit)]
        /\ ilimit' = 3 /\ lag' = 0 /\ now' \in 0 .. CLOCK - 1
        /\ on' = (on \cup {"ENABLE_4P2"}) \ {"PWD_CHARGE_4P2", "PWD_BATTCHRG"}
        /\ UNCHANGED Statics
  /\ UNCHANGED <<cell, volt>>

-----------------------------------------------------------------------------
\* Time passes after a reading, at least a tick in a round, and an open pin rises
\* within RISE.
Passes(least) == \E d \in least .. GAP :
  /\ now' = Later(now, d)
  /\ lag' = IF lag + d > RISE THEN RISE ELSE lag + d
  /\ volt' \in (IF cell = "battery" THEN {volt}
                ELSE IF lag' = RISE THEN {TOP} ELSE {volt, TOP})
  /\ UNCHANGED cell

ReadStart ==
  /\ pc = "clock" /\ pc' = "threshold"
  /\ t' = [t EXCEPT !.time = now]
  /\ Passes(0)
  /\ UNCHANGED <<on, ilimit, Statics>>

CheckThreshold ==
  /\ pc = "threshold" /\ pc' = "timeout"
  /\ t' = [t EXCEPT !.seen = volt > MIN_OPEN_CIRC_VOLT]
  /\ Passes(0)
  /\ UNCHANGED <<on, ilimit, Statics>>

TimedOut(time) == Elapsed(now, time) > WAIT

\* The clock has the last word on what the threshold said.
CheckTimeout ==
  /\ pc = "timeout"
  /\ pc' = IF t.seen \/ TimedOut(t.time) THEN "restore" ELSE "threshold"
  /\ t' = [t EXCEPT !.battery = TimedOut(t.time)]
  /\ Passes(1)
  /\ UNCHANGED <<on, ilimit, Statics>>

PutBack(S) == (S \ Switches) \cup t.prev
Restore ==
  /\ pc = "restore"
  /\ ilimit' = t.limit
  /\ Conclude(PutBack(on), t.battery)
  /\ UNCHANGED <<cell, volt>>

Test == \/ ddi_power_IsBatteryConnected \/ FirstReading \/ SecondReading \/ TurnOnCharger
        \/ ReadStart \/ CheckThreshold \/ CheckTimeout \/ Restore

TestInit ==
  /\ cell \in {"battery", "none"} /\ volt \in 0 .. TOP
  /\ now = 0 /\ lag = 0 /\ t = NoLocals
  /\ bBatteryConnected = FALSE /\ bBatteryConnectionTestComplete = FALSE

\* The variables of the test have their types.
TestTypeOK ==
  /\ cell \in {"battery", "none"} /\ volt \in 0 .. TOP
  /\ now \in 0 .. CLOCK - 1 /\ lag \in 0 .. RISE
  /\ t \in [load : BOOLEAN, start : 0 .. TOP, first : 0 .. TOP, prev : SUBSET Switches,
            limit : {0, 1}, time : 0 .. CLOCK - 1, seen : BOOLEAN, battery : BOOLEAN]
  /\ bBatteryConnected \in BOOLEAN /\ bBatteryConnectionTestComplete \in BOOLEAN
=============================================================================
