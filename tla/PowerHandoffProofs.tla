------------------------- MODULE PowerHandoffProofs -------------------------
(***************************************************************************)
(* Proofs about PowerHandoff and BatteryTest, for every voltage, threshold,*)
(* length of the test and width of the clock that TestAssumption allows,   *)
(* and any order of calls: the verdict on the battery, and what the driver *)
(* knows of the rail; and how far a step raises the limit of the rail, for *)
(* the currents that RampAssumption allows.                                *)
(***************************************************************************)
EXTENDS PowerHandoff, TLAPS

\* The thresholds, one by one.
LEMMA Thresholds ==
  /\ TOP \in Nat /\ MIN_BATT_VOLT \in Nat /\ MIN_OPEN_CIRC_VOLT \in Nat /\ STABLE \in Nat
  /\ DRIFT \in Nat /\ WAIT \in Nat /\ CLOCK \in Nat /\ GAP \in Nat /\ RISE \in Nat
  /\ DROP \in Nat
BY TestAssumption

-----------------------------------------------------------------------------
\* The clock's arithmetic.
LEMMA LaterIsLater ==
  ASSUME NEW s \in 0 .. CLOCK - 1, NEW a \in 0 .. CLOCK - 1, NEW d \in 0 .. GAP,
         Elapsed(a, s) + d < CLOCK
  PROVE  /\ Later(a, d) \in 0 .. CLOCK - 1
         /\ Elapsed(Later(a, d), s) = Elapsed(a, s) + d
BY TestAssumption DEF Later, Elapsed

LEMMA LaterInClock ==
  ASSUME NEW a \in 0 .. CLOCK - 1, NEW d \in 0 .. GAP
  PROVE  Later(a, d) \in 0 .. CLOCK - 1
BY TestAssumption DEF Later

LEMMA NoneElapsed ==
  ASSUME NEW a \in 0 .. CLOCK - 1
  PROVE  Elapsed(a, a) = 0
BY DEF Elapsed

-----------------------------------------------------------------------------
\* What is known at each place of the test, of a battery ...
BatterySeen ==
  cell = "battery" =>
    /\ pc \in {"first", "second"} => t.start = volt
    /\ pc \in {"clock", "threshold", "timeout", "restore"} => volt <= MIN_BATT_VOLT
    /\ pc = "timeout" => t.seen = FALSE
    /\ pc = "restore" => t.battery = TRUE

\* ... and of an open pin: as long as it has not risen no more time has passed than
\* the charger was on, and when it has, it is looked at before the time is over.
Passed == Elapsed(now, t.time)
OpenPinSeen ==
  cell = "none" =>
    /\ pc = "level" => volt = 0
    /\ pc \in {"threshold", "timeout"} /\ lag < RISE => Passed <= lag
    /\ pc \in {"threshold", "timeout"} /\ lag = RISE => volt = TOP
    /\ pc = "threshold" /\ lag = RISE => Passed <= RISE - 1 + 2 * GAP
    /\ pc = "timeout" /\ lag = RISE => Passed <= RISE - 1 + 3 * GAP
    /\ pc = "timeout" /\ lag = RISE /\ t.seen = FALSE => Passed <= RISE - 1 + GAP
    /\ pc = "restore" => t.battery = FALSE

\* Both, with what earlier tests have left behind.
ResultsRight ==
  /\ "CHRG_STS_OFF" \in on => cell = "none"
  /\ bBatteryConnectionTestComplete = TRUE => bBatteryConnected = (cell = "battery")

Loaded == /\ pc \in {"first", "second"} => "ENABLE_LOAD" \in on
          /\ pc = "second" => t.first = volt

VerdictInv ==
  /\ TestTypeOK /\ BatterySeen /\ OpenPinSeen
  /\ ResultsRight /\ Loaded /\ VerdictRight

-----------------------------------------------------------------------------
\* The end of the test with the right answer.
LEMMA ConcludeKeeps ==
  ASSUME VerdictInv, NEW S, "CHRG_STS_OFF" \in S => "CHRG_STS_OFF" \in on,
         NEW b \in BOOLEAN, b = (cell = "battery"), Conclude(S, b),
         volt' \in 0 .. TOP, cell' = cell
  PROVE  VerdictInv'
<1>1. TestTypeOK'
  <2>1. now' = 0 /\ lag' = 0 /\ t' = NoLocals
        /\ bBatteryConnected' = b /\ bBatteryConnectionTestComplete' = TRUE
    BY DEF Conclude
  <2>2. 0 \in 0 .. CLOCK - 1 /\ 0 \in 0 .. RISE /\ 0 \in 0 .. TOP
    BY TestAssumption
  <2> QED BY <2>1, <2>2 DEF VerdictInv, TestTypeOK, NoLocals
<1>2. pc' = "checked" /\ bBatteryConnected' = b
  BY DEF Conclude
<1>3. BatterySeen' /\ OpenPinSeen' /\ Loaded' /\ VerdictRight'
  BY <1>2 DEF BatterySeen, OpenPinSeen, Loaded, VerdictRight
<1>4. ResultsRight'
  <2>1. CASE cell = "battery"
    <3>1. on' = S \ {"CHRG_STS_OFF"}
      BY <2>1 DEF Conclude
    <3> QED BY <1>2, <2>1, <3>1 DEF ResultsRight
  <2>2. CASE cell = "none"
    BY <1>2, <2>2 DEF ResultsRight
  <2> QED BY <2>1, <2>2 DEF VerdictInv, TestTypeOK
<1> QED BY <1>1, <1>3, <1>4 DEF VerdictInv

LEMMA StartKeeps == VerdictInv /\ ddi_power_IsBatteryConnected => VerdictInv'
<1> SUFFICES ASSUME VerdictInv, ddi_power_IsBatteryConnected PROVE VerdictInv'
  OBVIOUS
<1>1. /\ TestTypeOK /\ ResultsRight
      /\ UNCHANGED <<cell, volt, now, lag, bBatteryConnectionTestComplete>>
  BY DEF VerdictInv, ddi_power_IsBatteryConnected
<1>2. CASE pc' = "first"
  <2>1. /\ on' = on \cup {"ENABLE_LOAD"} /\ bBatteryConnected' = bBatteryConnected
        /\ t' = [NoLocals EXCEPT !.load = "ENABLE_LOAD" \in on, !.start = volt]
    BY <1>2 DEF ddi_power_IsBatteryConnected
  <2>2. TestTypeOK'
    <3>1. \E b \in BOOLEAN : t' = [load |-> b, start |-> volt, first |-> 0, prev |-> {},
                                  limit |-> 0, time |-> 0, seen |-> FALSE, battery |-> FALSE]
      <4>1. CASE "ENABLE_LOAD" \in on
        <5>1. ("ENABLE_LOAD" \in on) = TRUE
          BY <4>1
        <5> QED BY <2>1, <5>1 DEF NoLocals
      <4>2. CASE "ENABLE_LOAD" \notin on
        <5>1. ("ENABLE_LOAD" \in on) = FALSE
          BY <4>2
        <5> QED BY <2>1, <5>1 DEF NoLocals
      <4> QED BY <4>1, <4>2
    <3>2. PICK b \in BOOLEAN :
            t' = [load |-> b, start |-> volt, first |-> 0, prev |-> {}, limit |-> 0,
                  time |-> 0, seen |-> FALSE, battery |-> FALSE]
      BY <3>1
    <3>3. 0 \in 0 .. TOP /\ 0 \in 0 .. CLOCK - 1 /\ {} \in SUBSET Switches
      BY TestAssumption
    <3>4. volt \in 0 .. TOP
      BY <1>1 DEF TestTypeOK
    <3>5. t' \in [load : BOOLEAN, start : 0 .. TOP, first : 0 .. TOP, prev : SUBSET Switches,
                  limit : {0, 1}, time : 0 .. CLOCK - 1, seen : BOOLEAN, battery : BOOLEAN]
      BY <3>2, <3>3, <3>4
    <3> QED BY <1>1, <2>1, <3>5 DEF TestTypeOK
  <2>3. BatterySeen' /\ OpenPinSeen' /\ Loaded' /\ VerdictRight'
    BY <1>1, <1>2, <2>1 DEF BatterySeen, OpenPinSeen, Loaded, VerdictRight, NoLocals
  <2>4. ResultsRight'
    BY <1>1, <2>1 DEF ResultsRight
  <2> QED BY <2>2, <2>3, <2>4 DEF VerdictInv
<1>3. CASE pc' = "checked"
  <2>1. /\ bBatteryConnectionTestComplete \/ "CHRG_STS_OFF" \in on
        /\ bBatteryConnected' = (bBatteryConnectionTestComplete /\ bBatteryConnected)
        /\ UNCHANGED <<on, t>>
    BY <1>3 DEF ddi_power_IsBatteryConnected
  <2>2. bBatteryConnected' = (cell = "battery")
    <3>1. CASE bBatteryConnectionTestComplete = TRUE
      BY <1>1, <2>1, <3>1 DEF ResultsRight
    <3>2. CASE bBatteryConnectionTestComplete = FALSE
      BY <1>1, <2>1, <3>2 DEF ResultsRight
    <3> QED BY <1>1, <3>1, <3>2 DEF TestTypeOK
  <2>3. TestTypeOK'
    BY <1>1, <2>1, <2>2 DEF TestTypeOK
  <2>4. BatterySeen' /\ OpenPinSeen' /\ Loaded' /\ VerdictRight'
    BY <1>1, <1>3, <2>2 DEF BatterySeen, OpenPinSeen, Loaded, VerdictRight
  <2>5. ResultsRight'
    BY <1>1, <2>1, <2>2 DEF ResultsRight
  <2> QED BY <2>3, <2>4, <2>5 DEF VerdictInv
<1> QED BY <1>2, <1>3 DEF ddi_power_IsBatteryConnected

LEMMA FirstReadingKeeps == VerdictInv /\ FirstReading => VerdictInv'
<1> SUFFICES ASSUME VerdictInv, FirstReading PROVE VerdictInv'
  OBVIOUS
<1>1. t' = [t EXCEPT !.first = volt] /\ TestTypeOK /\ pc = "first" /\ pc' = "second"
      /\ UNCHANGED <<on, ilimit, cell, volt, now, lag, Statics>>
  BY DEF FirstReading, VerdictInv
<1>2. TestTypeOK' /\ t'.start = t.start /\ t'.first = volt
  BY <1>1 DEF TestTypeOK, Statics
<1>3. BatterySeen' /\ OpenPinSeen' /\ Loaded' /\ VerdictRight'
  BY <1>1, <1>2 DEF VerdictInv, BatterySeen, OpenPinSeen, Loaded, VerdictRight
<1>4. ResultsRight'
  BY <1>1 DEF VerdictInv, ResultsRight, Statics
<1> QED BY <1>2, <1>3, <1>4 DEF VerdictInv

\* A battery holds its voltage; an open pin that seems to hold it is empty.
LEMMA SecondReadingKeeps == VerdictInv /\ SecondReading => VerdictInv'
<1> SUFFICES ASSUME VerdictInv, SecondReading PROVE VerdictInv'
  OBVIOUS
<1> DEFINE v == volt'
<1>1. /\ TestTypeOK /\ pc = "second" /\ cell' = cell /\ v \in Drained
      /\ "ENABLE_LOAD" \in on /\ t.first = volt
  BY DEF SecondReading, VerdictInv, Loaded
<1>2. /\ cell = "battery" => v = volt /\ t.start = volt
      /\ cell = "none" => v \in 0 .. volt /\ (v = 0 \/ v + DROP <= volt)
  BY <1>1 DEF Drained, VerdictInv, BatterySeen
<1>3. volt \in 0 .. TOP /\ v \in 0 .. TOP /\ cell \in {"battery", "none"}
  BY <1>1, <1>2, TestAssumption DEF TestTypeOK
<1>4. CASE Apart(t.start, v) > DRIFT
  <2>1. cell = "none"
    BY <1>2, <1>3, <1>4, TestAssumption DEF Apart
  <2>2. Conclude(on, FALSE)
    BY <1>4 DEF SecondReading
  <2> QED BY <1>1, <1>3, <2>1, <2>2, ConcludeKeeps
<1>5. CASE ~(Apart(t.start, v) > DRIFT) /\ Apart(t.first, v) < STABLE
  <2>1. /\ pc' = "level" /\ UNCHANGED <<now, lag, t, Statics>>
        /\ on' = on \/ on' = on \ {"ENABLE_LOAD"}
    BY <1>5 DEF SecondReading
  <2>2. cell = "none" => v = 0
    BY <1>1, <1>2, <1>3, <1>5, TestAssumption DEF Apart
  <2>3. TestTypeOK'
    BY <1>1, <1>3, <2>1 DEF TestTypeOK, Statics
  <2>4. BatterySeen' /\ OpenPinSeen' /\ Loaded' /\ VerdictRight'
    BY <1>1, <2>1, <2>2 DEF BatterySeen, OpenPinSeen, Loaded, VerdictRight
  <2>5. ResultsRight'
    BY <1>1, <2>1 DEF VerdictInv, ResultsRight, Statics
  <2> QED BY <2>3, <2>4, <2>5 DEF VerdictInv
<1>6. CASE ~(Apart(t.start, v) > DRIFT) /\ ~(Apart(t.first, v) < STABLE)
  <2>1. pc' = "first" /\ UNCHANGED <<on, now, lag, t, Statics>>
    BY <1>6 DEF SecondReading
  <2>2. TestTypeOK'
    BY <1>1, <1>3, <2>1 DEF TestTypeOK, Statics
  <2>3. BatterySeen' /\ OpenPinSeen' /\ Loaded' /\ VerdictRight'
    BY <1>1, <1>2, <2>1 DEF BatterySeen, OpenPinSeen, Loaded, VerdictRight
  <2>4. ResultsRight'
    BY <1>1, <2>1 DEF VerdictInv, ResultsRight, Statics
  <2> QED BY <2>2, <2>3, <2>4 DEF VerdictInv
<1> QED BY <1>4, <1>5, <1>6

LEMMA TurnOnKeeps == VerdictInv /\ TurnOnCharger => VerdictInv'
<1> SUFFICES ASSUME VerdictInv, TurnOnCharger PROVE VerdictInv'
  OBVIOUS
<1>1. TestTypeOK /\ pc = "level" /\ cell' = cell /\ volt' = volt /\ volt \in 0 .. TOP
  BY DEF TurnOnCharger, VerdictInv, TestTypeOK
<1>2. CASE volt > MIN_BATT_VOLT
  <2>1. Conclude(on, TRUE)
    <3>1. ~(volt <= MIN_BATT_VOLT)
      BY <1>1, <1>2, Thresholds
    <3> QED BY <3>1, Zenon DEF TurnOnCharger
  <2>2. cell = "battery"
    BY <1>1, <1>2, TestAssumption DEF VerdictInv, OpenPinSeen, TestTypeOK
  <2> QED BY <1>1, <2>1, <2>2, ConcludeKeeps
<1>3. CASE volt <= MIN_BATT_VOLT
  <2>1. /\ pc' = "clock" /\ lag' = 0 /\ now' \in 0 .. CLOCK - 1
        /\ t' = [t EXCEPT !.prev = on \cap Switches, !.limit = AsBool(ilimit)]
        /\ on' = (on \cup {"ENABLE_4P2"}) \ {"PWD_CHARGE_4P2", "PWD_BATTCHRG"}
        /\ UNCHANGED Statics
    <3>1. ~(volt > MIN_BATT_VOLT)
      BY <1>1, <1>3, Thresholds
    <3> QED BY <3>1, Zenon DEF TurnOnCharger
  <2>2. TestTypeOK'
    <3>1. AsBool(ilimit) \in {0, 1} /\ on \cap Switches \in SUBSET Switches /\ 0 \in 0 .. RISE
      BY TestAssumption DEF AsBool
    <3> QED BY <1>1, <2>1, <3>1 DEF TestTypeOK, Statics
  <2>3. BatterySeen' /\ OpenPinSeen' /\ Loaded' /\ VerdictRight'
    BY <1>1, <1>3, <2>1 DEF BatterySeen, OpenPinSeen, Loaded, VerdictRight
  <2>4. ResultsRight'
    BY <1>1, <2>1 DEF VerdictInv, ResultsRight, Statics
  <2> QED BY <2>2, <2>3, <2>4 DEF VerdictInv
<1> QED BY <1>1, <1>2, <1>3, TestAssumption

-----------------------------------------------------------------------------
\* What a passage of time makes of the locals' relation to clock and voltage.
LEMMA PassesTypes ==
  ASSUME TestTypeOK, NEW least \in 0 .. GAP, Passes(least)
  PROVE  /\ now' \in 0 .. CLOCK - 1 /\ lag' \in 0 .. RISE /\ volt' \in 0 .. TOP
         /\ cell' = cell
         /\ cell = "battery" => volt' = volt
         /\ cell = "none" => /\ volt = TOP => volt' = TOP
                             /\ lag' = RISE => volt' = TOP
<1> PICK d \in least .. GAP :
      /\ now' = Later(now, d)
      /\ lag' = IF lag + d > RISE THEN RISE ELSE lag + d
      /\ volt' \in (IF cell = "battery" THEN {volt}
                    ELSE IF lag' = RISE THEN {TOP} ELSE {volt, TOP})
      /\ cell' = cell
  BY DEF Passes
<1>1. d \in 0 .. GAP /\ now \in 0 .. CLOCK - 1 /\ lag \in 0 .. RISE /\ volt \in 0 .. TOP
      /\ TOP \in 0 .. TOP
  BY Thresholds DEF TestTypeOK
<1>2. now' \in 0 .. CLOCK - 1
  BY <1>1, LaterInClock
<1>3. lag' \in 0 .. RISE
  BY <1>1, Thresholds
<1> QED BY <1>1, <1>2, <1>3

\* The time since the reading s, whose bound is B where the pin may have risen.
LEMMA PassesTime ==
  ASSUME TestTypeOK, NEW least \in 0 .. GAP, Passes(least),
         NEW s \in 0 .. CLOCK - 1, NEW B \in Nat, B + GAP <= WAIT,
         lag < RISE => Elapsed(now, s) <= lag,
         Elapsed(now, s) <= B
  PROVE  \A E : E = Elapsed(now, s)' =>
           /\ E \in Nat /\ E <= B + GAP
           /\ lag < RISE /\ lag' < RISE => \A k : k = lag' => E <= k
           /\ lag < RISE => E <= RISE - 1 + GAP
<1> PICK d \in least .. GAP :
      /\ now' = Later(now, d)
      /\ lag' = IF lag + d > RISE THEN RISE ELSE lag + d
  BY DEF Passes
<1>1. d \in 0 .. GAP /\ now \in 0 .. CLOCK - 1 /\ lag \in 0 .. RISE
  BY Thresholds DEF TestTypeOK
<1>2. Elapsed(now, s) \in Nat
  BY <1>1, Thresholds DEF Elapsed
<1>3. Elapsed(now, s) + d < CLOCK
  BY <1>1, <1>2, TestAssumption, Thresholds
<1>4. Elapsed(Later(now, d), s) = Elapsed(now, s) + d
  BY <1>1, <1>3, LaterIsLater
<1> SUFFICES ASSUME NEW E, E = Elapsed(now, s)'
             PROVE  /\ E \in Nat /\ E <= B + GAP
                    /\ lag < RISE /\ lag' < RISE => \A k : k = lag' => E <= k
                    /\ lag < RISE => E <= RISE - 1 + GAP
  OBVIOUS
<1>5. E = Elapsed(now, s) + d
  BY <1>4 DEF Elapsed
<1>6. PICK k : k = lag'
  OBVIOUS
<1>7. lag < RISE /\ k < RISE => k = lag + d
  BY <1>1, <1>6, Thresholds
<1> QED BY <1>1, <1>2, <1>5, <1>6, <1>7, Thresholds

LEMMA ReadStartKeeps == VerdictInv /\ ReadStart => VerdictInv'
<1> SUFFICES ASSUME VerdictInv, ReadStart PROVE VerdictInv'
  OBVIOUS
<1>1. /\ TestTypeOK /\ pc = "clock" /\ pc' = "threshold" /\ Passes(0)
      /\ t' = [t EXCEPT !.time = now] /\ UNCHANGED <<on, ilimit, Statics>>
  BY DEF ReadStart, VerdictInv
<1>2. /\ now' \in 0 .. CLOCK - 1 /\ lag' \in 0 .. RISE /\ volt' \in 0 .. TOP
      /\ cell' = cell
      /\ cell = "battery" => volt' = volt
      /\ cell = "none" => (lag' = RISE => volt' = TOP)
  BY <1>1, PassesTypes, Thresholds
<1>3. TestTypeOK' /\ t'.time = now /\ now \in 0 .. CLOCK - 1
  BY <1>1, <1>2 DEF TestTypeOK, Statics
<1>4. BatterySeen' /\ Loaded' /\ VerdictRight'
  BY <1>1, <1>2 DEF VerdictInv, BatterySeen, Loaded, VerdictRight
<1>6. PICK E : E = Passed'
  OBVIOUS
<1>7. /\ E <= RISE - 1 + 2 * GAP
      /\ lag' < RISE => \A k : k = lag' => E <= k
  <2> PICK d \in 0 .. GAP :
        /\ now' = Later(now, d)
        /\ lag' = IF lag + d > RISE THEN RISE ELSE lag + d
    BY <1>1 DEF Passes
  <2>1. Elapsed(now, now) = 0 /\ 0 + d < CLOCK /\ lag \in Nat
    BY <1>1, <1>3, NoneElapsed, TestAssumption, Thresholds DEF TestTypeOK
  <2>2. Elapsed(Later(now, d), now) = d
    BY <1>3, <2>1, LaterIsLater
  <2>3. E = d
    BY <1>3, <1>6, <2>2 DEF Passed
  <2>4. PICK k : k = lag'
    OBVIOUS
  <2>5. k < RISE => d <= k
    BY <2>1, <2>4, Thresholds
  <2> QED BY <2>3, <2>4, <2>5, TestAssumption, Thresholds
<1>8. OpenPinSeen'
  BY <1>1, <1>2, <1>6, <1>7 DEF OpenPinSeen
<1>9. ResultsRight'
  BY <1>1, <1>2 DEF VerdictInv, ResultsRight, Statics
<1> QED BY <1>3, <1>4, <1>8, <1>9 DEF VerdictInv

LEMMA CheckThresholdKeeps == VerdictInv /\ CheckThreshold => VerdictInv'
<1> SUFFICES ASSUME VerdictInv, CheckThreshold PROVE VerdictInv'
  OBVIOUS
<1>1. /\ TestTypeOK /\ pc = "threshold" /\ pc' = "timeout" /\ Passes(0)
      /\ t' = [t EXCEPT !.seen = volt > MIN_OPEN_CIRC_VOLT]
      /\ UNCHANGED <<on, ilimit, Statics>>
  BY DEF CheckThreshold, VerdictInv
<1>2. /\ now' \in 0 .. CLOCK - 1 /\ lag' \in 0 .. RISE /\ volt' \in 0 .. TOP
      /\ cell' = cell
      /\ cell = "battery" => volt' = volt
      /\ cell = "none" => /\ volt = TOP => volt' = TOP
                          /\ lag' = RISE => volt' = TOP
  BY <1>1, PassesTypes, Thresholds
<1>3. /\ volt > MIN_OPEN_CIRC_VOLT => t' = [t EXCEPT !.seen = TRUE]
      /\ ~(volt > MIN_OPEN_CIRC_VOLT) => t' = [t EXCEPT !.seen = FALSE]
  <2>1. CASE volt > MIN_OPEN_CIRC_VOLT
    <3>1. (volt > MIN_OPEN_CIRC_VOLT) = TRUE
      BY <2>1
    <3> QED BY <1>1, <2>1, <3>1
  <2>2. CASE ~(volt > MIN_OPEN_CIRC_VOLT)
    <3>1. (volt > MIN_OPEN_CIRC_VOLT) = FALSE
      BY <2>2
    <3> QED BY <1>1, <2>2, <3>1
  <2> QED BY <2>1, <2>2
<1>4. /\ t' \in [load : BOOLEAN, start : 0 .. TOP, first : 0 .. TOP, prev : SUBSET Switches,
                 limit : {0, 1}, time : 0 .. CLOCK - 1, seen : BOOLEAN, battery : BOOLEAN]
      /\ t'.time = t.time /\ t.time \in 0 .. CLOCK - 1
      /\ volt > MIN_OPEN_CIRC_VOLT => t'.seen = TRUE
      /\ ~(volt > MIN_OPEN_CIRC_VOLT) => t'.seen = FALSE
  <2>1. t \in [load : BOOLEAN, start : 0 .. TOP, first : 0 .. TOP, prev : SUBSET Switches,
               limit : {0, 1}, time : 0 .. CLOCK - 1, seen : BOOLEAN, battery : BOOLEAN]
    BY <1>1 DEF TestTypeOK
  <2> QED BY <1>3, <2>1
<1>5. TestTypeOK'
  BY <1>1, <1>2, <1>4 DEF TestTypeOK, Statics
<1>6. BatterySeen' /\ Loaded' /\ VerdictRight'
  <2>1. volt \in Nat /\ (cell = "battery" => volt <= MIN_BATT_VOLT)
    BY <1>1, Thresholds DEF VerdictInv, BatterySeen, TestTypeOK
  <2>2. cell = "battery" => ~(volt > MIN_OPEN_CIRC_VOLT)
    BY <2>1, TestAssumption, Thresholds
  <2> QED BY <1>1, <1>2, <1>4, <2>1, <2>2 DEF BatterySeen, Loaded, VerdictRight
<1>7. OpenPinSeen'
  <2> SUFFICES ASSUME cell = "none"
               PROVE  OpenPinSeen'
    BY <1>2 DEF OpenPinSeen
  <2>1. /\ lag < RISE => Elapsed(now, t.time) <= lag
        /\ lag = RISE => volt = TOP /\ Elapsed(now, t.time) <= RISE - 1 + 2 * GAP
        /\ lag \in 0 .. RISE /\ now \in 0 .. CLOCK - 1
    BY <1>1 DEF VerdictInv, OpenPinSeen, Passed, TestTypeOK
  <2>2. Elapsed(now, t.time) \in Nat
    BY <1>4, <2>1, Thresholds DEF Elapsed
  <2>3. PICK E : E = Elapsed(now, t.time)'
    OBVIOUS
  <2>4. PICK k : k = lag'
    OBVIOUS
  <2>5. PICK s : s = t.time
    OBVIOUS
  <2>6. E = Elapsed(now, s)' /\ Passed' = E
    BY <1>4, <2>3, <2>5 DEF Elapsed, Passed
  <2>7. CASE lag < RISE
    <3>1. Elapsed(now, s) <= RISE - 1 /\ RISE - 1 \in Nat /\ RISE - 1 + GAP <= WAIT
      BY <2>1, <2>2, <2>5, <2>7, TestAssumption, Thresholds
    <3>2. /\ k < RISE => E <= k
          /\ E \in Nat /\ E <= RISE - 1 + GAP
      BY <1>1, <1>4, <2>1, <2>4, <2>5, <2>6, <2>7, <3>1, PassesTime, Thresholds
    <3>3. E <= RISE - 1 + 3 * GAP
      BY <3>2, Thresholds
    <3> QED BY <1>1, <1>2, <2>4, <2>6, <3>2, <3>3 DEF OpenPinSeen
  <2>8. CASE lag = RISE
    <3>1. /\ Elapsed(now, s) <= RISE - 1 + 2 * GAP /\ RISE - 1 + 2 * GAP \in Nat
          /\ RISE - 1 + 2 * GAP + GAP <= WAIT
      BY <2>1, <2>2, <2>5, <2>8, TestAssumption, Thresholds
    <3>2. E \in Nat /\ E <= RISE - 1 + 2 * GAP + GAP
      BY <1>1, <1>4, <2>1, <2>4, <2>5, <2>6, <2>8, <3>1, PassesTime, Thresholds
    <3>3. E <= RISE - 1 + 3 * GAP
      BY <3>2, Thresholds
    <3>4. k = RISE
      BY <1>1, <2>1, <2>4, <2>8, Thresholds DEF Passes
    <3>5. t'.seen = TRUE
      BY <1>4, <2>1, <2>8, TestAssumption, Thresholds
    <3> QED BY <1>1, <1>2, <2>4, <2>6, <3>3, <3>4, <3>5, Thresholds DEF OpenPinSeen
  <2> QED BY <2>1, <2>7, <2>8, Thresholds
<1>8. ResultsRight'
  BY <1>1, <1>2 DEF VerdictInv, ResultsRight, Statics
<1> QED BY <1>5, <1>6, <1>7, <1>8 DEF VerdictInv

LEMMA CheckTimeoutKeeps == VerdictInv /\ CheckTimeout => VerdictInv'
<1> SUFFICES ASSUME VerdictInv, CheckTimeout PROVE VerdictInv'
  OBVIOUS
<1>1. /\ TestTypeOK /\ pc = "timeout" /\ pc' \in {"restore", "threshold"} /\ Passes(1)
      /\ t' = [t EXCEPT !.battery = TimedOut(t.time)]
      /\ UNCHANGED <<on, ilimit, Statics>>
  BY DEF CheckTimeout, VerdictInv
<1>2. 1 \in 0 .. GAP
  BY TestAssumption, Thresholds
<1>3. /\ now' \in 0 .. CLOCK - 1 /\ lag' \in 0 .. RISE /\ volt' \in 0 .. TOP
      /\ cell' = cell
      /\ cell = "battery" => volt' = volt
      /\ cell = "none" => /\ volt = TOP => volt' = TOP
                          /\ lag' = RISE => volt' = TOP
  BY <1>1, <1>2, PassesTypes
<1>4. /\ TimedOut(t.time) => t' = [t EXCEPT !.battery = TRUE]
      /\ ~TimedOut(t.time) => t' = [t EXCEPT !.battery = FALSE]
  <2>1. CASE TimedOut(t.time)
    <3>1. TimedOut(t.time) = TRUE
      BY <2>1 DEF TimedOut
    <3> QED BY <1>1, <2>1, <3>1
  <2>2. CASE ~TimedOut(t.time)
    <3>1. TimedOut(t.time) = FALSE
      BY <2>2 DEF TimedOut
    <3> QED BY <1>1, <2>2, <3>1
  <2> QED BY <2>1, <2>2
<1>5. /\ t' \in [load : BOOLEAN, start : 0 .. TOP, first : 0 .. TOP, prev : SUBSET Switches,
                 limit : {0, 1}, time : 0 .. CLOCK - 1, seen : BOOLEAN, battery : BOOLEAN]
      /\ t'.time = t.time /\ t.time \in 0 .. CLOCK - 1
      /\ t.seen \in BOOLEAN
      /\ TimedOut(t.time) => t'.battery = TRUE
      /\ ~TimedOut(t.time) => t'.battery = FALSE
  <2>1. t \in [load : BOOLEAN, start : 0 .. TOP, first : 0 .. TOP, prev : SUBSET Switches,
               limit : {0, 1}, time : 0 .. CLOCK - 1, seen : BOOLEAN, battery : BOOLEAN]
    BY <1>1 DEF TestTypeOK
  <2> QED BY <1>4, <2>1
<1>6. TestTypeOK'
  BY <1>1, <1>3, <1>5 DEF TestTypeOK, Statics
<1>7. /\ pc' = "restore" => t.seen = TRUE \/ TimedOut(t.time)
      /\ pc' = "threshold" => t.seen = FALSE /\ ~TimedOut(t.time)
  <2>1. CASE t.seen = TRUE
    BY <2>1 DEF CheckTimeout
  <2>2. CASE t.seen = FALSE
    BY <2>2 DEF CheckTimeout
  <2> QED BY <1>5, <2>1, <2>2
<1>8. BatterySeen' /\ Loaded' /\ VerdictRight'
  BY <1>1, <1>3, <1>5, <1>7 DEF VerdictInv, BatterySeen, Loaded, VerdictRight
<1>9. OpenPinSeen'
  <2> SUFFICES ASSUME cell = "none"
               PROVE  OpenPinSeen'
    BY <1>3 DEF OpenPinSeen
  <2>1. /\ lag < RISE => Elapsed(now, t.time) <= lag
        /\ lag = RISE => volt = TOP /\ Elapsed(now, t.time) <= RISE - 1 + 3 * GAP
        /\ lag = RISE /\ t.seen = FALSE => Elapsed(now, t.time) <= RISE - 1 + GAP
        /\ lag \in 0 .. RISE /\ now \in 0 .. CLOCK - 1
    BY <1>1 DEF VerdictInv, OpenPinSeen, Passed, TestTypeOK
  <2>2. Elapsed(now, t.time) \in Nat
    BY <1>5, <2>1, Thresholds DEF Elapsed
  <2>3. ~TimedOut(t.time)
    BY <2>1, <2>2, TestAssumption, Thresholds DEF TimedOut
  <2>4. CASE pc' = "restore"
    BY <1>3, <1>5, <2>3, <2>4 DEF OpenPinSeen
  <2>5. CASE pc' = "threshold"
    <3>1. PICK E : E = Elapsed(now, t.time)'
      OBVIOUS
    <3>2. PICK k : k = lag'
      OBVIOUS
    <3>3. PICK s : s = t.time
      OBVIOUS
    <3>4. E = Elapsed(now, s)' /\ Passed' = E
      BY <1>5, <3>1, <3>3 DEF Elapsed, Passed
    <3>5. PICK B \in Nat : B = IF lag < RISE THEN RISE - 1 ELSE RISE - 1 + GAP
      BY <2>1, TestAssumption, Thresholds
    <3>6. Elapsed(now, s) <= B /\ B + GAP <= WAIT /\ B + GAP <= RISE - 1 + 2 * GAP
      BY <1>7, <2>1, <2>2, <2>5, <3>3, <3>5, TestAssumption, Thresholds
    <3>7. /\ E <= B + GAP /\ E \in Nat
          /\ lag < RISE /\ k < RISE => E <= k
      BY <1>1, <1>2, <1>5, <2>1, <3>2, <3>3, <3>4, <3>6, PassesTime
    <3>8. E <= RISE - 1 + 2 * GAP
      BY <3>5, <3>6, <3>7, Thresholds
    <3>9. k < RISE => E <= k
      <4>1. lag = RISE => k = RISE
        BY <1>1, <2>1, <3>2, Thresholds DEF Passes
      <4> QED BY <2>1, <3>7, <4>1, Thresholds
    <3> QED BY <1>3, <2>5, <3>2, <3>4, <3>8, <3>9 DEF OpenPinSeen
  <2> QED BY <1>1, <2>4, <2>5
<1>10. ResultsRight'
  BY <1>1, <1>3 DEF VerdictInv, ResultsRight, Statics
<1> QED BY <1>6, <1>8, <1>9, <1>10 DEF VerdictInv

LEMMA RestoreKeeps == VerdictInv /\ Restore => VerdictInv'
<1> SUFFICES ASSUME VerdictInv, Restore PROVE VerdictInv'
  OBVIOUS
<1>1. /\ Conclude(PutBack(on), t.battery) /\ pc = "restore"
      /\ volt' = volt /\ cell' = cell /\ TestTypeOK
  BY DEF Restore, VerdictInv
<1>2. t.battery \in BOOLEAN /\ volt \in 0 .. TOP /\ cell \in {"battery", "none"}
      /\ t.prev \in SUBSET Switches
  BY <1>1 DEF TestTypeOK
<1>3. t.battery = (cell = "battery")
  <2>1. CASE cell = "battery"
    BY <1>1, <2>1 DEF VerdictInv, BatterySeen
  <2>2. CASE cell = "none"
    BY <1>1, <2>2 DEF VerdictInv, OpenPinSeen
  <2> QED BY <1>2, <2>1, <2>2
<1>4. "CHRG_STS_OFF" \in PutBack(on) => "CHRG_STS_OFF" \in on
  BY <1>2 DEF PutBack, Switches
<1> QED BY <1>1, <1>2, <1>3, <1>4, ConcludeKeeps

LEMMA TestKeeps == VerdictInv /\ Test => VerdictInv'
BY StartKeeps, FirstReadingKeeps, SecondReadingKeeps, TurnOnKeeps, ReadStartKeeps,
   CheckThresholdKeeps, CheckTimeoutKeeps, RestoreKeeps DEF Test

-----------------------------------------------------------------------------
\* The other steps: they end outside the test or leave its place and load alone.
LEMMA OutsideKeeps ==
  ASSUME VerdictInv, UNCHANGED testOnly,
         "CHRG_STS_OFF" \in on' => "CHRG_STS_OFF" \in on,
         \/ pc' \notin TestPlaces \cup {"checked"}
         \/ pc' = pc /\ ("ENABLE_LOAD" \in on => "ENABLE_LOAD" \in on')
  PROVE  VerdictInv'
<1>1. TestTypeOK'
  BY DEF VerdictInv, TestTypeOK, testOnly, Statics
<1>2. ResultsRight'
  BY DEF VerdictInv, ResultsRight, testOnly, Statics
<1>3. CASE pc' \notin TestPlaces \cup {"checked"}
  BY <1>1, <1>2, <1>3
     DEF VerdictInv, BatterySeen, OpenPinSeen, Loaded, VerdictRight, TestPlaces
<1>4. CASE pc' = pc /\ ("ENABLE_LOAD" \in on => "ENABLE_LOAD" \in on')
  <2>1. BatterySeen' /\ Loaded' /\ VerdictRight'
    BY <1>4 DEF VerdictInv, BatterySeen, Loaded, VerdictRight, testOnly, Statics
  <2>2. Passed' = Passed
    BY DEF Passed, testOnly, Elapsed
  <2>3. OpenPinSeen'
    BY <1>4, <2>2 DEF VerdictInv, OpenPinSeen, testOnly
  <2> QED BY <1>1, <1>2, <2>1, <2>3 DEF VerdictInv
<1> QED BY <1>3, <1>4

\* The register helpers leave the result of the test as it is.
LEMMA BrownoutKeepsResult ==
  ASSUME NEW S, NEW e
  PROVE  "CHRG_STS_OFF" \in Brownout5v(S, e) <=> "CHRG_STS_OFF" \in S
BY DEF Brownout5v

LEMMA OffKeepsResult ==
  ASSUME NEW S
  PROVE  /\ "CHRG_STS_OFF" \in Unguarded(S) <=> "CHRG_STS_OFF" \in S
         /\ "CHRG_STS_OFF" \in InputOff(S) <=> "CHRG_STS_OFF" \in S
BY BrownoutKeepsResult DEF Unguarded, InputOff

LEMMA OnKeepsResult ==
  ASSUME NEW S, NEW b, b # "CHRG_STS_OFF"
  PROVE  "CHRG_STS_OFF" \in SwitchedOn(S, b) <=> "CHRG_STS_OFF" \in S
BY BrownoutKeepsResult DEF SwitchedOn

LEMMA MasterKeepsResult ==
  ASSUME NEW S, NEW c, NEW r
  PROVE  "CHRG_STS_OFF" \in MasterSwitch(S, c, r) <=> "CHRG_STS_OFF" \in S
BY DEF MasterSwitch

LEMMA EnableDcdcKeepsResult ==
  ASSUME EnableDcdc PROVE "CHRG_STS_OFF" \in on' => "CHRG_STS_OFF" \in on
<1>1. \/ on' = Unguarded(on)
      \/ on' = SwitchedOn(on, "ENABLE_DCDC") \ {"DCDC_XFER"}
  BY DEF EnableDcdc
<1>2. "CHRG_STS_OFF" \in SwitchedOn(on, "ENABLE_DCDC") <=> "CHRG_STS_OFF" \in on
  BY OnKeepsResult
<1> QED BY <1>1, <1>2, OffKeepsResult

LEMMA CallersKeep == VerdictInv /\ Callers => VerdictInv'
<1> SUFFICES ASSUME VerdictInv, Callers PROVE VerdictInv'
  OBVIOUS
<1>1. CASE ddi_power_Enable4p2
  BY <1>1, OutsideKeeps DEF ddi_power_Enable4p2, Goto, TestPlaces
<1>2. CASE ddi_power_Disable4p2
  BY <1>2, OutsideKeeps DEF ddi_power_Disable4p2, Goto, TestPlaces
<1>3. CASE hw_power_EnableMasterCharge
  <2>1. UNCHANGED testOnly /\ pc' = "idle"
    BY <1>3 DEF hw_power_EnableMasterCharge, Goto
  <2>2. \E enable \in BOOLEAN : on' = MasterSwitch(on, enable, bEnableMaster4p2)
    BY <1>3, Zenon DEF hw_power_EnableMasterCharge
  <2>3. "CHRG_STS_OFF" \in on' => "CHRG_STS_OFF" \in on
    BY <2>2, MasterKeepsResult
  <2> QED BY <2>1, <2>3, OutsideKeeps DEF TestPlaces
<1>4. CASE ddi_power_Enable5VoltsToBatteryHandoff
  <2> DEFINE S == on \cup {"DCDC_XFER"}
             B == Brownout5v(S, FALSE)
  <2>1. /\ UNCHANGED testOnly /\ pc' = "idle"
        /\ on' = on \cup {"ENIRQ_VDD5V_DROOP"} \/ on' = B
    BY <1>4 DEF ddi_power_Enable5VoltsToBatteryHandoff, Goto
  <2>2. "CHRG_STS_OFF" \in B <=> "CHRG_STS_OFF" \in S
    BY BrownoutKeepsResult
  <2>3. "CHRG_STS_OFF" \in S => "CHRG_STS_OFF" \in on
    OBVIOUS
  <2>4. "CHRG_STS_OFF" \in on' => "CHRG_STS_OFF" \in on
    <3> HIDE DEF B
    <3> QED BY <2>1, <2>2, <2>3
  <2> QED BY <2>1, <2>4, OutsideKeeps DEF TestPlaces
<1>5. CASE ddi_power_EnableBatteryTo5VoltsHandoff
  BY <1>5, OutsideKeeps, EnableDcdcKeepsResult
     DEF ddi_power_EnableBatteryTo5VoltsHandoff, Goto, TestPlaces
<1>6. CASE ddi_power_ExecuteBatteryTo5VoltsHandoff
  BY <1>6, OutsideKeeps, BrownoutKeepsResult
     DEF ddi_power_ExecuteBatteryTo5VoltsHandoff, Goto, TestPlaces
<1>7. CASE ddi_power_Init
  <2>1. UNCHANGED testOnly /\ pc' \in {"supplies", "check"} /\ on' = on \ {"DCDC_XFER"}
    BY <1>7 DEF ddi_power_Init, Goto
  <2> QED BY <2>1, OutsideKeeps DEF TestPlaces
<1>8. CASE NextApplication
  <2>1. /\ pc' = "boot" /\ UNCHANGED <<on, cell, volt, now, lag, t>>
        /\ bBatteryConnected' = FALSE /\ bBatteryConnectionTestComplete' = FALSE
    BY <1>8 DEF NextApplication, Goto
  <2>2. TestTypeOK' /\ ResultsRight'
    BY <2>1 DEF VerdictInv, TestTypeOK, ResultsRight
  <2> QED BY <2>1, <2>2 DEF VerdictInv, BatterySeen, OpenPinSeen, Loaded, VerdictRight
<1> QED
  BY <1>1, <1>2, <1>3, <1>4, <1>5, <1>6, <1>7, <1>8 DEF Callers

LEMMA ProgramKeeps == VerdictInv /\ Program => VerdictInv'
<1> SUFFICES ASSUME VerdictInv, Program PROVE VerdictInv'
  OBVIOUS
<1> USE DEF Goto, TestPlaces
<1>1. CASE Test
  BY <1>1, TestKeeps
<1>2. CASE BatteryChecked \/ KeepSupply \/ hw_power_Init4p2EnabledPowerSupply
  <2>1. UNCHANGED <<testOnly, on>> /\ pc' \in {"supplies", "finish", "enable"}
    BY <1>2 DEF BatteryChecked, KeepSupply, hw_power_Init4p2EnabledPowerSupply
  <2> QED BY <2>1, OutsideKeeps
<1>3. CASE hw_power_InitPowerSupplies
  BY <1>3, OutsideKeeps DEF hw_power_InitPowerSupplies
<1>4. CASE InitOnBattery \/ ConverterOn
  BY <1>4, OutsideKeeps, EnableDcdcKeepsResult DEF InitOnBattery, ConverterOn
<1>5. CASE InitFinished
  BY <1>5, OutsideKeeps DEF InitFinished
<1>6. CASE PrepareToStart4p2
  <2>1. UNCHANGED <<testOnly, on>> /\ pc' \in {"start", "finish", "idle"}
    BY <1>6 DEF PrepareToStart4p2, Started
  <2> QED BY <2>1, OutsideKeeps
<1>7. CASE ddi_power_Start4p2
  <2>1. /\ UNCHANGED testOnly /\ pc' \in {"input", "finish", "idle"}
        /\ on' \in {on, on \cup {"ENABLE_4P2", "ENABLE_LOAD"}}
    BY <1>7 DEF ddi_power_Start4p2, Started
  <2> QED BY <2>1, OutsideKeeps
<1>8. CASE InputOn
  <2>1. UNCHANGED testOnly /\ pc' = "master" /\ on' = SwitchedOn(on, "DCDC4P2")
    BY <1>8 DEF InputOn
  <2>2. "CHRG_STS_OFF" \in on' <=> "CHRG_STS_OFF" \in on
    BY <2>1, OnKeepsResult
  <2> QED BY <2>1, <2>2, OutsideKeeps
<1>9. CASE MasterOn
  BY <1>9, OutsideKeeps, MasterKeepsResult
     DEF MasterOn
<1>10. CASE FirstLimit \/ CapRound \/ CapWaited \/ CapCharged \/ Ramp
  <2>1. UNCHANGED <<testOnly, on>> /\ pc' \in {"cap", "cap wait", "stop", "ramp"}
    BY <1>10 DEF FirstLimit, CapRound, CapWaited, CapCharged, Ramp
  <2> QED BY <2>1, OutsideKeeps
<1>11. CASE RailOn
  BY <1>11, OutsideKeeps DEF RailOn
<1>12. CASE LoadOff
  <2>1. UNCHANGED testOnly /\ pc' \in {"finish", "idle"} /\ on' = on \ {"ENABLE_LOAD"}
    BY <1>12 DEF LoadOff, Started
  <2> QED BY <2>1, OutsideKeeps
<1>13. CASE StopRail \/ StopInput
  BY <1>13, OutsideKeeps, OffKeepsResult
     DEF StopRail, StopInput
<1>14. CASE StopMaster
  <2>1. /\ UNCHANGED testOnly /\ pc' \in {"finish", "idle"}
        /\ on' = MasterSwitch(on, bEnableMasterCharge, FALSE)
    BY <1>14 DEF StopMaster, Started
  <2> QED BY <2>1, OutsideKeeps, MasterKeepsResult
<1>15. CASE ConverterOff
  BY <1>15, OutsideKeeps, OffKeepsResult
     DEF ConverterOff
<1> QED
  BY <1>1, <1>2, <1>3, <1>4, <1>5, <1>6, <1>7, <1>8, <1>9, <1>10, <1>11, <1>12, <1>13,
     <1>14, <1>15 DEF Program

LEMMA HardwareKeeps == VerdictInv /\ Hardware => VerdictInv'
<1> SUFFICES ASSUME VerdictInv, Hardware PROVE VerdictInv'
  OBVIOUS
<1>1. UNCHANGED testOnly /\ pc' \in {"off", pc} /\ on' \in {on, on \ {"DCDC4P2"}}
  BY DEF Hardware, Supply5v, PoweredDown
<1> QED BY <1>1, OutsideKeeps DEF TestPlaces

\* The verdict is right with what the test knows at each of its places.
THEOREM VerdictInvariant == Spec => []VerdictInv
<1>1. Init => VerdictInv
  <2> SUFFICES ASSUME Init PROVE VerdictInv
    OBVIOUS
  <2>1. /\ pc = "boot" /\ TestInit /\ "CHRG_STS_OFF" \notin on
    BY DEF Init, RailBits, GuardBits, BatteryBits
  <2>2. TestTypeOK
    <3>1. 0 \in 0 .. CLOCK - 1 /\ 0 \in 0 .. RISE /\ 0 \in 0 .. TOP /\ {} \in SUBSET Switches
      BY TestAssumption
    <3> QED BY <2>1, <3>1 DEF TestInit, TestTypeOK, NoLocals
  <2>3. bBatteryConnectionTestComplete = FALSE
    BY <2>1 DEF TestInit
  <2> QED BY <2>1, <2>2, <2>3
     DEF VerdictInv, BatterySeen, OpenPinSeen, ResultsRight, Loaded, VerdictRight
<1>2. VerdictInv /\ [Next]_vars => VerdictInv'
  <2> SUFFICES ASSUME VerdictInv, [Next]_vars PROVE VerdictInv'
    OBVIOUS
  <2>1. CASE Next
    BY <2>1, CallersKeep, ProgramKeeps, HardwareKeeps DEF Next
  <2>2. CASE UNCHANGED vars
    BY <2>2, OutsideKeeps DEF vars
  <2> QED BY <2>1, <2>2
<1> QED BY <1>1, <1>2, PTL DEF Spec

\* The battery test tells a battery from an open pin for every voltage, every time at
\* which the pin rises and every value the clock starts from (ddi_power_handoff.c
\* 352-483).
THEOREM VerdictRightEver == Spec => []VerdictRight
<1>1. VerdictInv => VerdictRight
  BY DEF VerdictInv
<1> QED BY <1>1, VerdictInvariant, PTL

-----------------------------------------------------------------------------
\* What is known of the rail at each place: where the start, the stop and the test have
\* taken it away from what bEnableMaster4p2 says, and that the test remembers.
Charging == {"clock", "threshold", "timeout", "restore"}
Moving   == {"input", "master", "stop input", "stop master"}

FlagsTyped == /\ bEnableMasterCharge \in BOOLEAN /\ bEnableMaster4p2 \in BOOLEAN
              /\ bMasterFlagsInitialized \in BOOLEAN
FlagsRead ==
  /\ pc = "boot" => bMasterFlagsInitialized = FALSE
  /\ pc \notin {"boot", "off"} => bMasterFlagsInitialized = TRUE
Master == bEnableMasterCharge = TRUE \/ bEnableMaster4p2 = TRUE
Known  == bEnableMaster4p2 = TRUE <=> "ENABLE_4P2" \in on
RailAt ==
  /\ pc = "boot" => ("ENABLE_4P2" \in on => "PWD_CHARGE_4P2" \notin on)
  /\ pc \notin Charging \cup Moving \cup {"boot", "off"} => Known
  /\ pc \in {"input", "master"} => "ENABLE_4P2" \in on
  /\ pc \in {"stop input", "stop master"} => "ENABLE_4P2" \notin on
Remembered ==
  pc \in Charging =>
    /\ "ENABLE_4P2" \in on
    /\ bEnableMaster4p2 = TRUE <=> "ENABLE_4P2" \in t.prev
    /\ Master => "PWD_CHARGE_4P2" \notin t.prev
    /\ "DCDC4P2" \in on => "ENABLE_4P2" \in t.prev
SwitchOn  == Master => "PWD_CHARGE_4P2" \notin on
InputOnly == pc \notin {"stop input", "off"} /\ "DCDC4P2" \in on => "ENABLE_4P2" \in on

RailInv ==
  FlagsTyped /\ FlagsRead /\ RailAt /\ Remembered /\ SwitchOn /\ InputOnly

\* The steps that do not touch the rail: the converter, the loads, the limits.
LEMMA QuietKeeps ==
  ASSUME RailInv, UNCHANGED <<masters, bMasterFlagsInitialized>>,
         "ENABLE_4P2" \in on' <=> "ENABLE_4P2" \in on,
         "PWD_CHARGE_4P2" \in on' => "PWD_CHARGE_4P2" \in on,
         "DCDC4P2" \in on' => "DCDC4P2" \in on,
         \/ pc \notin Charging \cup Moving \cup {"boot", "off"}
            /\ pc' \notin Charging \cup Moving \cup {"boot"}
         \/ pc' \in Charging /\ pc \in Charging /\ t'.prev = t.prev
         \/ pc' = pc /\ t' = t
         \/ pc' = "off"
  PROVE  RailInv'
<1>1. FlagsTyped' /\ SwitchOn' /\ FlagsRead'
  BY DEF RailInv, FlagsTyped, FlagsRead, SwitchOn, Master, Charging, Moving, masters
<1>2. RailAt'
  BY DEF RailInv, RailAt, FlagsTyped, Known, Charging, Moving, masters
<1>3. Remembered' /\ InputOnly'
  BY DEF RailInv, Remembered, Master, InputOnly, Charging, Moving, masters
<1> QED BY <1>1, <1>2, <1>3 DEF RailInv

\* The register helpers on the bits of the rail.
LEMMA BrownoutKeepsRail ==
  ASSUME NEW S, NEW e, NEW b \in {"ENABLE_4P2", "PWD_CHARGE_4P2", "DCDC4P2"}
  PROVE  b \in Brownout5v(S, e) <=> b \in S
BY DEF Brownout5v

LEMMA UnguardedKeepsRail ==
  ASSUME NEW S, NEW b \in {"ENABLE_4P2", "PWD_CHARGE_4P2", "DCDC4P2"}
  PROVE  b \in Unguarded(S) <=> b \in S
<1> DEFINE B == Brownout5v(S, FALSE)
<1>1. b \in B <=> b \in S
  BY DEF Brownout5v
<1>2. Unguarded(S) = B \ {"ENIRQ_VDD5V_DROOP"}
  BY DEF Unguarded
<1> HIDE DEF B
<1> QED BY <1>1, <1>2

LEMMA EnableDcdcKeepsRail ==
  ASSUME EnableDcdc, NEW b \in {"ENABLE_4P2", "PWD_CHARGE_4P2", "DCDC4P2"}
  PROVE  b \in on' <=> b \in on
<1>1. CASE "ENABLE_DCDC" \in on
  <2>1. on' = Unguarded(on)
    BY <1>1 DEF EnableDcdc
  <2> QED BY <2>1, UnguardedKeepsRail
<1>2. CASE "ENABLE_DCDC" \notin on
  <2> DEFINE B == Brownout5v(on, "PWDN_5VBRNOUT" \in on)
  <2>1. on' = (B \cup {"ENABLE_DCDC"}) \ {"DCDC_XFER"}
    BY <1>2 DEF EnableDcdc, SwitchedOn
  <2>2. b \in B <=> b \in on
    BY BrownoutKeepsRail
  <2> HIDE DEF B
  <2> QED BY <2>1, <2>2
<1> QED BY <1>1, <1>2

-----------------------------------------------------------------------------
\* The test, on the rail.
LEMMA TestKeepsRail ==
  VerdictInv /\ RailInv /\ Test /\ UNCHANGED <<v5, driver>> => RailInv'
<1> SUFFICES ASSUME VerdictInv, RailInv, Test, UNCHANGED driver PROVE RailInv'
  OBVIOUS
<1>1. /\ UNCHANGED <<masters, bMasterFlagsInitialized>>
      /\ t \in [load : BOOLEAN, start : 0 .. TOP, first : 0 .. TOP, prev : SUBSET Switches,
                limit : {0, 1}, time : 0 .. CLOCK - 1, seen : BOOLEAN, battery : BOOLEAN]
  BY DEF driver, inits, VerdictInv, TestTypeOK
<1>2. CASE ddi_power_IsBatteryConnected
  <2>1. /\ pc = "check" /\ pc' \in {"first", "checked"}
        /\ on' \in {on, on \cup {"ENABLE_LOAD"}}
    BY <1>2 DEF ddi_power_IsBatteryConnected
  <2> QED BY <1>1, <2>1, QuietKeeps DEF Charging, Moving
<1>3. CASE FirstReading
  <2>1. pc = "first" /\ pc' = "second" /\ on' = on
    BY <1>3 DEF FirstReading
  <2> QED BY <1>1, <2>1, QuietKeeps DEF Charging, Moving
<1>4. CASE SecondReading
  <2>1. /\ pc = "second" /\ pc' \in {"first", "checked", "level"}
        /\ on' \in {on, on \ {"ENABLE_LOAD"}, on \cup {"CHRG_STS_OFF"}}
    BY <1>4 DEF SecondReading, Conclude
  <2> QED BY <1>1, <2>1, QuietKeeps DEF Charging, Moving
<1>5. CASE TurnOnCharger
  <2>1. pc = "level" /\ pc' \in {"checked", "clock"}
    BY <1>5 DEF TurnOnCharger, Conclude
  <2>2. CASE pc' = "checked"
    <3>1. on' = on \ {"CHRG_STS_OFF"}
      BY <1>5, <2>2 DEF TurnOnCharger, Conclude
    <3> QED BY <1>1, <2>1, <2>2, <3>1, QuietKeeps DEF Charging, Moving
  <2>3. CASE pc' = "clock"
    <3>1. /\ on' = (on \cup {"ENABLE_4P2"}) \ {"PWD_CHARGE_4P2", "PWD_BATTCHRG"}
          /\ t'.prev = on \cap Switches
      <4>1. /\ on' = (on \cup {"ENABLE_4P2"}) \ {"PWD_CHARGE_4P2", "PWD_BATTCHRG"}
            /\ t' = [t EXCEPT !.prev = on \cap Switches, !.limit = AsBool(ilimit)]
        BY <1>5, <2>3 DEF TurnOnCharger, Conclude
      <4> QED BY <1>1, <4>1
    <3>2. FlagsTyped' /\ FlagsRead' /\ SwitchOn' /\ RailAt' /\ InputOnly'
      BY <1>1, <2>1, <2>3, <3>1
         DEF RailInv, FlagsTyped, FlagsRead, SwitchOn, Master, RailAt, InputOnly, Charging,
             Moving, masters
    <3>3. Remembered'
      BY <1>1, <2>1, <2>3, <3>1
         DEF RailInv, Remembered, RailAt, Known, SwitchOn, Master, InputOnly, Charging, Moving,
             masters, Switches
    <3> QED BY <3>2, <3>3 DEF RailInv
  <2> QED BY <2>1, <2>2, <2>3
<1>6. CASE ReadStart \/ CheckThreshold \/ CheckTimeout
  <2>1. /\ pc \in Charging /\ pc' \in Charging /\ on' = on
        /\ \/ t' = [t EXCEPT !.time = now]
           \/ t' = [t EXCEPT !.seen = volt > MIN_OPEN_CIRC_VOLT]
           \/ t' = [t EXCEPT !.battery = TimedOut(t.time)]
    BY <1>6 DEF ReadStart, CheckThreshold, CheckTimeout, Charging
  <2>2. t'.prev = t.prev
    BY <1>1, <2>1
  <2> QED BY <1>1, <2>1, <2>2, QuietKeeps
<1>7. CASE Restore
  <2>1. /\ pc = "restore" /\ pc' = "checked"
        /\ \/ on' = PutBack(on) \ {"CHRG_STS_OFF"}
           \/ on' = PutBack(on) \cup {"CHRG_STS_OFF"}
    BY <1>7 DEF Restore, Conclude
  <2>2. /\ "ENABLE_4P2" \in on' <=> "ENABLE_4P2" \in t.prev
        /\ "PWD_CHARGE_4P2" \in on' <=> "PWD_CHARGE_4P2" \in t.prev
        /\ "DCDC4P2" \in on' => "DCDC4P2" \in on
    BY <1>1, <2>1 DEF PutBack, Switches
  <2>3. FlagsTyped' /\ FlagsRead' /\ RailAt' /\ Remembered'
    BY <1>1, <2>1, <2>2
       DEF RailInv, FlagsTyped, FlagsRead, RailAt, Known, Remembered, Charging, Moving, masters
  <2>4. SwitchOn' /\ InputOnly'
    BY <1>1, <2>1, <2>2
       DEF RailInv, Remembered, SwitchOn, Master, InputOnly, Charging, masters
  <2> QED BY <2>3, <2>4 DEF RailInv
<1> QED BY <1>2, <1>3, <1>4, <1>5, <1>6, <1>7 DEF Test

LEMMA CallersKeepRail == RailInv /\ Callers => RailInv'
<1> SUFFICES ASSUME RailInv, Callers PROVE RailInv'
  OBVIOUS
<1> USE DEF Charging, Moving, Goto
<1>1. CASE ddi_power_Enable4p2
  BY <1>1, QuietKeeps DEF ddi_power_Enable4p2, inits
<1>2. CASE ddi_power_Disable4p2
  BY <1>2, QuietKeeps DEF ddi_power_Disable4p2, inits
<1>3. CASE hw_power_EnableMasterCharge
  <2>1. /\ pc = "idle" /\ pc' = "idle" /\ bEnableMasterCharge' \in BOOLEAN
        /\ on' = MasterSwitch(on, bEnableMasterCharge', bEnableMaster4p2)
        /\ UNCHANGED <<t, bEnableMaster4p2, bMasterFlagsInitialized>>
    BY <1>3, Zenon DEF hw_power_EnableMasterCharge, testOnly, inits
  <2>2. /\ "ENABLE_4P2" \in on' <=> "ENABLE_4P2" \in on
        /\ "DCDC4P2" \in on' <=> "DCDC4P2" \in on
        /\ bEnableMasterCharge' = TRUE \/ bEnableMaster4p2 = TRUE => "PWD_CHARGE_4P2" \notin on'
    BY <2>1 DEF MasterSwitch
  <2>3. FlagsTyped' /\ FlagsRead' /\ SwitchOn'
    BY <2>1, <2>2 DEF RailInv, FlagsTyped, FlagsRead, SwitchOn, Master
  <2>4. RailAt' /\ Remembered' /\ InputOnly'
    BY <2>1, <2>2 DEF RailInv, RailAt, Known, Remembered, InputOnly
  <2> QED BY <2>3, <2>4 DEF RailInv
<1>4. CASE ddi_power_Enable5VoltsToBatteryHandoff
  <2> DEFINE S == on \cup {"DCDC_XFER"}
             B == Brownout5v(S, FALSE)
  <2>1. /\ pc = "idle" /\ pc' = "idle" /\ UNCHANGED <<t, masters, bMasterFlagsInitialized>>
        /\ on' = on \cup {"ENIRQ_VDD5V_DROOP"} \/ on' = B
    BY <1>4 DEF ddi_power_Enable5VoltsToBatteryHandoff, testOnly, driver, inits
  <2>2. \A b \in {"ENABLE_4P2", "PWD_CHARGE_4P2", "DCDC4P2"} : b \in B <=> b \in on
    <3>1. \A b \in {"ENABLE_4P2", "PWD_CHARGE_4P2", "DCDC4P2"} : b \in B <=> b \in S
      BY DEF Brownout5v
    <3> HIDE DEF B
    <3> QED BY <3>1
  <2>3. \A b \in {"ENABLE_4P2", "PWD_CHARGE_4P2", "DCDC4P2"} : b \in on' <=> b \in on
    <3> HIDE DEF B
    <3> QED BY <2>1, <2>2
  <2> HIDE DEF B
  <2> QED BY <2>1, <2>3, QuietKeeps
<1>5. CASE ddi_power_EnableBatteryTo5VoltsHandoff
  <2>1. /\ pc = "idle" /\ pc' = "idle" /\ UNCHANGED <<t, masters, bMasterFlagsInitialized>>
    BY <1>5 DEF ddi_power_EnableBatteryTo5VoltsHandoff, testOnly, driver, inits
  <2>2. \A b \in {"ENABLE_4P2", "PWD_CHARGE_4P2", "DCDC4P2"} : b \in on' <=> b \in on
    BY <1>5, EnableDcdcKeepsRail DEF ddi_power_EnableBatteryTo5VoltsHandoff
  <2> QED BY <2>1, <2>2, QuietKeeps
<1>6. CASE ddi_power_ExecuteBatteryTo5VoltsHandoff
  <2> DEFINE B == Brownout5v(on, TRUE)
  <2>1. /\ pc = "idle" /\ pc' \in {"start", "linregs"}
        /\ UNCHANGED <<t, masters, bMasterFlagsInitialized>>
        /\ on' = on \/ on' = B
    BY <1>6 DEF ddi_power_ExecuteBatteryTo5VoltsHandoff, testOnly, inits
  <2>2. \A b \in {"ENABLE_4P2", "PWD_CHARGE_4P2", "DCDC4P2"} : b \in B <=> b \in on
    BY BrownoutKeepsRail
  <2> HIDE DEF B
  <2> QED BY <2>1, <2>2, QuietKeeps
<1>7. CASE ddi_power_Init
  <2>1. /\ pc \in {"boot", "idle"} /\ pc' \in {"supplies", "check"}
        /\ on' = on \ {"DCDC_XFER"} /\ bMasterFlagsInitialized' = TRUE
    BY <1>7 DEF ddi_power_Init
  <2>2. CASE bMasterFlagsInitialized = TRUE
    <3>1. UNCHANGED masters /\ pc = "idle"
      BY <1>7, <2>1, <2>2 DEF ddi_power_Init, RailInv, FlagsRead
    <3> QED BY <2>1, <2>2, <3>1, QuietKeeps
  <2>3. CASE bMasterFlagsInitialized = FALSE
    <3>1. /\ bEnableMaster4p2' = ("ENABLE_4P2" \in on /\ "PWD_CHARGE_4P2" \notin on)
          /\ bEnableMasterCharge' = ({"PWD_BATTCHRG", "PWD_CHARGE_4P2"} \cap on = {})
          /\ pc = "boot"
      BY <1>7, <2>1, <2>3 DEF ddi_power_Init, RailInv, FlagsRead
    <3>2. /\ bEnableMaster4p2' \in BOOLEAN /\ bEnableMasterCharge' \in BOOLEAN
          /\ bEnableMaster4p2' = TRUE <=> "ENABLE_4P2" \in on /\ "PWD_CHARGE_4P2" \notin on
          /\ bEnableMasterCharge' = TRUE => "PWD_CHARGE_4P2" \notin on
      BY <3>1
    <3>3. "ENABLE_4P2" \in on => "PWD_CHARGE_4P2" \notin on
      BY <3>1 DEF RailInv, RailAt
    <3>4. FlagsTyped' /\ FlagsRead' /\ SwitchOn' /\ Remembered'
      BY <2>1, <3>2 DEF FlagsTyped, FlagsRead, SwitchOn, Master, Remembered
    <3>5. RailAt' /\ InputOnly'
      BY <2>1, <3>1, <3>2, <3>3 DEF RailInv, RailAt, Known, InputOnly
    <3> QED BY <3>4, <3>5 DEF RailInv
  <2> QED BY <2>2, <2>3 DEF RailInv, FlagsTyped
<1>8. CASE NextApplication
  <2>1. /\ pc = "idle" /\ pc' = "boot" /\ on' = on
        /\ bEnableMasterCharge' = FALSE /\ bEnableMaster4p2' = FALSE
        /\ bMasterFlagsInitialized' = FALSE
    BY <1>8 DEF NextApplication
  <2>2. "ENABLE_4P2" \in on => "PWD_CHARGE_4P2" \notin on
    BY <2>1 DEF RailInv, RailAt, Known, SwitchOn, Master
  <2> QED
    BY <2>1, <2>2
       DEF RailInv, FlagsTyped, FlagsRead, RailAt, Known, SwitchOn, Master, Remembered, InputOnly
<1> QED
  BY <1>1, <1>2, <1>3, <1>4, <1>5, <1>6, <1>7, <1>8 DEF Callers

LEMMA ProgramKeepsRail == VerdictInv /\ RailInv /\ Program => RailInv'
<1> SUFFICES ASSUME VerdictInv, RailInv, Program PROVE RailInv'
  OBVIOUS
<1> USE DEF Charging, Moving, Goto
<1>1. CASE Test /\ UNCHANGED <<v5, driver>>
  BY <1>1, TestKeepsRail
<1>2. CASE BatteryChecked \/ KeepSupply \/ hw_power_Init4p2EnabledPowerSupply
  <2>1. UNCHANGED <<on, masters, bMasterFlagsInitialized>>
        /\ pc \in {"checked", "supplies"} /\ pc' \in {"supplies", "finish", "enable"}
    BY <1>2 DEF BatteryChecked, KeepSupply, hw_power_Init4p2EnabledPowerSupply, inits
  <2> QED BY <2>1, QuietKeeps
<1>3. CASE hw_power_InitPowerSupplies
  <2>1. UNCHANGED <<masters, bMasterFlagsInitialized>> /\ on' \in {on, on \cup {"PWD"}}
        /\ pc = "supplies" /\ pc' \in {"finish", "battery"}
    BY <1>3 DEF hw_power_InitPowerSupplies, driver, inits
  <2> QED BY <2>1, QuietKeeps
<1>4. CASE InitOnBattery \/ ConverterOn
  <2>1. UNCHANGED <<masters, bMasterFlagsInitialized>>
        /\ pc \in {"battery", "unload"} /\ pc' \in {"finish", "unloaded"}
    BY <1>4 DEF InitOnBattery, ConverterOn, driver, inits
  <2>2. \A b \in {"ENABLE_4P2", "PWD_CHARGE_4P2", "DCDC4P2"} : b \in on' <=> b \in on
    BY <1>4, EnableDcdcKeepsRail DEF InitOnBattery, ConverterOn
  <2> QED BY <2>1, <2>2, QuietKeeps
<1>5. CASE InitFinished
  BY <1>5, QuietKeeps DEF InitFinished
<1>6. CASE PrepareToStart4p2
  <2>1. UNCHANGED <<on, masters, bMasterFlagsInitialized>>
        /\ pc = "enable" /\ pc' \in {"start", "finish", "idle"}
    BY <1>6 DEF PrepareToStart4p2, Started, inits
  <2> QED BY <2>1, QuietKeeps
<1>7. CASE ddi_power_Start4p2
  <2>1. UNCHANGED <<masters, bMasterFlagsInitialized>> /\ pc = "start"
    BY <1>7 DEF ddi_power_Start4p2, inits
  <2>2. CASE on' = on /\ pc' \in {"finish", "idle"}
    BY <2>1, <2>2, QuietKeeps
  <2>3. CASE /\ "PWD_CHARGE_4P2" \in on /\ pc' = "input"
             /\ on' = on \cup {"ENABLE_4P2", "ENABLE_LOAD"}
    BY <2>1, <2>3
       DEF RailInv, FlagsTyped, FlagsRead, RailAt, Known, SwitchOn, Master, Remembered,
           InputOnly, masters
  <2> QED BY <1>7, <2>2, <2>3 DEF ddi_power_Start4p2, Started
<1>8. CASE InputOn
  <2> DEFINE B == Brownout5v(on, "PWDN_5VBRNOUT" \in on)
  <2>1. /\ UNCHANGED <<masters, bMasterFlagsInitialized>> /\ pc = "input" /\ pc' = "master"
        /\ on' = B \cup {"DCDC4P2"}
    BY <1>8 DEF InputOn, SwitchedOn, driver, inits
  <2>2. \A b \in {"ENABLE_4P2", "PWD_CHARGE_4P2"} : b \in B <=> b \in on
    BY BrownoutKeepsRail
  <2> HIDE DEF B
  <2>3. \A b \in {"ENABLE_4P2", "PWD_CHARGE_4P2"} : b \in on' <=> b \in on
    BY <2>1, <2>2
  <2> QED
    BY <2>1, <2>3
       DEF RailInv, FlagsTyped, FlagsRead, RailAt, Known, SwitchOn, Master, Remembered,
           InputOnly, masters
<1>9. CASE MasterOn
  <2>1. /\ pc = "master" /\ pc' = "first limit" /\ bEnableMaster4p2' = TRUE
        /\ UNCHANGED <<bEnableMasterCharge, bMasterFlagsInitialized>>
        /\ on' = on \ {"PWD_CHARGE_4P2"}
    BY <1>9 DEF MasterOn, MasterSwitch, inits
  <2> QED
    BY <2>1
       DEF RailInv, FlagsTyped, FlagsRead, RailAt, Known, SwitchOn, Master, Remembered,
           InputOnly
<1>10. CASE FirstLimit \/ CapRound \/ CapWaited \/ CapCharged \/ Ramp
  <2>1. /\ UNCHANGED <<on, masters, bMasterFlagsInitialized>>
        /\ pc \in {"first limit", "cap", "cap wait", "ramp"}
        /\ pc' \in {"cap", "cap wait", "stop", "ramp"}
    BY <1>10 DEF FirstLimit, CapRound, CapWaited, CapCharged, Ramp, driver, inits
  <2> QED BY <2>1, QuietKeeps
<1>11. CASE RailOn
  BY <1>11, QuietKeeps DEF RailOn, driver, inits
<1>12. CASE LoadOff
  <2>1. /\ UNCHANGED <<masters, bMasterFlagsInitialized>> /\ on' = on \ {"ENABLE_LOAD"}
        /\ pc = "unloaded" /\ pc' \in {"finish", "idle"}
    BY <1>12 DEF LoadOff, Started, inits
  <2> QED BY <2>1, QuietKeeps
<1>13. CASE StopRail
  <2>1. /\ UNCHANGED <<masters, bMasterFlagsInitialized>> /\ pc = "stop" /\ pc' = "stop input"
        /\ on' = on \ {"ENIRQ_DCDC4P2_BO", "ENABLE_4P2"}
    BY <1>13 DEF StopRail, driver, inits
  <2> QED
    BY <2>1
       DEF RailInv, FlagsTyped, FlagsRead, RailAt, Known, SwitchOn, Master, Remembered,
           InputOnly, masters
<1>14. CASE StopInput
  <2>1. /\ UNCHANGED <<masters, bMasterFlagsInitialized>>
        /\ pc = "stop input" /\ pc' = "stop master"
        /\ on' = Unguarded(on) \ {"DCDC4P2", "ENABLE_LOAD"}
    BY <1>14 DEF StopInput, InputOff, driver, inits
  <2>2. /\ "ENABLE_4P2" \in on' <=> "ENABLE_4P2" \in on
        /\ "PWD_CHARGE_4P2" \in on' <=> "PWD_CHARGE_4P2" \in on
        /\ "DCDC4P2" \notin on'
    BY <2>1, UnguardedKeepsRail
  <2> QED
    BY <2>1, <2>2
       DEF RailInv, FlagsTyped, FlagsRead, RailAt, Known, SwitchOn, Master, Remembered,
           InputOnly, masters
<1>15. CASE StopMaster
  <2>1. /\ pc = "stop master" /\ pc' = "idle" /\ bEnableMaster4p2' = FALSE
        /\ UNCHANGED <<bEnableMasterCharge, bMasterFlagsInitialized>>
        /\ on' = MasterSwitch(on, bEnableMasterCharge, FALSE)
    BY <1>15 DEF StopMaster, Started, inits
  <2>2. /\ "ENABLE_4P2" \in on' <=> "ENABLE_4P2" \in on
        /\ "DCDC4P2" \in on' <=> "DCDC4P2" \in on
        /\ bEnableMasterCharge = TRUE => "PWD_CHARGE_4P2" \notin on'
    BY <2>1 DEF MasterSwitch
  <2> QED
    BY <2>1, <2>2
       DEF RailInv, FlagsTyped, FlagsRead, RailAt, Known, SwitchOn, Master, Remembered,
           InputOnly
<1>16. CASE ConverterOff
  <2>1. /\ UNCHANGED <<masters, bMasterFlagsInitialized>> /\ pc = "linregs" /\ pc' = "idle"
        /\ on' = Unguarded(on) \ {"ENABLE_DCDC"}
    BY <1>16 DEF ConverterOff, driver, inits
  <2>2. \A b \in {"ENABLE_4P2", "PWD_CHARGE_4P2", "DCDC4P2"} : b \in on' <=> b \in on
    BY <2>1, UnguardedKeepsRail
  <2> QED BY <2>1, <2>2, QuietKeeps
<1> QED
  BY <1>1, <1>2, <1>3, <1>4, <1>5, <1>6, <1>7, <1>8, <1>9, <1>10, <1>11, <1>12, <1>13,
     <1>14, <1>15, <1>16 DEF Program

LEMMA HardwareKeepsRail == RailInv /\ Hardware => RailInv'
<1> SUFFICES ASSUME RailInv, Hardware PROVE RailInv'
  OBVIOUS
<1>1. /\ UNCHANGED <<t, masters, bMasterFlagsInitialized>>
      /\ pc' \in {"off", pc} /\ on' \in {on, on \ {"DCDC4P2"}}
  BY DEF Hardware, Supply5v, PoweredDown, testOnly, driver, inits
<1> QED BY <1>1, QuietKeeps

\* What the driver knows of the rail, with what the test remembers of it.
THEOREM RailInvariant == Spec => []RailInv
<1>1. Init => RailInv
  <2> SUFFICES ASSUME Init PROVE RailInv
    OBVIOUS
  <2>1. /\ pc = "boot" /\ bEnableMasterCharge = FALSE /\ bEnableMaster4p2 = FALSE
        /\ bMasterFlagsInitialized = FALSE
    BY DEF Init
  <2>2. \/ \E input \in {{}, {"DCDC4P2"}}, guard \in {{}, GuardBits} :
             on = RailBits \cup input \cup guard
        \/ on = RailBits \/ on = BatteryBits
    BY DEF Init
  <2>3. /\ "ENABLE_4P2" \in on => "PWD_CHARGE_4P2" \notin on
        /\ "DCDC4P2" \in on => "ENABLE_4P2" \in on
    <3>1. CASE \E input \in {{}, {"DCDC4P2"}}, guard \in {{}, GuardBits} :
                 on = RailBits \cup input \cup guard
      BY <3>1 DEF RailBits, GuardBits
    <3>2. CASE on = RailBits \/ on = BatteryBits
      BY <3>2 DEF RailBits, BatteryBits
    <3> QED BY <2>2, <3>1, <3>2
  <2> QED
    BY <2>1, <2>3
       DEF RailInv, FlagsTyped, FlagsRead, RailAt, Known, SwitchOn, Master, Remembered,
           InputOnly, Charging, Moving
<1>2. VerdictInv /\ RailInv /\ [Next]_vars => RailInv'
  <2> SUFFICES ASSUME VerdictInv, RailInv, [Next]_vars PROVE RailInv'
    OBVIOUS
  <2>1. CASE Next
    BY <2>1, CallersKeepRail, ProgramKeepsRail, HardwareKeepsRail DEF Next
  <2>2. CASE UNCHANGED vars
    BY <2>2, QuietKeeps DEF vars, testOnly, driver, inits
  <2> QED BY <2>1, <2>2
<1> QED BY <1>1, <1>2, VerdictInvariant, PTL DEF Spec

\* bEnableMaster4p2 says of the rail what its regulator does, through every start, stop,
\* failure, test and next application (hw_power_init.c 104-107, ddi_power_handoff.c 437).
THEOREM RailKnownEver == Spec => []RailKnown
<1>1. RailInv => RailKnown
  BY DEF RailInv, FlagsTyped, RailAt, Known, Charging, Moving, TestPlaces, RailKnown, FlagsRead
<1> QED BY <1>1, RailInvariant, PTL

\* The converter takes power from the rail only while it is enabled, whichever step of a
\* start fails (ddi_power.c 1939-1946).
THEOREM InputNeedsRailEver == Spec => []InputNeedsRail
<1>1. RailInv => InputNeedsRail
  BY DEF RailInv, InputOnly, InputNeedsRail
<1> QED BY <1>1, RailInvariant, PTL

\* Neither the rail nor the charger loses the switch they share to the other
\* (hw_power.c 1436-1462).
THEOREM SwitchSharedEver == Spec => []SwitchShared
<1>1. RailInv => SwitchShared
  BY DEF RailInv, FlagsTyped, SwitchOn, Master, SwitchShared
<1> QED BY <1>1, RailInvariant, PTL
-----------------------------------------------------------------------------
(***************************************************************************)
(* The limit of the rail.  First its conversions, for any currents.        *)
(***************************************************************************)
LEMMA Currents ==
  /\ \A i \in 0 .. 5 : CURRENTS[i] \in Nat
  /\ CURRENTS[0] \in Nat /\ CURRENTS[1] \in Nat /\ CURRENTS[2] \in Nat
  /\ CURRENTS[3] \in Nat /\ CURRENTS[4] \in Nat /\ CURRENTS[5] \in Nat
  /\ CHARGE_CURRENT_LIMIT_4P2_CAP \in Nat \ {0} /\ CHARGE_CURRENT_STEP_SIZE_4P2_CAP \in Nat \ {0}
  /\ CHARGE_CURRENT_LIMIT_4P2_RAIL \in Nat \ {0} /\ CHARGE_CURRENT_STEP_SIZE_4P2_RAIL \in Nat \ {0}
BY HandoffAssumption

\* The binary digits of a setting.
LEMMA Digits ==
  ASSUME NEW d0 \in {0, 1}, NEW d1 \in {0, 1}, NEW d2 \in {0, 1},
         NEW d3 \in {0, 1}, NEW d4 \in {0, 1}, NEW d5 \in {0, 1},
         NEW n, n = 32 * d5 + 16 * d4 + 8 * d3 + 4 * d2 + 2 * d1 + d0
  PROVE  /\ n \in 0 .. 63
         /\ (n \div 32) % 2 = d5 /\ (n \div 16) % 2 = d4 /\ (n \div 8) % 2 = d3
         /\ (n \div 4) % 2 = d2 /\ (n \div 2) % 2 = d1 /\ (n \div 1) % 2 = d0
OBVIOUS

\* Each round of the scan takes a bit, and its current, or does not.
LEMMA ScanRound ==
  ASSUME NEW s \in [rest : Nat, bits : Nat], NEW i \in 0 .. 5, NEW mask \in Nat
  PROVE  \E r \in [rest : Nat, bits : Nat], d \in {0, 1} :
           /\ r = Scan(s, i, mask)
           /\ r.bits = s.bits + (IF d = 1 THEN mask ELSE 0)
           /\ s.rest - r.rest = IF d = 1 THEN CURRENTS[i] ELSE 0
<1>1. CURRENTS[i] \in Nat /\ s.rest \in Nat /\ s.bits \in Nat
  BY Currents
<1>2. CASE s.rest >= CURRENTS[i]
  <2>1. PICK r : r = [rest |-> s.rest - CURRENTS[i], bits |-> s.bits + mask]
    OBVIOUS
  <2>2. s.rest - CURRENTS[i] \in Nat /\ s.bits + mask \in Nat
    BY <1>1, <1>2
  <2>3. r \in [rest : Nat, bits : Nat] /\ r.rest = s.rest - CURRENTS[i] /\ r.bits = s.bits + mask
    BY <2>1, <2>2
  <2>4. s.rest - r.rest = CURRENTS[i]
    BY <1>1, <2>3
  <2>5. r = Scan(s, i, mask)
    BY <1>2, <2>1 DEF Scan
  <2> QED BY <2>3, <2>4, <2>5
<1>3. CASE ~(s.rest >= CURRENTS[i])
  <2>1. s = Scan(s, i, mask)
    BY <1>3 DEF Scan
  <2> QED BY <1>1, <2>1
<1> QED BY <1>2, <1>3

\* What a setting stands for is no more than the current it was made from
\* (hw_power_conversions.c 65-106).
THEOREM ConversionWithin ==
  \A current \in 0 .. CHARGE_CURRENT_LIMIT_4P2_RAIL + CHARGE_CURRENT_STEP_SIZE_4P2_RAIL :
    /\ Setting[current] \in 0 .. 63
    /\ Current[Setting[current]] <= current
<1> SUFFICES ASSUME NEW current \in 0 .. CHARGE_CURRENT_LIMIT_4P2_RAIL
                                          + CHARGE_CURRENT_STEP_SIZE_4P2_RAIL
             PROVE  /\ Scanned(current).bits \in 0 .. 63
                    /\ Current[Scanned(current).bits] <= current
  BY DEF Setting
<1>1. current \in Nat
  BY Currents
<1>2. PICK s6 \in [rest : Nat, bits : Nat] :
         s6 = [rest |-> current, bits |-> 0] /\ s6.rest = current /\ s6.bits = 0
  <2>1. PICK r : r = [rest |-> current, bits |-> 0]
    OBVIOUS
  <2>2. r \in [rest : Nat, bits : Nat] /\ r.rest = current /\ r.bits = 0
    BY <1>1, <2>1
  <2> QED BY <2>1, <2>2
<1>3. PICK s5 \in [rest : Nat, bits : Nat], d5 \in {0, 1} :
         /\ s5 = Scan(s6, 5, 32)
         /\ s5.bits = s6.bits + (IF d5 = 1 THEN 32 ELSE 0)
         /\ s6.rest - s5.rest = IF d5 = 1 THEN CURRENTS[5] ELSE 0
  <2>1. 5 \in 0 .. 5 /\ 32 \in Nat
    OBVIOUS
  <2> QED BY <2>1, ScanRound
<1>4. PICK s4 \in [rest : Nat, bits : Nat], d4 \in {0, 1} :
         /\ s4 = Scan(s5, 4, 16)
         /\ s4.bits = s5.bits + (IF d4 = 1 THEN 16 ELSE 0)
         /\ s5.rest - s4.rest = IF d4 = 1 THEN CURRENTS[4] ELSE 0
  <2>1. 4 \in 0 .. 5 /\ 16 \in Nat
    OBVIOUS
  <2> QED BY <2>1, ScanRound
<1>5. PICK s3 \in [rest : Nat, bits : Nat], d3 \in {0, 1} :
         /\ s3 = Scan(s4, 3, 8)
         /\ s3.bits = s4.bits + (IF d3 = 1 THEN 8 ELSE 0)
         /\ s4.rest - s3.rest = IF d3 = 1 THEN CURRENTS[3] ELSE 0
  <2>1. 3 \in 0 .. 5 /\ 8 \in Nat
    OBVIOUS
  <2> QED BY <2>1, ScanRound
<1>6. PICK s2 \in [rest : Nat, bits : Nat], d2 \in {0, 1} :
         /\ s2 = Scan(s3, 2, 4)
         /\ s2.bits = s3.bits + (IF d2 = 1 THEN 4 ELSE 0)
         /\ s3.rest - s2.rest = IF d2 = 1 THEN CURRENTS[2] ELSE 0
  <2>1. 2 \in 0 .. 5 /\ 4 \in Nat
    OBVIOUS
  <2> QED BY <2>1, ScanRound
<1>7. PICK s1 \in [rest : Nat, bits : Nat], d1 \in {0, 1} :
         /\ s1 = Scan(s2, 1, 2)
         /\ s1.bits = s2.bits + (IF d1 = 1 THEN 2 ELSE 0)
         /\ s2.rest - s1.rest = IF d1 = 1 THEN CURRENTS[1] ELSE 0
  <2>1. PICK i \in 0 .. 5, mask \in Nat : i = 1 /\ mask = 2
    OBVIOUS
  <2>2. PICK r \in [rest : Nat, bits : Nat], d \in {0, 1} :
          /\ r = Scan(s2, i, mask)
          /\ r.bits = s2.bits + (IF d = 1 THEN mask ELSE 0)
          /\ s2.rest - r.rest = IF d = 1 THEN CURRENTS[i] ELSE 0
    BY ScanRound
  <2> QED BY <2>1, <2>2
<1>8. PICK s0 \in [rest : Nat, bits : Nat], d0 \in {0, 1} :
         /\ s0 = Scan(s1, 0, 1)
         /\ s0.bits = s1.bits + (IF d0 = 1 THEN 1 ELSE 0)
         /\ s1.rest - s0.rest = IF d0 = 1 THEN CURRENTS[0] ELSE 0
  <2>1. 0 \in 0 .. 5 /\ 1 \in Nat
    OBVIOUS
  <2> QED BY <2>1, ScanRound
<1>9. Scanned(current) = s0
  BY <1>2, <1>3, <1>4, <1>5, <1>6, <1>7, <1>8 DEF Scanned
<1>10. s0.bits = 32 * d5 + 16 * d4 + 8 * d3 + 4 * d2 + 2 * d1 + d0
  <2>1. s5.bits = s6.bits + 32 * d5
    BY <1>3
  <2>2. s4.bits = s5.bits + 16 * d4
    BY <1>4
  <2>3. s3.bits = s4.bits + 8 * d3
    BY <1>5
  <2>4. s2.bits = s3.bits + 4 * d2
    BY <1>6
  <2>5. s1.bits = s2.bits + 2 * d1
    BY <1>7
  <2>6. s0.bits = s1.bits + 1 * d0
    BY <1>8
  <2> QED BY <1>2, <2>1, <2>2, <2>3, <2>4, <2>5, <2>6
<1>11. PICK n : n = s0.bits
  OBVIOUS
<1>12. /\ n \in 0 .. 63
       /\ (n \div 32) % 2 = d5 /\ (n \div 16) % 2 = d4 /\ (n \div 8) % 2 = d3
       /\ (n \div 4) % 2 = d2 /\ (n \div 2) % 2 = d1 /\ (n \div 1) % 2 = d0
  BY <1>10, <1>11, Digits
<1>13. /\ Share(n, 5, 32) = s6.rest - s5.rest /\ Share(n, 4, 16) = s5.rest - s4.rest
       /\ Share(n, 3, 8) = s4.rest - s3.rest /\ Share(n, 2, 4) = s3.rest - s2.rest
       /\ Share(n, 1, 2) = s2.rest - s1.rest /\ Share(n, 0, 1) = s1.rest - s0.rest
  <2>1. /\ Share(n, 5, 32) = IF d5 = 1 THEN CURRENTS[5] ELSE 0
        /\ Share(n, 4, 16) = IF d4 = 1 THEN CURRENTS[4] ELSE 0
        /\ Share(n, 3, 8) = IF d3 = 1 THEN CURRENTS[3] ELSE 0
        /\ Share(n, 2, 4) = IF d2 = 1 THEN CURRENTS[2] ELSE 0
        /\ Share(n, 1, 2) = IF d1 = 1 THEN CURRENTS[1] ELSE 0
        /\ Share(n, 0, 1) = IF d0 = 1 THEN CURRENTS[0] ELSE 0
    BY <1>12 DEF Share
  <2> QED BY <1>3, <1>4, <1>5, <1>6, <1>7, <1>8, <2>1
<1>14. Current[n] = s6.rest - s0.rest
  <2>1. Current[n] = Share(n, 5, 32) + Share(n, 4, 16) + Share(n, 3, 8)
                       + Share(n, 2, 4) + Share(n, 1, 2) + Share(n, 0, 1)
    BY <1>12 DEF Current
  <2> QED BY <1>13, <2>1
<1> QED BY <1>1, <1>2, <1>9, <1>11, <1>12, <1>14

\* What a setting stands for, and what clearing its lowest bit makes of that.
LEMMA CurrentType == \A n \in 0 .. 63 : Current[n] \in Nat
<1> SUFFICES ASSUME NEW n \in 0 .. 63 PROVE Current[n] \in Nat
  OBVIOUS
<1>1. /\ Share(n, 5, 32) \in Nat /\ Share(n, 4, 16) \in Nat /\ Share(n, 3, 8) \in Nat
      /\ Share(n, 2, 4) \in Nat /\ Share(n, 1, 2) \in Nat /\ Share(n, 0, 1) \in Nat
  BY Currents DEF Share
<1> QED BY <1>1 DEF Current

LEMMA LowerLimit ==
  ASSUME NEW n \in 0 .. 63
  PROVE  WithoutBit0(n) \in 0 .. 63 /\ Current[WithoutBit0(n)] <= Current[n]
<1>1. PICK m : m = WithoutBit0(n)
  OBVIOUS
<1>2. /\ m \in 0 .. 63
      /\ (m \div 32) % 2 = (n \div 32) % 2 /\ (m \div 16) % 2 = (n \div 16) % 2
      /\ (m \div 8) % 2 = (n \div 8) % 2 /\ (m \div 4) % 2 = (n \div 4) % 2
      /\ (m \div 2) % 2 = (n \div 2) % 2 /\ (m \div 1) % 2 = 0
  BY <1>1 DEF WithoutBit0
<1>3. /\ Share(m, 5, 32) = Share(n, 5, 32) /\ Share(m, 4, 16) = Share(n, 4, 16)
      /\ Share(m, 3, 8) = Share(n, 3, 8) /\ Share(m, 2, 4) = Share(n, 2, 4)
      /\ Share(m, 1, 2) = Share(n, 1, 2) /\ Share(m, 0, 1) = 0
  BY <1>2 DEF Share
<1>4. /\ Share(n, 5, 32) \in Nat /\ Share(n, 4, 16) \in Nat /\ Share(n, 3, 8) \in Nat
      /\ Share(n, 2, 4) \in Nat /\ Share(n, 1, 2) \in Nat /\ Share(n, 0, 1) \in Nat
  BY Currents DEF Share
<1>5. Current[m] <= Current[n]
  BY <1>2, <1>3, <1>4 DEF Current
<1> QED BY <1>1, <1>2, <1>5

\* The settings that the start and the test begin with.
LEMMA LowLimits ==
  \A n \in 0 .. 3 : /\ Current[n] \in Nat
                    /\ Current[n] <= CHARGE_CURRENT_LIMIT_4P2_CAP
                    /\ Current[n] <= CHARGE_CURRENT_STEP_SIZE_4P2_RAIL
<1> SUFFICES ASSUME NEW n \in 0 .. 3
             PROVE  Current[n] \in Nat /\ Current[n] <= CURRENTS[0] + CURRENTS[1]
  BY Currents, RampAssumption
<1>1. /\ (n \div 32) % 2 = 0 /\ (n \div 16) % 2 = 0 /\ (n \div 8) % 2 = 0
      /\ (n \div 4) % 2 = 0
  OBVIOUS
<1>2. /\ Share(n, 5, 32) = 0 /\ Share(n, 4, 16) = 0 /\ Share(n, 3, 8) = 0
      /\ Share(n, 2, 4) = 0
  BY <1>1 DEF Share
<1>3. /\ Share(n, 1, 2) \in {0, CURRENTS[1]} /\ Share(n, 0, 1) \in {0, CURRENTS[0]}
  BY DEF Share
<1> QED BY <1>2, <1>3, Currents DEF Current

-----------------------------------------------------------------------------
\* What the start knows of the limit at its places.  The ramp does not read it again:
\* it is what the last sum was converted to, and not that sum.
LimitInv ==
  /\ ilimit \in 0 .. 63
  /\ pc = "input" => ilimit = INITIAL_LIMIT
  /\ pc = "master" => ilimit = 0
  /\ pc = "ramp" => mA \in Nat /\ (mA = Current[ilimit] \/ ilimit = Setting[mA])

SoftStep ==
  Powered' =>
    Current[ilimit'] <= IF Powered THEN Current[ilimit] + CHARGE_CURRENT_STEP_SIZE_4P2_RAIL
                        ELSE CHARGE_CURRENT_LIMIT_4P2_CAP

\* A step that leaves the limit alone, does not power the rail and begins no charging.
LEMMA LimitAlone ==
  ASSUME LimitInv, UNCHANGED ilimit, Powered' => Powered,
         pc' \notin {"input", "master", "ramp"} \/ UNCHANGED <<pc, mA>>
  PROVE  LimitInv' /\ SoftStep
<1>1. Current[ilimit] \in Nat
  BY CurrentType DEF LimitInv
<1>2. SoftStep
  BY <1>1, Currents DEF SoftStep
<1>3. LimitInv'
  BY DEF LimitInv, INITIAL_LIMIT
<1> QED BY <1>2, <1>3

\* A step that lowers the limit, or sets one of the lowest settings.
LEMMA LimitLow ==
  ASSUME LimitInv, ilimit' \in 0 .. 3
  PROVE  SoftStep
<1>1. Current[ilimit] \in Nat
  BY CurrentType DEF LimitInv
<1> QED BY <1>1, LowLimits, Currents DEF SoftStep

LEMMA LimitLower ==
  ASSUME LimitInv, ilimit' \in {ilimit, WithoutBit0(ilimit)}, Powered' => Powered
  PROVE  SoftStep /\ ilimit' \in 0 .. 63
<1>1. ilimit \in 0 .. 63 /\ Current[ilimit] \in Nat
  BY CurrentType DEF LimitInv
<1>2. ilimit' \in 0 .. 63 /\ Current[ilimit'] <= Current[ilimit]
  <2>1. CASE ilimit' = ilimit
    BY <1>1, <2>1
  <2>2. CASE ilimit' = WithoutBit0(ilimit)
    <3>1. WithoutBit0(ilimit) \in 0 .. 63 /\ Current[WithoutBit0(ilimit)] <= Current[ilimit]
      BY <1>1, LowerLimit
    <3> QED BY <2>2, <3>1
  <2> QED BY <2>1, <2>2
<1>3. Current[ilimit'] \in Nat
  BY <1>2, CurrentType
<1> QED BY <1>1, <1>2, <1>3, Currents DEF SoftStep

\* Steps of the converter: whether the rail is powered stays as it is.
LEMMA ConverterSoft ==
  ASSUME LimitInv, EnableDcdc, pc' \notin {"input", "master", "ramp"}
  PROVE  LimitInv' /\ SoftStep
<1>1. ilimit' \in {ilimit, WithoutBit0(ilimit)}
  BY DEF EnableDcdc
<1>2. Powered' => Powered
  BY EnableDcdcKeepsRail DEF Powered
<1>3. SoftStep /\ ilimit' \in 0 .. 63
  BY <1>1, <1>2, LimitLower
<1> QED BY <1>3 DEF LimitInv

LEMMA TestSoft ==
  VerdictInv /\ LimitInv /\ Test /\ UNCHANGED driver => LimitInv' /\ SoftStep
<1> SUFFICES ASSUME VerdictInv, LimitInv, Test, UNCHANGED driver PROVE LimitInv' /\ SoftStep
  OBVIOUS
<1>1. CASE ddi_power_IsBatteryConnected \/ FirstReading \/ ReadStart \/ CheckThreshold
              \/ CheckTimeout
  <2>1. /\ UNCHANGED ilimit /\ on' \in {on, on \cup {"ENABLE_LOAD"}}
        /\ pc' \notin {"input", "master", "ramp"}
    BY <1>1 DEF ddi_power_IsBatteryConnected, FirstReading, ReadStart, CheckThreshold, CheckTimeout
  <2> QED BY <2>1, LimitAlone DEF Powered
<1>2. CASE SecondReading
  <2>1. /\ UNCHANGED ilimit /\ pc' \in {"first", "checked", "level"}
        /\ on' \in {on, on \ {"ENABLE_LOAD"}, on \cup {"CHRG_STS_OFF"}}
    BY <1>2 DEF SecondReading, Conclude
  <2> QED BY <2>1, LimitAlone DEF Powered
<1>3. CASE TurnOnCharger
  <2>1. CASE UNCHANGED ilimit /\ pc' = "checked" /\ on' = on \ {"CHRG_STS_OFF"}
    BY <2>1, LimitAlone DEF Powered
  <2>2. CASE ilimit' = 3 /\ pc' = "clock"
    <3>1. ilimit' \in 0 .. 3 /\ ilimit' \in 0 .. 63
      BY <2>2
    <3> QED BY <2>2, <3>1, LimitLow DEF LimitInv
  <2> QED BY <1>3, <2>1, <2>2 DEF TurnOnCharger, Conclude
<1>4. CASE Restore
  <2>1. ilimit' = t.limit /\ pc' = "checked"
    BY <1>4 DEF Restore, Conclude
  <2>2. ilimit' \in {0, 1}
    BY <2>1 DEF VerdictInv, TestTypeOK
  <2>3. ilimit' \in 0 .. 3 /\ ilimit' \in 0 .. 63
    BY <2>2
  <2> QED BY <2>1, <2>3, LimitLow DEF LimitInv
<1> QED BY <1>1, <1>2, <1>3, <1>4 DEF Test

LEMMA CallersSoft == RailInv /\ LimitInv /\ Callers => LimitInv' /\ SoftStep
<1> SUFFICES ASSUME RailInv, LimitInv, Callers PROVE LimitInv' /\ SoftStep
  OBVIOUS
<1>1. CASE ddi_power_Enable4p2 \/ ddi_power_Disable4p2 \/ NextApplication
  <2>1. UNCHANGED <<ilimit, on>> /\ pc' \in {"enable", "stop", "boot"}
    BY <1>1 DEF ddi_power_Enable4p2, ddi_power_Disable4p2, NextApplication, Goto
  <2> QED BY <2>1, LimitAlone DEF Powered
<1>2. CASE hw_power_EnableMasterCharge
  <2>1. PICK enable \in BOOLEAN :
          /\ Goto("idle", "idle") /\ UNCHANGED ilimit
          /\ on' = MasterSwitch(on, enable, bEnableMaster4p2)
    BY <1>2 DEF hw_power_EnableMasterCharge
  <2>2. "ENABLE_4P2" \in on => "PWD_CHARGE_4P2" \notin on
    BY <2>1 DEF Goto, RailInv, RailAt, Known, SwitchOn, Master, Charging, Moving
  <2>3. Powered' => Powered
    BY <2>1, <2>2 DEF Powered, MasterSwitch
  <2> QED BY <2>1, <2>3, LimitAlone DEF Goto
<1>3. CASE ddi_power_Enable5VoltsToBatteryHandoff
  <2>1. /\ UNCHANGED ilimit /\ pc' = "idle"
        /\ \/ on' = on \cup {"ENIRQ_VDD5V_DROOP"}
           \/ on' = Brownout5v(on \cup {"DCDC_XFER"}, FALSE)
    BY <1>3 DEF ddi_power_Enable5VoltsToBatteryHandoff, Goto
  <2>2. Powered' => Powered
    BY <2>1, BrownoutKeepsRail DEF Powered
  <2> QED BY <2>1, <2>2, LimitAlone
<1>4. CASE ddi_power_EnableBatteryTo5VoltsHandoff
  BY <1>4, ConverterSoft DEF ddi_power_EnableBatteryTo5VoltsHandoff, Goto
<1>5. CASE ddi_power_ExecuteBatteryTo5VoltsHandoff
  <2>1. /\ UNCHANGED ilimit /\ pc' \in {"start", "linregs"}
        /\ on' = on \/ on' = Brownout5v(on, TRUE)
    BY <1>5 DEF ddi_power_ExecuteBatteryTo5VoltsHandoff, Goto
  <2>2. Powered' => Powered
    BY <2>1, BrownoutKeepsRail DEF Powered
  <2> QED BY <2>1, <2>2, LimitAlone
<1>6. CASE ddi_power_Init
  <2>1. /\ UNCHANGED ilimit /\ pc' \in {"supplies", "check"} /\ on' = on \ {"DCDC_XFER"}
    BY <1>6 DEF ddi_power_Init, Goto
  <2> QED BY <2>1, LimitAlone DEF Powered
<1> QED BY <1>1, <1>2, <1>3, <1>4, <1>5, <1>6 DEF Callers

\* The steps of a start that set the limit.
LEMMA StartSoft ==
  ASSUME LimitInv,
         ddi_power_Start4p2 \/ InputOn \/ MasterOn \/ FirstLimit
  PROVE  LimitInv' /\ SoftStep
<1>1. CASE ddi_power_Start4p2
  <2>1. CASE UNCHANGED <<on, ilimit>> /\ pc' \in {"finish", "idle"}
    BY <2>1, LimitAlone DEF Powered
  <2>2. CASE ilimit' = INITIAL_LIMIT /\ pc' = "input"
    <3>1. ilimit' \in 0 .. 3 /\ ilimit' \in 0 .. 63
      BY <2>2 DEF INITIAL_LIMIT
    <3> QED BY <2>2, <3>1, LimitLow DEF LimitInv, INITIAL_LIMIT
  <2> QED BY <1>1, <2>1, <2>2 DEF ddi_power_Start4p2, Started
<1>2. CASE InputOn
  <2>1. ilimit' = 0 /\ pc' = "master"
    BY <1>2 DEF InputOn, Goto, LimitInv, INITIAL_LIMIT, WithoutBit0
  <2> QED BY <2>1, LimitLow DEF LimitInv
<1>3. CASE MasterOn
  <2>1. ilimit' \in 0 .. 3 /\ ilimit' \in 0 .. 63
    <3>1. pc = "master" /\ ilimit' = ilimit
      BY <1>3 DEF MasterOn, Goto
    <3>2. ilimit = 0
      BY <3>1 DEF LimitInv
    <3> QED BY <3>1, <3>2
  <2>2. pc' \notin {"input", "master", "ramp"}
    BY <1>3 DEF MasterOn, Goto
  <2> QED BY <2>1, <2>2, LimitLow DEF LimitInv
<1>4. CASE FirstLimit
  <2>1. ilimit' = 2 /\ pc' = "cap"
    BY <1>4 DEF FirstLimit, Goto
  <2> QED BY <2>1, LimitLow DEF LimitInv
<1> QED BY <1>1, <1>2, <1>3, <1>4

LEMMA CapSoft == LimitInv /\ CapRound => LimitInv' /\ SoftStep
<1> SUFFICES ASSUME LimitInv, CapRound PROVE LimitInv' /\ SoftStep
  OBVIOUS
<1>1. pc' = "cap wait" /\ on' = on
  BY DEF CapRound, Goto
<1>2. CASE ilimit' = ilimit
  BY <1>1, <1>2, LimitAlone DEF Powered
<1>3. CASE /\ Current[ilimit] < CHARGE_CURRENT_LIMIT_4P2_CAP
           /\ ilimit' = Setting[Current[ilimit] + CHARGE_CURRENT_STEP_SIZE_4P2_CAP]
  <2>1. PICK c \in Nat : c = Current[ilimit]
    BY CurrentType DEF LimitInv
  <2>2. c + CHARGE_CURRENT_STEP_SIZE_4P2_CAP
          \in 0 .. CHARGE_CURRENT_LIMIT_4P2_RAIL + CHARGE_CURRENT_STEP_SIZE_4P2_RAIL
    BY <1>3, <2>1, Currents, RampAssumption
  <2>3. /\ ilimit' \in 0 .. 63
        /\ Current[ilimit'] <= c + CHARGE_CURRENT_STEP_SIZE_4P2_CAP
    BY <1>3, <2>1, <2>2, ConversionWithin
  <2>4. Current[ilimit'] \in Nat
    BY <2>3, CurrentType
  <2>5. Current[ilimit'] <= c + CHARGE_CURRENT_STEP_SIZE_4P2_RAIL
    BY <2>1, <2>3, <2>4, Currents, RampAssumption
  <2> QED BY <1>1, <2>1, <2>3, <2>5 DEF LimitInv, SoftStep, Powered
<1> QED BY <1>2, <1>3 DEF CapRound

LEMMA RampSoft == LimitInv /\ Ramp => LimitInv' /\ SoftStep
<1> SUFFICES ASSUME LimitInv, Ramp PROVE LimitInv' /\ SoftStep
  OBVIOUS
<1>1. /\ pc = "ramp" /\ pc' = "ramp" /\ on' = on
      /\ mA' = mA + CHARGE_CURRENT_STEP_SIZE_4P2_RAIL /\ ilimit' = Setting[mA']
      /\ mA < CHARGE_CURRENT_LIMIT_4P2_RAIL
  BY DEF Ramp, Goto
<1>2. /\ mA \in 0 .. CHARGE_CURRENT_LIMIT_4P2_RAIL - 1
      /\ mA' \in 0 .. CHARGE_CURRENT_LIMIT_4P2_RAIL + CHARGE_CURRENT_STEP_SIZE_4P2_RAIL
  BY <1>1, Currents DEF LimitInv
<1>3. ilimit' \in 0 .. 63 /\ Current[ilimit'] <= mA'
  BY <1>1, <1>2, ConversionWithin
<1>4. Current[ilimit'] <= Current[ilimit] + CHARGE_CURRENT_STEP_SIZE_4P2_RAIL
  <2>1. CASE mA = Current[ilimit]
    BY <1>1, <1>3, <2>1
  <2>2. CASE ilimit = Setting[mA]
    BY <1>1, <1>2, <2>2, RampAssumption
  <2> QED BY <1>1, <2>1, <2>2 DEF LimitInv
<1>5. LimitInv'
  BY <1>1, <1>2, <1>3 DEF LimitInv
<1>6. SoftStep
  BY <1>1, <1>4 DEF SoftStep, Powered
<1> QED BY <1>5, <1>6

LEMMA ProgramSoft == VerdictInv /\ RailInv /\ LimitInv /\ Program => LimitInv' /\ SoftStep
<1> SUFFICES ASSUME VerdictInv, RailInv, LimitInv, Program PROVE LimitInv' /\ SoftStep
  OBVIOUS
<1>1. CASE Test /\ UNCHANGED <<v5, driver>>
  BY <1>1, TestSoft
<1>2. CASE BatteryChecked \/ KeepSupply \/ hw_power_InitPowerSupplies \/ InitFinished
             \/ PrepareToStart4p2 \/ CapWaited \/ RailOn \/ LoadOff
  <2>1. /\ UNCHANGED ilimit
        /\ on' \in {on, on \cup {"PWD"}, on \cup {"PWD_OFF"}, on \ {"DCDC_XFER"},
                    on \ {"ENABLE_LOAD"}}
        /\ pc' \in {"supplies", "finish", "battery", "idle", "start", "cap", "stop", "unload"}
    BY <1>2 DEF BatteryChecked, KeepSupply, hw_power_InitPowerSupplies, InitFinished,
                PrepareToStart4p2, CapWaited, RailOn, LoadOff, Started, Goto
  <2> QED BY <2>1, LimitAlone DEF Powered
<1>3. CASE hw_power_Init4p2EnabledPowerSupply
  <2>1. pc' = "enable" /\ "ENABLE_4P2" \notin on' /\ ilimit' = 63
    BY <1>3 DEF hw_power_Init4p2EnabledPowerSupply, IsPowerSupplyInitialized, Goto
  <2> QED BY <2>1 DEF LimitInv, SoftStep, Powered
<1>4. CASE InitOnBattery \/ ConverterOn
  BY <1>4, ConverterSoft DEF InitOnBattery, ConverterOn, Goto
<1>5. CASE ddi_power_Start4p2 \/ InputOn \/ MasterOn \/ FirstLimit
  BY <1>5, StartSoft
<1>6. CASE CapRound
  BY <1>6, CapSoft
<1>7. CASE CapCharged
  <2>1. /\ UNCHANGED <<ilimit, on>> /\ pc' = "ramp" /\ mA' = Current[ilimit] /\ pc = "cap"
    BY <1>7 DEF CapCharged, Goto
  <2>2. Current[ilimit] \in Nat
    BY CurrentType DEF LimitInv
  <2>3. SoftStep
    BY <2>1, <2>2, Currents DEF SoftStep, Powered
  <2>4. LimitInv'
    BY <2>1, <2>2 DEF LimitInv
  <2> QED BY <2>3, <2>4
<1>8. CASE Ramp
  BY <1>8, RampSoft
<1>9. CASE StopRail
  BY <1>9, LimitAlone DEF StopRail, Goto, Powered
<1>10. CASE StopInput
  <2>1. /\ UNCHANGED ilimit /\ pc' = "stop master"
        /\ on' = Unguarded(on) \ {"DCDC4P2", "ENABLE_LOAD"}
    BY <1>10 DEF StopInput, InputOff, Goto
  <2>2. Powered' => Powered
    BY <2>1, UnguardedKeepsRail DEF Powered
  <2> QED BY <2>1, <2>2, LimitAlone
<1>11. CASE StopMaster
  <2>1. /\ UNCHANGED ilimit /\ pc' \in {"finish", "idle"}
        /\ on' = MasterSwitch(on, bEnableMasterCharge, FALSE) /\ "ENABLE_4P2" \notin on
    BY <1>11 DEF StopMaster, Started, RailInv, RailAt
  <2>2. ~Powered'
    BY <2>1 DEF Powered, MasterSwitch
  <2> QED BY <2>1, <2>2, LimitAlone
<1>12. CASE ConverterOff
  <2>1. UNCHANGED ilimit /\ pc' = "idle" /\ on' = Unguarded(on) \ {"ENABLE_DCDC"}
    BY <1>12 DEF ConverterOff, Goto
  <2>2. Powered' => Powered
    BY <2>1, UnguardedKeepsRail DEF Powered
  <2> QED BY <2>1, <2>2, LimitAlone
<1> QED
  BY <1>1, <1>2, <1>3, <1>4, <1>5, <1>6, <1>7, <1>8, <1>9, <1>10, <1>11, <1>12 DEF Program

LEMMA HardwareSoft == LimitInv /\ Hardware => LimitInv' /\ SoftStep
<1> SUFFICES ASSUME LimitInv, Hardware PROVE LimitInv' /\ SoftStep
  OBVIOUS
<1>1. /\ UNCHANGED <<ilimit, mA>> /\ on' \in {on, on \ {"DCDC4P2"}} /\ pc' \in {"off", pc}
  BY DEF Hardware, Supply5v, PoweredDown, driver, loops
<1>2. Powered' => Powered
  BY <1>1 DEF Powered
<1> QED BY <1>1, <1>2, LimitAlone

\* What is known of the limit, always, with the step that raises it.
LEMMA LimitStep ==
  VerdictInv /\ RailInv /\ LimitInv /\ [Next]_vars => LimitInv' /\ SoftStep
<1> SUFFICES ASSUME VerdictInv, RailInv, LimitInv, [Next]_vars PROVE LimitInv' /\ SoftStep
  OBVIOUS
<1>1. CASE Next
  BY <1>1, CallersSoft, ProgramSoft, HardwareSoft DEF Next
<1>2. CASE UNCHANGED vars
  <2>1. UNCHANGED <<pc, on, ilimit, mA>>
    BY <1>2 DEF vars, driver, loops
  <2>2. Powered' => Powered
    BY <2>1 DEF Powered
  <2> QED BY <2>1, <2>2, LimitAlone
<1> QED BY <1>1, <1>2

LEMMA LimitInvariant == Spec => []LimitInv
<1>1. Init => LimitInv
  <2> SUFFICES ASSUME Init PROVE LimitInv
    OBVIOUS
  <2>1. pc = "boot" /\ ilimit \in {0, 48}
    BY DEF Init, BOOTUP_CHARGE_4P2_CURRENT_LIMIT
  <2> QED BY <2>1 DEF LimitInv
<1> QED BY <1>1, LimitStep, VerdictInvariant, RailInvariant, PTL DEF Spec

\* The rail is powered with the capacitor's limit at most, and the limit is raised by
\* no more than a step of the ramp while the rail is powered, through every start, stop,
\* failure, test, handoff and application (ddi_power.c 1775-1786, 1879-1930).
THEOREM SoftStartEver == Spec => SoftStart
<1>1. SoftStart <=> [][SoftStep]_vars
  BY PTL DEF SoftStart, SoftStep
<1> QED BY <1>1, LimitStep, LimitInvariant, VerdictInvariant, RailInvariant, PTL DEF Spec

-----------------------------------------------------------------------------
\* The types of what the test does not own.
StateTypes ==
  /\ pc \in Places /\ on \subseteq Bits
  /\ v5 \in BOOLEAN /\ b4p2Enabled \in BOOLEAN /\ bEnable4p2 \in BOOLEAN
  /\ bBatteryCheckComplete \in BOOLEAN /\ bPowerDriverInitialized \in BOOLEAN
  /\ caller \in {"none", "init", "user", "handoff", "disable"}
  /\ mA \in Nat /\ rounds \in 0 .. CAP_ROUNDS

LEMMA HelpersTyped ==
  ASSUME NEW S \in SUBSET Bits
  PROVE  /\ Unguarded(S) \subseteq Bits
         /\ \A e \in BOOLEAN : Brownout5v(S, e) \subseteq Bits
         /\ \A b \in Bits : SwitchedOn(S, b) \subseteq Bits
         /\ \A c, r \in BOOLEAN : MasterSwitch(S, c, r) \subseteq Bits
<1>1. {"PWDN_5VBRNOUT", "PWD_OFF", "PWD_CHARGE_4P2"} \subseteq Bits
  BY DEF Bits, Switches
<1>2. ASSUME NEW e \in BOOLEAN PROVE Brownout5v(S, e) \subseteq Bits
  BY <1>1 DEF Brownout5v
<1>3. Unguarded(S) \subseteq Bits
  BY <1>2 DEF Unguarded
<1>4. ASSUME NEW b \in Bits PROVE SwitchedOn(S, b) \subseteq Bits
  <2>1. ("PWDN_5VBRNOUT" \in S) \in BOOLEAN
    OBVIOUS
  <2>2. Brownout5v(S, "PWDN_5VBRNOUT" \in S) \subseteq Bits
    BY <1>1 DEF Brownout5v
  <2> QED BY <2>2 DEF SwitchedOn
<1>5. \A c, r \in BOOLEAN : MasterSwitch(S, c, r) \subseteq Bits
  BY <1>1 DEF MasterSwitch
<1> QED BY <1>2, <1>3, <1>4, <1>5

LEMMA ConverterTyped == on \subseteq Bits /\ EnableDcdc => on' \subseteq Bits
<1> SUFFICES ASSUME on \subseteq Bits, EnableDcdc PROVE on' \subseteq Bits
  OBVIOUS
<1>1. "ENABLE_DCDC" \in Bits
  BY DEF Bits
<1>2. Unguarded(on) \subseteq Bits /\ SwitchedOn(on, "ENABLE_DCDC") \subseteq Bits
  BY <1>1, HelpersTyped
<1> QED BY <1>2 DEF EnableDcdc

LEMMA TestTyped ==
  VerdictInv /\ StateTypes /\ Test /\ UNCHANGED <<v5, driver>> => StateTypes'
<1> SUFFICES ASSUME VerdictInv, StateTypes, Test, UNCHANGED <<v5, driver>> PROVE StateTypes'
  OBVIOUS
<1>1. pc' \in Places
  BY DEF Test, ddi_power_IsBatteryConnected, FirstReading, SecondReading, TurnOnCharger,
         ReadStart, CheckThreshold, CheckTimeout, Restore, Conclude, Places, TestPlaces
<1>2. {"ENABLE_LOAD", "CHRG_STS_OFF", "ENABLE_4P2"} \subseteq Bits /\ Switches \subseteq Bits
  BY DEF Bits, Switches
<1>3. t.prev \subseteq Switches
  BY DEF VerdictInv, TestTypeOK
<1>4. on' \subseteq Bits
  <2>1. CASE Restore
    BY <1>2, <1>3, <2>1 DEF Restore, Conclude, PutBack, StateTypes
  <2>2. CASE TurnOnCharger
    BY <1>2, <2>2 DEF TurnOnCharger, Conclude, StateTypes
  <2>3. CASE SecondReading
    BY <1>2, <2>3 DEF SecondReading, Conclude, StateTypes
  <2>4. CASE ddi_power_IsBatteryConnected \/ FirstReading \/ ReadStart \/ CheckThreshold
                \/ CheckTimeout
    BY <1>2, <2>4
       DEF ddi_power_IsBatteryConnected, FirstReading, ReadStart, CheckThreshold, CheckTimeout,
           StateTypes
  <2> QED BY <2>1, <2>2, <2>3, <2>4 DEF Test
<1> QED BY <1>1, <1>4 DEF StateTypes, driver, inits, loops

\* A step that changes the place and a flag or two.
LEMMA PlaceTyped ==
  ASSUME StateTypes, UNCHANGED <<v5, loops>>, pc' \in Places, on' \subseteq Bits,
         caller' \in {caller, "none", "init", "user", "handoff", "disable"},
         b4p2Enabled' \in {b4p2Enabled, bEnable4p2, TRUE, FALSE},
         bEnable4p2' \in {bEnable4p2, TRUE, FALSE},
         bBatteryCheckComplete' \in {bBatteryCheckComplete, TRUE, FALSE},
         bPowerDriverInitialized' \in {bPowerDriverInitialized, TRUE, FALSE}
  PROVE  StateTypes'
<1>1. caller' \in {"none", "init", "user", "handoff", "disable"}
  BY DEF StateTypes
<1>2. bEnable4p2' \in BOOLEAN /\ b4p2Enabled' \in BOOLEAN
  BY DEF StateTypes
<1>3. bBatteryCheckComplete' \in BOOLEAN /\ bPowerDriverInitialized' \in BOOLEAN
  BY DEF StateTypes
<1>4. v5' \in BOOLEAN /\ mA' \in Nat /\ rounds' \in 0 .. CAP_ROUNDS
  <2>1. v5 \in BOOLEAN /\ mA \in Nat /\ rounds \in 0 .. CAP_ROUNDS
    BY DEF StateTypes
  <2>2. v5' = v5 /\ mA' = mA /\ rounds' = rounds
    BY DEF loops
  <2> QED BY <2>1, <2>2
<1>5. pc' \in Places /\ on' \subseteq Bits
  OBVIOUS
<1> QED BY <1>1, <1>2, <1>3, <1>4, <1>5 DEF StateTypes

LEMMA CallersTyped == RailInv /\ StateTypes /\ Callers => StateTypes'
<1> SUFFICES ASSUME RailInv, StateTypes, Callers PROVE StateTypes'
  OBVIOUS
<1>1. CASE ddi_power_Enable4p2 \/ ddi_power_Disable4p2
  <2>1. UNCHANGED on /\ pc' \in Places
    BY <1>1 DEF ddi_power_Enable4p2, ddi_power_Disable4p2, Goto, Places
  <2> QED
    BY <1>1, <2>1, PlaceTyped
       DEF ddi_power_Enable4p2, ddi_power_Disable4p2, StateTypes, inits
<1>2. CASE hw_power_EnableMasterCharge
  <2>1. PICK enable \in BOOLEAN : on' = MasterSwitch(on, enable, bEnableMaster4p2)
    BY <1>2 DEF hw_power_EnableMasterCharge
  <2>2. on' \subseteq Bits /\ pc' \in Places
    BY <1>2, <2>1, HelpersTyped
       DEF hw_power_EnableMasterCharge, Goto, Places, StateTypes, RailInv, FlagsTyped
  <2> QED BY <1>2, <2>2, PlaceTyped DEF hw_power_EnableMasterCharge, inits
<1>3. CASE ddi_power_Enable5VoltsToBatteryHandoff
  <2>1. {"ENIRQ_VDD5V_DROOP", "DCDC_XFER"} \subseteq Bits
    BY DEF Bits
  <2>2. on \cup {"DCDC_XFER"} \in SUBSET Bits
    BY <2>1 DEF StateTypes
  <2>3. Brownout5v(on \cup {"DCDC_XFER"}, FALSE) \subseteq Bits
    BY <2>2, HelpersTyped
  <2>4. on' \subseteq Bits /\ pc' \in Places
    BY <1>3, <2>1, <2>3 DEF ddi_power_Enable5VoltsToBatteryHandoff, Goto, Places, StateTypes
  <2> QED BY <1>3, <2>4, PlaceTyped DEF ddi_power_Enable5VoltsToBatteryHandoff, driver, inits
<1>4. CASE ddi_power_EnableBatteryTo5VoltsHandoff
  <2>1. on' \subseteq Bits /\ pc' \in Places
    BY <1>4, ConverterTyped DEF ddi_power_EnableBatteryTo5VoltsHandoff, Goto, Places, StateTypes
  <2> QED BY <1>4, <2>1, PlaceTyped DEF ddi_power_EnableBatteryTo5VoltsHandoff, driver, inits
<1>5. CASE ddi_power_ExecuteBatteryTo5VoltsHandoff
  <2>1. Brownout5v(on, TRUE) \subseteq Bits
    BY HelpersTyped DEF StateTypes
  <2>2. on' \subseteq Bits /\ pc' \in Places
    BY <1>5, <2>1 DEF ddi_power_ExecuteBatteryTo5VoltsHandoff, Goto, Places, StateTypes
  <2> QED BY <1>5, <2>2, PlaceTyped DEF ddi_power_ExecuteBatteryTo5VoltsHandoff, inits
<1>6. CASE ddi_power_Init
  <2>1. on' \subseteq Bits /\ pc' \in Places
    BY <1>6 DEF ddi_power_Init, Goto, Places, StateTypes
  <2>2. bEnable4p2' \in BOOLEAN /\ b4p2Enabled' \in {bEnable4p2', b4p2Enabled}
    BY <1>6 DEF ddi_power_Init, MayKeep
  <2> QED BY <1>6, <2>1, <2>2, PlaceTyped DEF ddi_power_Init
<1>7. CASE NextApplication
  <2>1. UNCHANGED on /\ pc' \in Places
    BY <1>7 DEF NextApplication, Goto, Places
  <2> QED BY <1>7, <2>1, PlaceTyped DEF NextApplication, StateTypes
<1> QED BY <1>1, <1>2, <1>3, <1>4, <1>5, <1>6, <1>7 DEF Callers

LEMMA ProgramTyped == VerdictInv /\ RailInv /\ LimitInv /\ StateTypes /\ Program => StateTypes'
<1> SUFFICES ASSUME VerdictInv, RailInv, LimitInv, StateTypes, Program PROVE StateTypes'
  OBVIOUS
<1>1. CASE Test /\ UNCHANGED <<v5, driver>>
  BY <1>1, TestTyped
<1>2. CASE \/ BatteryChecked \/ KeepSupply \/ hw_power_Init4p2EnabledPowerSupply
           \/ hw_power_InitPowerSupplies \/ InitFinished
  <2>1. {"PWD", "PWD_OFF"} \subseteq Bits
    BY DEF Bits
  <2>2. on' \subseteq Bits /\ pc' \in Places
    BY <1>2, <2>1
       DEF BatteryChecked, KeepSupply, hw_power_Init4p2EnabledPowerSupply,
           hw_power_InitPowerSupplies, InitFinished, Goto, Places, StateTypes
  <2> QED
    BY <1>2, <2>2, PlaceTyped
       DEF BatteryChecked, KeepSupply, hw_power_Init4p2EnabledPowerSupply,
           hw_power_InitPowerSupplies, InitFinished, driver, inits
<1>3. CASE InitOnBattery \/ ConverterOn
  <2>1. on' \subseteq Bits /\ pc' \in Places
    BY <1>3, ConverterTyped DEF InitOnBattery, ConverterOn, Goto, Places, StateTypes
  <2> QED BY <1>3, <2>1, PlaceTyped DEF InitOnBattery, ConverterOn, driver, inits
<1>4. CASE PrepareToStart4p2
  <2>1. UNCHANGED on /\ pc' \in Places
    BY <1>4 DEF PrepareToStart4p2, Started, Places
  <2>2. b4p2Enabled' \in {b4p2Enabled, TRUE} /\ caller' \in {caller, "none"}
    BY <1>4 DEF PrepareToStart4p2, Started
  <2> QED BY <1>4, <2>1, <2>2, PlaceTyped DEF PrepareToStart4p2, StateTypes, inits
<1>5. CASE ddi_power_Start4p2
  <2>1. {"ENABLE_4P2", "ENABLE_LOAD"} \subseteq Bits
    BY DEF Bits, Switches
  <2>2. on' \subseteq Bits /\ pc' \in Places
    BY <1>5, <2>1 DEF ddi_power_Start4p2, Started, Places, StateTypes
  <2>3. b4p2Enabled' \in {b4p2Enabled, FALSE} /\ caller' \in {caller, "none"}
    BY <1>5 DEF ddi_power_Start4p2, Started
  <2> QED BY <1>5, <2>2, <2>3, PlaceTyped DEF ddi_power_Start4p2, inits
<1>6. CASE InputOn
  <2>1. SwitchedOn(on, "DCDC4P2") \subseteq Bits
    <3>1. "DCDC4P2" \in Bits
      BY DEF Bits
    <3> QED BY <3>1, HelpersTyped DEF StateTypes
  <2>2. on' \subseteq Bits /\ pc' \in Places
    BY <1>6, <2>1 DEF InputOn, Goto, Places
  <2> QED BY <1>6, <2>2, PlaceTyped DEF InputOn, driver, inits
<1>7. CASE MasterOn
  <2>1. MasterSwitch(on, bEnableMasterCharge, TRUE) \subseteq Bits
    BY HelpersTyped DEF StateTypes, RailInv, FlagsTyped
  <2>2. on' \subseteq Bits /\ pc' \in Places
    BY <1>7, <2>1 DEF MasterOn, Goto, Places
  <2> QED BY <1>7, <2>2, PlaceTyped DEF MasterOn, inits
<1>8. CASE CapWaited \/ RailOn \/ StopRail
  <2>1. on' \subseteq Bits /\ pc' \in Places
    BY <1>8 DEF CapWaited, RailOn, StopRail, Goto, Places, StateTypes
  <2> QED BY <1>8, <2>1, PlaceTyped DEF CapWaited, RailOn, StopRail, driver, inits
<1>9. CASE StopInput \/ ConverterOff
  <2>1. Unguarded(on) \subseteq Bits
    BY HelpersTyped DEF StateTypes
  <2>2. on' \subseteq Bits /\ pc' \in Places
    BY <1>9, <2>1 DEF StopInput, ConverterOff, InputOff, Goto, Places
  <2> QED BY <1>9, <2>2, PlaceTyped DEF StopInput, ConverterOff, driver, inits
<1>10. 0 \in 0 .. CAP_ROUNDS /\ CAP_ROUNDS \in Nat
  BY HandoffAssumption
<1>11. CASE StopMaster
  <2>1. on' = MasterSwitch(on, bEnableMasterCharge, FALSE) /\ bEnableMasterCharge \in BOOLEAN
    BY <1>11 DEF StopMaster, RailInv, FlagsTyped
  <2>2. on' \subseteq Bits /\ pc' \in Places
    BY <1>11, <2>1, HelpersTyped DEF StopMaster, Started, Places, StateTypes
  <2> QED BY <1>10, <1>11, <2>2 DEF StopMaster, Started, StateTypes, inits
<1>12. CASE FirstLimit
  BY <1>10, <1>12 DEF FirstLimit, Goto, Places, StateTypes, inits
<1>13. CASE CapRound
  <2>1. rounds' = (IF rounds < CAP_ROUNDS THEN rounds + 1 ELSE rounds) /\ pc' = "cap wait"
    BY <1>13 DEF CapRound, Goto
  <2>2. rounds \in Int /\ 0 <= rounds /\ rounds <= CAP_ROUNDS
    BY <1>10 DEF StateTypes
  <2>3. CASE rounds < CAP_ROUNDS
    <3>1. rounds' = rounds + 1
      BY <2>1, <2>3
    <3>2. rounds' \in 0 .. CAP_ROUNDS
      BY <1>10, <2>2, <2>3, <3>1
    <3> QED BY <1>13, <2>1, <3>2 DEF CapRound, Places, StateTypes, inits
  <2>4. CASE ~ (rounds < CAP_ROUNDS)
    <3>1. rounds' = rounds
      BY <2>1, <2>4
    <3>2. rounds' \in 0 .. CAP_ROUNDS
      BY <1>10, <2>2, <3>1
    <3> QED BY <1>13, <2>1, <3>2 DEF CapRound, Places, StateTypes, inits
  <2> QED BY <2>3, <2>4
<1>14. CASE CapCharged
  <2>1. mA' \in Nat
    BY <1>14, CurrentType DEF CapCharged, LimitInv
  <2> QED BY <1>14, <2>1 DEF CapCharged, Goto, Places, StateTypes, inits
<1>15. CASE Ramp
  <2>1. mA' \in Nat
    BY <1>15, Currents DEF Ramp, StateTypes
  <2> QED BY <1>15, <2>1 DEF Ramp, Goto, Places, StateTypes, inits
<1>16. CASE LoadOff
  BY <1>10, <1>16 DEF LoadOff, Started, Places, StateTypes, inits
<1> QED
  BY <1>1, <1>2, <1>3, <1>4, <1>5, <1>6, <1>7, <1>8, <1>9, <1>11, <1>12, <1>13, <1>14,
     <1>15, <1>16 DEF Program

\* Every register field, flag and local of driver and test has its type, the number of
\* rounds its bound.
THEOREM HandoffTypes == Spec => []TypeOK
<1>1. Init => StateTypes
  <2> SUFFICES ASSUME Init PROVE StateTypes
    OBVIOUS
  <2>1. on \subseteq Bits
    <3>1. CASE \E input \in {{}, {"DCDC4P2"}}, guard \in {{}, GuardBits} :
                 on = RailBits \cup input \cup guard
      BY <3>1 DEF RailBits, GuardBits, Bits, Switches
    <3>2. CASE on = RailBits \/ on = BatteryBits
      BY <3>2 DEF RailBits, BatteryBits, Bits, Switches
    <3> QED BY <3>1, <3>2 DEF Init
  <2>2. 0 \in 0 .. CAP_ROUNDS
    BY HandoffAssumption
  <2> QED BY <2>1, <2>2 DEF Init, StateTypes, Places
<1>2. VerdictInv /\ RailInv /\ LimitInv /\ StateTypes /\ [Next]_vars => StateTypes'
  <2> SUFFICES ASSUME VerdictInv, RailInv, LimitInv, StateTypes, [Next]_vars
               PROVE  StateTypes'
    OBVIOUS
  <2>1. CASE Hardware
    BY <2>1 DEF Hardware, Supply5v, PoweredDown, StateTypes, Places, driver, inits, loops
  <2>2. CASE UNCHANGED vars
    BY <2>2 DEF vars, driver, inits, loops, StateTypes
  <2> QED BY <2>1, <2>2, CallersTyped, ProgramTyped DEF Next
<1>3. VerdictInv /\ RailInv /\ StateTypes => TypeOK
  BY DEF VerdictInv, RailInv, FlagsTyped, StateTypes, TypeOK
<1> QED BY <1>1, <1>2, <1>3, VerdictInvariant, RailInvariant, LimitInvariant, PTL DEF Spec
=============================================================================
