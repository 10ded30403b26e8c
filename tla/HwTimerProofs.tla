--------------------------- MODULE HwTimerProofs ----------------------------
(***************************************************************************)
(* Proofs about HwTimer: the test of hw_digctl_CheckTimeOut is exact for   *)
(* every width of the counter, and the waits that rest on it last as long  *)
(* as was asked for and no longer than the distance of two reads more.     *)
(***************************************************************************)
EXTENDS HwTimer, TLAPS

\* hw_digctl_CheckTimeOut is true exactly when the time asked for has passed,
\* wherever the counter stood at the start, as long as less than a lap of the
\* counter has passed.
THEOREM CheckTimeOutIsExact ==
  ASSUME NEW s \in Times, NEW w \in Times, NEW e \in Times
  PROVE  CheckTimeOut(s, w, Plus(s, e)) <=> e >= w
BY WordAssumption DEF CheckTimeOut, Plus, Times

\* The difference that battery_test computes is the time that has passed.
LEMMA MinusUndoesPlus ==
  ASSUME NEW s \in Times, NEW e \in Times
  PROVE  Minus(Plus(s, e), s) = e
BY WordAssumption DEF Minus, Plus, Times

LEMMA PlusIsTime ==
  ASSUME NEW s \in Times, NEW e \in Times
  PROVE  Plus(s, e) \in Times
BY WordAssumption DEF Plus, Times

\* One more microsecond.
LEMMA PlusOne ==
  ASSUME NEW s \in Times, NEW e \in Nat, e + 1 < WORD
  PROVE  Plus(Plus(s, e), 1) = Plus(s, e + 1)
BY WordAssumption DEF Plus, Times

\* No time at all.
LEMMA PlusZero ==
  ASSUME NEW s \in Times
  PROVE  s = Plus(s, 0)
BY WordAssumption DEF Plus, Times

\* Only an empty wait has passed at its start, if its end does not wrap.
LEMMA EndNotBeforeStart ==
  ASSUME NEW s \in Times, NEW w \in Nat, s + w + MAX_GAP < WORD, s >= Plus(s, w)
  PROVE  w = 0
BY WordAssumption, GapAssumption DEF Plus, Times

\* An end that is not near the wrap is passed exactly when the time has passed.
LEMMA EndWithoutWrap ==
  ASSUME NEW s \in Times, NEW w \in Nat, s + w + MAX_GAP < WORD,
         NEW e \in Nat, e <= w + MAX_GAP
  PROVE  /\ Plus(s, w) = s + w
         /\ Plus(s, e) = s + e
BY WordAssumption, GapAssumption DEF Plus, Times

\* What holds between the recorded time, the counter and the state of the loop.
Timely ==
  /\ InLoop => wait \in Waits
  /\ InLoop /\ Reliable => /\ elapsed <= wait + gap
                           /\ now = Plus(start, elapsed)
  /\ pc = "time" /\ seen => outcome = "event"
  /\ NeverEarly

IInv == TypeOK /\ Timely

\* The test of each reliable loop on the present value of the counter.
LEMMA ExpiredIsExact ==
  ASSUME IInv, pc = "time", Reliable
  PROVE  /\ Expired(routine, now) => elapsed >= wait
         /\ ~Expired(routine, now) => elapsed <= wait
<1> USE DEF InLoop
<1>1. /\ start \in Times /\ wait \in Waits /\ wait \in Times
      /\ elapsed \in Times /\ gap \in 0 .. MAX_GAP
      /\ elapsed <= wait + gap /\ now = Plus(start, elapsed)
  BY WordAssumption, GapAssumption, WaitAssumption, CapAssumption
     DEF IInv, TypeOK, Timely, Times
<1>2. CASE routine = "drv_delay"
  <2>1. start + wait + MAX_GAP < WORD
    BY <1>2 DEF Reliable, Difference
  <2>2. Plus(start, wait) = start + wait /\ now = start + elapsed
    BY <1>1, <2>1, EndWithoutWrap, GapAssumption DEF Times
  <2> QED BY <1>1, <1>2, <2>2 DEF Expired, Times
<1>3. CASE routine = "exit_selfrefresh"
  <2>1. start + wait + MAX_GAP < WORD
    BY <1>3 DEF Reliable, Difference
  <2>2. Plus(start, wait) = start + wait /\ now = start + elapsed
    BY <1>1, <2>1, EndWithoutWrap, GapAssumption DEF Times
  <2> QED BY <1>1, <1>3, <2>2 DEF Expired, Times
<1>4. CASE routine = "battery_test"
  BY <1>1, <1>4, MinusUndoesPlus DEF Expired, Times
<1>5. CASE routine \notin {"drv_delay", "exit_selfrefresh", "battery_test"}
  BY <1>1, <1>5, CheckTimeOutIsExact DEF Expired, Times
<1> QED BY <1>2, <1>3, <1>4, <1>5

LEMMA InitTimely == Init => IInv
<1> SUFFICES ASSUME Init
             PROVE  IInv
  OBVIOUS
<1>1. now \in Times /\ start \in Times /\ elapsed \in 0 .. CAP /\ gap \in 0 .. MAX_GAP
  BY WordAssumption, GapAssumption, CapAssumption DEF Init, Times
<1>2. TypeOK
  BY <1>1 DEF Init, TypeOK, Routines, Plain
<1>3. Timely
  BY DEF Init, Timely, NeverEarly, InLoop
<1> QED BY <1>2, <1>3 DEF IInv

LEMMA CallTimely == IInv /\ Call => IInv'
<1> SUFFICES ASSUME IInv, NEW r \in Routines, NEW w \in Waits,
                    pc = "idle",
                    pc' = IF r = "drv_delay" /\ now >= Plus(now, w) THEN "done" ELSE FirstStep(r),
                    routine' = r, start' = now, wait' = w, event' = NEVER, seen' = FALSE,
                    outcome' = "timeout", elapsed' = 0, gap' = 0, now' = now
             PROVE  IInv'
  BY DEF Call
<1>1. now \in Times /\ w \in Nat /\ w + MAX_GAP < WORD
  BY WaitAssumption DEF IInv, TypeOK
<1>2. pc' \in {"event", "time", "done"} /\ (pc' = "done" => r = "drv_delay" /\ now >= Plus(now, w))
  BY DEF FirstStep
<1>3. TypeOK'
  <2>1. elapsed' \in 0 .. CAP /\ gap' \in 0 .. MAX_GAP
    BY GapAssumption, CapAssumption
  <2> QED BY <1>1, <1>2, <2>1 DEF TypeOK
<1>4. now = Plus(now, 0)
  BY <1>1, PlusZero
<1>5. ASSUME pc' = "done", Reliable'
      PROVE  w = 0
  <2>1. now + w + MAX_GAP < WORD /\ now >= Plus(now, w)
    BY <1>2, <1>5 DEF Reliable, Difference
  <2> QED BY <1>1, <2>1, EndNotBeforeStart
<1>6. NeverEarly'
  BY <1>5 DEF NeverEarly
<1>7. Timely'
  BY <1>1, <1>4, <1>6 DEF Timely, InLoop
<1> QED BY <1>3, <1>7 DEF IInv

LEMMA CheckEventTimely == IInv /\ CheckEvent => IInv'
BY DEF IInv, CheckEvent, TypeOK, Timely, NeverEarly, InLoop, Reliable

LEMMA CheckTimeTimely == IInv /\ CheckTime => IInv'
<1> SUFFICES ASSUME IInv, CheckTime
             PROVE  IInv'
  OBVIOUS
<1>1. TypeOK'
  BY GapAssumption DEF IInv, TypeOK, CheckTime, FirstStep
<1>2. Reliable => /\ Expired(routine, now) => elapsed >= wait
                  /\ ~Expired(routine, now) => elapsed <= wait
  BY ExpiredIsExact DEF CheckTime
<1>3. wait \in Nat /\ elapsed \in Nat
  BY WaitAssumption, CapAssumption DEF IInv, TypeOK
<1>4. Timely'
  BY <1>2, <1>3 DEF IInv, Timely, CheckTime, FirstStep, NeverEarly, InLoop, Reliable
<1> QED BY <1>1, <1>4 DEF IInv

LEMMA TickTimely == IInv /\ Tick => IInv'
<1> SUFFICES ASSUME IInv, Tick
             PROVE  IInv'
  OBVIOUS
<1>1. now' \in Times
  BY WordAssumption DEF IInv, TypeOK, Tick, Plus, Times
<1>2. CASE InLoop
  <2>1. gap < MAX_GAP /\ gap' = gap + 1 /\ now' = Plus(now, 1)
        /\ elapsed' = IF elapsed < CAP THEN elapsed + 1 ELSE elapsed
    BY <1>2 DEF Tick, InLoop
  <2>2. TypeOK'
    BY <1>1, <2>1, GapAssumption, CapAssumption DEF IInv, TypeOK, Tick
  <2>3. wait \in Waits /\ wait \in Nat /\ wait + MAX_GAP < WORD
        /\ elapsed \in Nat /\ gap \in Nat
    BY <1>2, WaitAssumption, GapAssumption, CapAssumption DEF IInv, TypeOK, Timely
  <2>4. Reliable => elapsed' <= wait + gap' /\ now' = Plus(start, elapsed')
    <3> SUFFICES ASSUME Reliable
                 PROVE  elapsed' <= wait + gap' /\ now' = Plus(start, elapsed')
      OBVIOUS
    <3>1. elapsed <= wait + gap /\ now = Plus(start, elapsed) /\ start \in Times
      BY <1>2 DEF IInv, Timely, TypeOK
    <3>2. elapsed + 1 < WORD /\ elapsed' = elapsed + 1
      BY <2>1, <2>3, <3>1, WordAssumption, GapAssumption, CapAssumption
    <3>3. Plus(Plus(start, elapsed), 1) = Plus(start, elapsed + 1)
      BY <2>3, <3>1, <3>2, PlusOne
    <3> QED BY <2>1, <2>3, <3>1, <3>2, <3>3
  <2>5. Timely'
    BY <1>2, <2>3, <2>4 DEF IInv, Timely, Tick, NeverEarly, InLoop, Reliable
  <2> QED BY <2>2, <2>5 DEF IInv
<1>3. CASE ~InLoop
  BY <1>1, <1>3 DEF IInv, TypeOK, Timely, Tick, NeverEarly, InLoop, Reliable
<1> QED BY <1>2, <1>3

LEMMA OthersTimely == IInv /\ (Return \/ EventHappens \/ UNCHANGED vars) => IInv'
BY DEF IInv, Return, EventHappens, vars, TypeOK, Timely, NeverEarly, InLoop, Reliable

\* The relation of counter and recorded time holds in every state.
THEOREM TimelyEver == Spec => []IInv
<1>1. IInv /\ [Next]_vars => IInv'
  BY CallTimely, CheckEventTimely, CheckTimeTimely, TickTimely, OthersTimely DEF Next, Program
<1> QED BY InitTimely, <1>1, PTL DEF Spec

\* A wait that ends by the clock has lasted as long as was asked for.
THEOREM NeverEarlyEver == Spec => []NeverEarly
<1>1. IInv => NeverEarly
  BY DEF IInv, Timely
<1> QED BY TimelyEver, <1>1, PTL

\* No test misses its end.
THEOREM NeverLateEver == Spec => []NeverLate
<1>1. IInv => NeverLate
  BY DEF IInv, Timely, NeverLate
<1> QED BY TimelyEver, <1>1, PTL

-----------------------------------------------------------------------------
\* Behind a look that found nothing, the event can be no older than the last
\* reading of the counter.
EventFresh ==
  /\ pc = "time" /\ event # NEVER /\ routine # "battery_test" => elapsed - event <= gap
  /\ InLoop /\ event # NEVER => routine \in Polling
  /\ EventNotMissed

LEMMA EventFreshStep == IInv /\ IInv' /\ EventFresh /\ [Next]_vars => EventFresh'
<1> SUFFICES ASSUME TypeOK, EventFresh, [Next]_vars
             PROVE  EventFresh'
  BY DEF IInv
<1> USE DEF EventFresh, EventNotMissed, InLoop
<1>1. elapsed \in Nat /\ gap \in 0 .. MAX_GAP /\ event \in {NEVER} \cup Nat
  BY CapAssumption DEF TypeOK
<1>2. CASE Call
  BY <1>2 DEF Call
<1>3. CASE CheckEvent
  <2>1. event' = event /\ routine' = routine
    BY <1>3 DEF CheckEvent
  <2>2. CASE event # NEVER
    <3>1. (pc' = "done" /\ outcome' = "event") \/ routine = "battery_test"
      BY <1>3, <2>2 DEF CheckEvent
    <3> QED BY <2>1, <3>1 DEF Polling
  <2>3. CASE event = NEVER
    BY <2>1, <2>3
  <2> QED BY <2>2, <2>3
<1>4. CASE CheckTime
  <2>1. pc' = "done" \/ pc' = FirstStep(routine)
    BY <1>4 DEF CheckTime
  <2>2. routine' = routine /\ event' = event /\ elapsed' = elapsed /\ pc = "time"
    BY <1>4 DEF CheckTime
  <2>3. PICK e : e = event'
    OBVIOUS
  <2>4. PICK n : n = elapsed'
    OBVIOUS
  <2>5. event # NEVER /\ routine # "battery_test" => n - e <= MAX_GAP
    BY <1>1, <2>2, <2>3, <2>4, GapAssumption
  <2>6. pc' = "time" => event = NEVER \/ routine \notin Polling
    BY <2>1 DEF FirstStep
  <2>7. event # NEVER => routine \in Polling
    BY <2>2
  <2> QED BY <2>2, <2>3, <2>4, <2>5, <2>6, <2>7
<1>5. CASE Return
  BY <1>5 DEF Return
<1>6. CASE Tick
  <2>1. CASE pc = "time"
    <3>1. elapsed' <= elapsed + 1 /\ elapsed' \in Nat /\ gap' = gap + 1
      BY <1>1, <1>6, <2>1 DEF Tick
    <3>2. pc' = "time" /\ event' = event /\ routine' = routine
      BY <1>6, <2>1 DEF Tick
    <3>3. PICK e : e = elapsed'
      OBVIOUS
    <3>4. PICK g : g = gap'
      OBVIOUS
    <3>5. event # NEVER /\ routine # "battery_test" => e - event <= g
      BY <1>1, <2>1, <3>1, <3>3, <3>4
    <3> QED BY <2>1, <3>2, <3>3, <3>4, <3>5
  <2>2. CASE pc # "time"
    <3>1. pc = "done" => elapsed' = elapsed
      BY <1>6 DEF Tick
    <3> QED BY <1>6, <2>2, <3>1 DEF Tick
  <2> QED BY <2>1, <2>2
<1>7. CASE EventHappens
  BY <1>1, <1>7 DEF EventHappens
<1>8. CASE UNCHANGED vars
  BY <1>8 DEF vars
<1> QED BY <1>2, <1>3, <1>4, <1>5, <1>6, <1>7, <1>8 DEF Next, Program

\* PowerPrep_Init4p2Regulator and exit_selfrefresh report a timeout only if what
\* they wait for has not happened, or no longer ago than two reads lie apart.
THEOREM EventNotMissedEver == Spec => []EventNotMissed
<1>1. Init => EventFresh
  BY DEF Init, EventFresh, EventNotMissed, InLoop
<1>2. EventFresh => EventNotMissed
  BY DEF EventFresh
<1> QED BY <1>1, <1>2, EventFreshStep, TimelyEver, PTL DEF Spec
=============================================================================
