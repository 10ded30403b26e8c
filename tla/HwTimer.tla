------------------------------ MODULE HwTimer -------------------------------
(***************************************************************************)
(* The free-running microsecond counter (HW_DIGCTL_MICROSECONDS, 32 bits)  *)
(* and the loops of the boot program that wait on it:                      *)
(*   hw_digctl_MicrosecondWait   a plain wait on hw_digctl_CheckTimeOut    *)
(*   PowerPrep_Init4p2Regulator  waits for the 4P2 rail, with a timeout    *)
(*   battery_test                waits for the battery pin to rise, with a *)
(*                               timeout (ddi_power_handoff.c)             *)
(*   drv_delay                   the plain wait of X-Boot                  *)
(*   exit_selfrefresh            waits for the DRAM, with a timeout        *)
(* The first three compare differences of the counter, the other two       *)
(* compare the counter with an absolute end that may have wrapped around.  *)
(*                                                                         *)
(* Time passes between any two reads of the program, at most MAX_GAP       *)
(* microseconds between two reads of the counter.  What a loop waits for,  *)
(* its event, may happen at any moment and then stays.                     *)
(***************************************************************************)
EXTENDS Integers

CONSTANTS WORD,                 \* values of the counter (2^32)
          MAX_GAP,              \* time between two reads at most
          Waits,                \* microseconds that are asked for
          CAP                   \* bound on the recorded time

ASSUME WordAssumption == WORD \in Nat \ {0}
ASSUME GapAssumption  == MAX_GAP \in Nat
ASSUME WaitAssumption == /\ Waits \subseteq Nat
                         /\ \A w \in Waits : w + MAX_GAP < WORD
ASSUME CapAssumption  == CAP \in Nat /\ CAP >= WORD

Times == 0 .. WORD - 1
NEVER == -1

Polling    == {"PowerPrep_Init4p2Regulator", "battery_test", "exit_selfrefresh"}
Plain      == {"hw_digctl_MicrosecondWait", "drv_delay"}
Routines   == Polling \cup Plain
\* The routines whose test is right wherever the counter wraps.
Difference == {"hw_digctl_MicrosecondWait", "PowerPrep_Init4p2Regulator", "battery_test"}

VARIABLES now,                  \* the counter
          pc, routine, start, wait,
          event, seen,          \* what is waited for: when it happened, if it
                                \* was seen
          outcome,              \* how the last wait ended
          elapsed,              \* auxiliary: the time since the call
          gap                   \* auxiliary: the time since the counter was read

vars == <<now, pc, routine, start, wait, event, seen, outcome, elapsed, gap>>

-----------------------------------------------------------------------------
\* Faulty variants of definitions below, by which it is checked that the
\* properties can fail: an end that may have wrapped,
\* a test for equality with the end, a loop that looks at the clock only.
WrapIgnored(StartTime, TimeOut, CurTime) == CurTime >= (StartTime + TimeOut) % WORD
EndExactly(StartTime, TimeOut, CurTime)  == CurTime = (StartTime + TimeOut) % WORD
ClockOnly(r) == "time"

\* Addition and subtraction of unsigned words.
Plus(a, b)  == IF a + b >= WORD THEN a + b - WORD ELSE a + b
Minus(a, b) == IF a >= b THEN a - b ELSE a - b + WORD

-----------------------------------------------------------------------------
\* hw_digctl_CheckTimeOut, with the value it reads as its last parameter.
CheckTimeOut(StartTime, TimeOut, CurTime) ==
  LET EndTime == Plus(StartTime, TimeOut)
  IN  IF StartTime <= EndTime
      THEN ~(CurTime >= StartTime /\ CurTime < EndTime)
      ELSE ~(CurTime >= StartTime \/ CurTime < EndTime)

\* The test of each loop on the value cur it has read.
Expired(r, cur) ==
  CASE r = "drv_delay"        -> cur >= Plus(start, wait)
    [] r = "exit_selfrefresh" -> cur > Plus(start, wait)
    [] r = "battery_test"     -> Minus(cur, start) > wait
    [] OTHER                  -> CheckTimeOut(start, wait, cur)

\* Where a loop begins: the polling ones look at the hardware first.
FirstStep(r) == IF r \in Polling THEN "event" ELSE "time"

\* A call.  drv_delay compares the start itself before it reads the counter again.
Call == \E r \in Routines, w \in Waits :
  /\ pc = "idle"
  /\ pc' = IF r = "drv_delay" /\ now >= Plus(now, w) THEN "done" ELSE FirstStep(r)
  /\ routine' = r /\ start' = now /\ wait' = w
  /\ event' = NEVER /\ seen' = FALSE
  /\ outcome' = "timeout"
  /\ elapsed' = 0 /\ gap' = 0
  /\ UNCHANGED now

\* The hardware is looked at.  battery_test goes on to the clock whatever it saw,
\* the other loops end.
CheckEvent ==
  /\ pc = "event"
  /\ seen' = (event # NEVER)
  /\ pc' = IF event # NEVER /\ routine # "battery_test" THEN "done" ELSE "time"
  /\ outcome' = IF event # NEVER THEN "event" ELSE outcome
  /\ UNCHANGED <<now, routine, start, wait, event, elapsed, gap>>

\* The counter is read and tested.
CheckTime ==
  /\ pc = "time"
  /\ gap' = 0
  /\ outcome' = IF Expired(routine, now) THEN "timeout" ELSE outcome
  /\ pc' = IF Expired(routine, now) \/ seen THEN "done" ELSE FirstStep(routine)
  /\ UNCHANGED <<now, routine, start, wait, event, seen, elapsed>>

\* The caller goes on.
Return == /\ pc = "done"
          /\ pc' = "idle"
          /\ UNCHANGED <<now, routine, start, wait, event, seen, outcome, elapsed, gap>>

\* A microsecond passes.
Tick == /\ pc \in {"event", "time"} => gap < MAX_GAP
        /\ now' = Plus(now, 1)
        /\ IF pc \in {"event", "time"}
             THEN /\ elapsed' = IF elapsed < CAP THEN elapsed + 1 ELSE elapsed
                  /\ gap' = gap + 1
             ELSE UNCHANGED <<elapsed, gap>>
        /\ UNCHANGED <<pc, routine, start, wait, event, seen, outcome>>

\* What a polling loop waits for happens.
EventHappens == /\ pc \in {"event", "time"} /\ routine \in Polling
                /\ event = NEVER
                /\ event' = elapsed
                /\ UNCHANGED <<now, pc, routine, start, wait, seen, outcome, elapsed, gap>>

Init == /\ now \in Times
        /\ pc = "idle" /\ routine = "drv_delay" /\ start = 0 /\ wait = 0
        /\ event = NEVER /\ seen = FALSE /\ outcome = "timeout"
        /\ elapsed = 0 /\ gap = 0

Program == CheckEvent \/ CheckTime
Next == Call \/ Program \/ Return \/ Tick \/ EventHappens
Spec == Init /\ [][Next]_vars

-----------------------------------------------------------------------------
TypeOK ==
  /\ now \in Times /\ start \in Times
  /\ pc \in {"idle", "event", "time", "done"}
  /\ routine \in Routines
  /\ wait \in Waits \cup {0}
  /\ event \in {NEVER} \cup (0 .. CAP) /\ seen \in BOOLEAN
  /\ outcome \in {"timeout", "event"}
  /\ elapsed \in 0 .. CAP
  /\ gap \in 0 .. MAX_GAP

InLoop == pc \in {"event", "time"}

\* The test of this call is right: it compares differences, or its end does not
\* come near the wrap of the counter.
Reliable == routine \in Difference \/ start + wait + MAX_GAP < WORD

\* A wait that ends by the clock has lasted as long as was asked for.
NeverEarly == pc = "done" /\ outcome = "timeout" /\ Reliable => elapsed >= wait

\* A wait goes on past the time that was asked for by no more than the distance
\* of two reads: no test misses its end.
NeverLate == InLoop /\ Reliable => elapsed <= wait + gap

\* The two loops that end on their event report a timeout only when the event has
\* not happened, or has happened after their last look at the hardware: an event
\* is not missed for longer than two reads lie apart.
EventNotMissed ==
  pc = "done" /\ outcome = "timeout" /\ event # NEVER /\ routine # "battery_test"
    => elapsed - event <= MAX_GAP
=============================================================================
