------------------------------ MODULE ArpWait -------------------------------
(***************************************************************************)
(* The ping of X-Boot (src/net/net.c): net_ping_req sends an ARP request   *)
(* and then polls the chip and local_net_arp_timeout_check, which repeats  *)
(* the request when the timer has run out and gives up in the end.  Frames *)
(* that are received are only queued (see NetRx); no answer ends the loop. *)
(*                                                                         *)
(* Time is the counter of get_tick, in microseconds, a word that wraps     *)
(* around; MS of them are a millisecond.  At most MAX_GAP of them pass     *)
(* between two passes of the loop, in which the chip is read.              *)
(*                                                                         *)
(* The request is built in place at &NetTxPackets[0], that is at the start *)
(* of the global context itself: its layout is a part of the model.        *)
(***************************************************************************)
EXTENDS Integers, FiniteSets

CONSTANTS WORD,                 \* values of the counter (2^32)
          MS,                   \* microseconds in a millisecond (1000)
          ARP_TIMEOUT,          \* milliseconds (5000)
          ARP_TIMEOUT_COUNT,    \* 5
          MAX_GAP,              \* time between two polls at most
          MAX_PINGS,            \* calls of net_ping_req
          CAP                   \* bound on the recorded time

ASSUME ArpAssumption ==
  /\ WORD \in Nat /\ MS \in Nat \ {0} /\ ARP_TIMEOUT \in Nat /\ MAX_GAP \in Nat \ {0}
  /\ (ARP_TIMEOUT + 1) * MS + MAX_GAP < WORD
  /\ ARP_TIMEOUT_COUNT \in Nat /\ ARP_TIMEOUT_COUNT >= 2
  /\ MAX_PINGS \in Nat
  /\ CAP \in Nat /\ CAP > (ARP_TIMEOUT + 1) * MS + MAX_GAP

\* The layout of GBL_CTX up to the retry state: where each field begins, in bytes.
CtxFields ==
  [NetTxPackets |-> 0, NetRxPackets |-> 4, NetArpWaitTxPacket |-> 20,
   NetArpWaitTxPacketSize |-> 24, Status |-> 28, BootFile |-> 32, linux_load_addr |-> 160,
   NetArpWaitPacketMAC |-> 164, NetArpWaitPacketIP |-> 168, NetArpWaitReplyIP |-> 172,
   NetArpWaitTimerStart |-> 176, NetArpWaitTry |-> 180]
Fields   == DOMAIN CtxFields
Pointers == {"NetTxPackets", "NetRxPackets", "NetArpWaitTxPacket"}

\* sizeof (Ethernet_t) and sizeof (ARP_t).
ETHER_HDR_SIZE == 14
ARP_HDR_SIZE   == 28

VARIABLES ping,                 \* "idle", "loop": in net_ping_req
          net_state, NetArpWaitPacketIP, NetArpWaitTimerStart, NetArpWaitTry,
          now,                  \* the counter
          clobbered,            \* fields of GBL_CTX a frame was written over
          requests,             \* auxiliary: of the present ping, up to the limit
          since,                \* auxiliary: time since the last request
          gap,                  \* auxiliary: time since the last poll
          pings                 \* calls so far

state == <<net_state, NetArpWaitPacketIP, NetArpWaitTimerStart, NetArpWaitTry>>
pingVars  == <<ping, state, now, clobbered, requests, since, gap, pings>>

-----------------------------------------------------------------------------
\* The counter moves on; the difference of two unsigned words.
Succ(t)       == IF t = WORD - 1 THEN 0 ELSE t + 1
Minus(a, b)   == IF a >= b THEN a - b ELSE a - b + WORD

\* Faulty variants of definitions below, by which it is checked that the
\* properties can fail: a test that forgets the division, a try that is not counted.
MicrosForMillis(t) == Minus(t, NetArpWaitTimerStart) > ARP_TIMEOUT
TryNotCounted      == NetArpWaitTry

-----------------------------------------------------------------------------
\* The bytes of the context that a request is written over, and their fields.
FrameLength == ETHER_HDR_SIZE + ARP_HDR_SIZE
Written     == {f \in Fields : CtxFields[f] < FrameLength}

\* local_net_arp_request: the frame is built and sent; whether the chip takes it
\* is not asked.
local_net_arp_request ==
  /\ clobbered' = clobbered \cup Written
  /\ requests' = IF requests < ARP_TIMEOUT_COUNT THEN requests + 1 ELSE requests
  /\ since' = 0

\* local_net_ping_send, and the loop is entered.
PingSend == \E ip \in {0, 1} :
  /\ ping = "idle" /\ pings < MAX_PINGS
  /\ ping' = "loop"
  /\ NetArpWaitPacketIP' = ip
  /\ NetArpWaitTry' = 1
  /\ NetArpWaitTimerStart' = now
  /\ net_state' = "CONTINUE"
  /\ clobbered' = clobbered \cup Written
  /\ requests' = 1 /\ since' = 0 /\ gap' = 0
  /\ pings' = pings + 1
  /\ UNCHANGED now

\* The timer has run out: whole milliseconds are compared.
TimedOut(t) == Minus(t, NetArpWaitTimerStart) \div MS > ARP_TIMEOUT

\* The tries are counted, and the last one ends the ping.
NextTry   == NetArpWaitTry + 1
Exhausted == NextTry >= ARP_TIMEOUT_COUNT

\* local_net_arp_timeout_check, with nothing to wait for or before the timeout ...
PollNothing == /\ ping = "loop" /\ net_state = "CONTINUE"
               /\ NetArpWaitPacketIP = 0 \/ ~TimedOut(now)
               /\ gap' = 0
               /\ UNCHANGED <<ping, state, now, clobbered, requests, since, pings>>

\* ... at a timeout that is followed by another request ...
PollRetry == /\ ping = "loop" /\ net_state = "CONTINUE"
             /\ NetArpWaitPacketIP # 0 /\ TimedOut(now)
             /\ ~Exhausted
             /\ NetArpWaitTry' = NextTry
             /\ NetArpWaitTimerStart' = now
             /\ local_net_arp_request
             /\ gap' = 0
             /\ UNCHANGED <<ping, net_state, NetArpWaitPacketIP, now, pings>>

\* ... and at the last one.
PollGiveUp == /\ ping = "loop" /\ net_state = "CONTINUE"
              /\ NetArpWaitPacketIP # 0 /\ TimedOut(now)
              /\ Exhausted
              /\ NetArpWaitTry' = 0
              /\ net_state' = "RESTART"
              /\ gap' = 0
              /\ UNCHANGED <<ping, NetArpWaitPacketIP, NetArpWaitTimerStart, now, clobbered,
                             requests, since, pings>>

\* The loop is left.
Leave == /\ ping = "loop" /\ net_state # "CONTINUE"
         /\ ping' = "idle"
         /\ UNCHANGED <<state, now, clobbered, requests, since, gap, pings>>

Tick == /\ ping = "loop" => gap < MAX_GAP
        /\ now' = Succ(now)
        /\ IF ping = "loop"
             THEN since' = (IF since < CAP THEN since + 1 ELSE since) /\ gap' = gap + 1
             ELSE UNCHANGED <<since, gap>>
        /\ UNCHANGED <<ping, state, clobbered, requests, pings>>

\* The context is cleared when it is allocated; the counter stands anywhere.
PingInit ==
  /\ ping = "idle" /\ now \in 0 .. WORD - 1
  /\ net_state = "unset" /\ NetArpWaitPacketIP = 0
  /\ NetArpWaitTimerStart = 0 /\ NetArpWaitTry = 0
  /\ clobbered = {}
  /\ requests = 0 /\ since = 0 /\ gap = 0 /\ pings = 0

Poll == PollNothing \/ PollRetry \/ PollGiveUp
PingNext == PingSend \/ Poll \/ Leave \/ Tick
PingSpec == PingInit /\ [][PingNext]_pingVars

\* The loop runs on, and so does the counter.
FairPingSpec == PingSpec /\ WF_pingVars(Poll \/ Leave) /\ WF_pingVars(Tick)

-----------------------------------------------------------------------------
PingLoops    == ping = "loop" /\ net_state = "CONTINUE"
AwaitsAnswer == PingLoops /\ NetArpWaitPacketIP # 0

PingTypeOK ==
  /\ ping \in {"idle", "loop"}
  /\ net_state \in {"unset", "CONTINUE", "RESTART"}
  /\ NetArpWaitPacketIP \in {0, 1}
  /\ NetArpWaitTimerStart \in 0 .. WORD - 1 /\ now \in 0 .. WORD - 1
  /\ NetArpWaitTry \in 0 .. ARP_TIMEOUT_COUNT - 1
  /\ clobbered \subseteq Fields
  /\ requests \in 0 .. ARP_TIMEOUT_COUNT
  /\ since \in 0 .. CAP
  /\ gap \in 0 .. MAX_GAP
  /\ pings \in 0 .. MAX_PINGS

\* Two requests are ARP_TIMEOUT milliseconds apart at least, wherever the counter
\* wraps.
RequestsSpaced ==
  [][requests' > requests /\ requests' > 1 => since > ARP_TIMEOUT * MS]_pingVars

\* A ping for a real address ends.
PingEnds == AwaitsAnswer ~> ping = "idle"

\* "setup packet buffers": the pointers to the packets of the stack remain.
PacketPointersKept == clobbered \cap Pointers = {}
=============================================================================
