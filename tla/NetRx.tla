------------------------------- MODULE NetRx --------------------------------
(***************************************************************************)
(* The receive side of X-Boot, from the KS8851 chip to net_rx_process: the *)
(* set-up of the packet heap and of the packets the stack keeps (drv_eth.c,*)
(* net.c), the loop of net_ping_req, which polls the chip and takes        *)
(* nothing out of the ring, and the main loop of main.c, which polls the   *)
(* chip and empties the ring.                                              *)
(*                                                                         *)
(* The program is one thread.  What runs beside it is the chip, which      *)
(* queues a frame whenever one arrives; it may do so between any two steps *)
(* of the program.  An empty frame is one whose header read from RXFHSR    *)
(* carries the length 0; ks8851_rx returns 0 for it and reads nothing.     *)
(*                                                                         *)
(* The packet heap is the one of EthHeap: its variable result holds the    *)
(* packet between the allocation and its use, as pRxPacket does.           *)
(***************************************************************************)
EXTENDS EthHeap

CONSTANTS ETH_RX_POOL_SIZE,     \* slots of the receive ring
          RESERVED,             \* packets net_init takes and keeps: Tx, Rx, ARP
          CHIP_QUEUE,           \* frames the chip queues at most
          Data,                 \* contents a frame may have
          EMPTY,                \* the frame of length 0
          MAX_EMPTY             \* empty frames that arrive at most

\* The counts of the source: 1000 packets, 256 slots, 1 + 4 + 1 reserved.
ASSUME RxSizeAssumption == /\ ETH_RX_POOL_SIZE \in Nat \ {0}
                           /\ RESERVED \in Nat
                           /\ CHIP_QUEUE \in 0 .. 255
                           /\ NET_PKT_COUNT > RESERVED + ETH_RX_POOL_SIZE
ASSUME FrameAssumption  == EMPTY \notin Data /\ MAX_EMPTY \in Nat

Frames == Data \cup {EMPTY}
Slots == 0 .. ETH_RX_POOL_SIZE - 1

VARIABLES pc, loop,             \* where the program is, and in which loop
          reserved,             \* packets net_init took; none is ever given back
          skipped,              \* auxiliary: packets taken for empty frames
          chip,                 \* the queue of the chip
          rxfc,                 \* drv_eth_rx: frames left to read
          buf,                  \* contents of the packets
          rx_pool, rx_pool_get, rx_pool_put,
          out                   \* contents of the frame processed last

ring == <<rx_pool, rx_pool_get, rx_pool_put>>
vars == <<heapVars, pc, loop, reserved, skipped, chip, rxfc, buf, ring, out>>

Goto(from, to) == pc = from /\ pc' = to

-----------------------------------------------------------------------------
\* Faulty variants of definitions below, by which it is checked that the
\* properties can fail: a ring that never counts as full, a packet that is
\* delivered but stays in the ring, a frame that is not counted, a killed frame
\* whose packet is not given back, an interrupt gate that is always closed.
NeverFull       == FALSE
GetNotAdvanced  == rx_pool_get
FrameNotCounted == /\ Goto("read", "rx")
                   /\ chip' = Tail(chip)
                   /\ UNCHANGED <<rxfc, loop, reserved, out>>
KilledNotFreed  == /\ Goto("read", "rx")
                   /\ Head(chip) # EMPTY
                   /\ rx_pool_put + 1 - rx_pool_get \in {0, ETH_RX_POOL_SIZE}
                   /\ rxfc' = rxfc - 1
                   /\ chip' = Tail(chip)
                   /\ UNCHANGED <<heapVars, loop, reserved, skipped, buf, ring, out>>
GateClosed      == /\ Goto("rxfc", "rx")
                   /\ rxfc' = 0
                   /\ UNCHANGED <<heapVars, loop, reserved, skipped, chip, buf, ring, out>>

-----------------------------------------------------------------------------
\* drv_eth_init tries the heap once: one packet is taken ...
HeapTestAlloc == /\ Goto("test_alloc", "test_free")
                 /\ HeapAlloc
                 /\ UNCHANGED <<loop, reserved, skipped, chip, rxfc, buf, ring, out>>

\* ... and given back.
HeapTestFree == /\ Goto("test_free", "open")
                /\ HeapFree(result)
                /\ UNCHANGED <<loop, reserved, skipped, chip, rxfc, buf, ring, out>>

\* The rest of drv_eth_init and of datalink_open: the chip answers or not.  The
\* ring is emptied in both cases.
OpenChip == /\ pc = "open"
            /\ \E to \in {"reserve", "reserve_failed"} : pc' = to
            /\ rx_pool_get' = 0
            /\ rx_pool_put' = 0
            /\ UNCHANGED <<heapVars, loop, reserved, skipped, chip, rxfc, buf, rx_pool,
                           out>>

\* net_init takes its packets whether or not the chip was found ...
Reserve == /\ pc \in {"reserve", "reserve_failed"}
           /\ Cardinality(reserved) < RESERVED
           /\ HeapAlloc
           /\ reserved' = reserved \cup {result'}
           /\ UNCHANGED <<pc, loop, skipped, chip, rxfc, buf, ring, out>>

\* ... and returns the code of datalink_open; main.c goes on to net_ping_req,
ReserveDone == /\ Goto("reserve", "rxfc")
               /\ Cardinality(reserved) = RESERVED
               /\ UNCHANGED <<heapVars, loop, reserved, skipped, chip, rxfc, buf, ring, out>>

\* or stops for ever.
InitFailed == /\ Goto("reserve_failed", "stopped")
              /\ Cardinality(reserved) = RESERVED
              /\ UNCHANGED <<heapVars, loop, reserved, skipped, chip, rxfc, buf, ring, out>>

-----------------------------------------------------------------------------
\* drv_eth_rx reads the frame count once (ks8851_rxfc_get).
ReadFrameCount == /\ Goto("rxfc", "rx")
                  /\ rxfc' = Len(chip)
                  /\ UNCHANGED <<heapVars, loop, reserved, skipped, chip, buf, ring, out>>

\* One round of its loop takes a packet ...
RxAlloc == /\ Goto("rx", "read")
           /\ rxfc > 0
           /\ HeapAlloc
           /\ UNCHANGED <<loop, reserved, skipped, chip, rxfc, buf, ring, out>>

\* ... or fails the assertion on it, which halts the machine,
RxAssertFails == /\ Goto("rx", "halted")
                 /\ rxfc > 0
                 /\ HeapAllocNone
                 /\ UNCHANGED <<loop, reserved, skipped, chip, rxfc, buf, ring, out>>

\* The index behind the last packet (drv_eth_rx_put) and the first (drv_eth_rx_get).
NextPut == IF rx_pool_put + 1 >= ETH_RX_POOL_SIZE THEN 0 ELSE rx_pool_put + 1
NextGet == IF rx_pool_get + 1 >= ETH_RX_POOL_SIZE THEN 0 ELSE rx_pool_get + 1
RingFull == NextPut = rx_pool_get

\* then reads the frame at the head of the chip's queue into the packet
ReadFrame == /\ Goto("read", "rx")
             /\ rxfc' = rxfc - 1
             /\ chip' = Tail(chip)
             /\ UNCHANGED <<loop, reserved, out>>

\* and puts it in the ring (drv_eth_rx_put), unless the ring is full, when the
\* packet goes back to the heap;
RxPut == /\ ReadFrame
         /\ Head(chip) # EMPTY
         /\ buf' = [buf EXCEPT ![result] = Head(chip)]
         /\ ~RingFull
         /\ rx_pool' = [rx_pool EXCEPT ![rx_pool_put] = result]
         /\ rx_pool_put' = NextPut
         /\ UNCHANGED <<heapVars, rx_pool_get, skipped>>

RxOverflow == /\ ReadFrame
              /\ Head(chip) # EMPTY
              /\ buf' = [buf EXCEPT ![result] = Head(chip)]
              /\ RingFull
              /\ HeapFree(result)
              /\ UNCHANGED <<ring, skipped>>

\* an empty frame is skipped with "continue", and its packet with it.
RxSkip == /\ ReadFrame
          /\ Head(chip) = EMPTY
          /\ skipped' = skipped \cup {result}
          /\ UNCHANGED <<heapVars, buf, ring>>

RxDone == /\ rxfc = 0
          /\ Goto("rx", IF loop = "ping" THEN "check" ELSE "get")
          /\ UNCHANGED <<heapVars, loop, reserved, skipped, chip, rxfc, buf, ring, out>>

-----------------------------------------------------------------------------
\* net_ping_req: local_net_arp_timeout_check lets the loop go on ...
PingWait == /\ Goto("check", "rxfc")
            /\ UNCHANGED <<heapVars, loop, reserved, skipped, chip, rxfc, buf, ring, out>>

\* ... until the last timeout, when main.c enters its own loop.
PingGiveUp == /\ Goto("check", "rxfc")
              /\ loop' = "main"
              /\ UNCHANGED <<heapVars, reserved, skipped, chip, rxfc, buf, ring, out>>

\* net_rx_process: every packet of the ring (drv_eth_rx_get) is printed and
\* given back.
ProcessPacket ==
  /\ pc = "get"
  /\ rx_pool_put # rx_pool_get
  /\ out' = buf[rx_pool[rx_pool_get]]
  /\ HeapFree(rx_pool[rx_pool_get])
  /\ rx_pool_get' = NextGet
  /\ UNCHANGED <<pc, loop, reserved, skipped, chip, rxfc, buf, rx_pool, rx_pool_put>>

\* rt_process returns; the main loop sleeps and polls again.
ProcessDone == /\ rx_pool_put = rx_pool_get
               /\ Goto("get", "rxfc")
               /\ UNCHANGED <<heapVars, loop, reserved, skipped, chip, rxfc, buf, ring, out>>

\* A frame arrives and the chip has room for it.  Empty frames are bounded.
EmptyFrames == Cardinality(skipped) + Cardinality({k \in DOMAIN chip : chip[k] = EMPTY})

Arrive == /\ Len(chip) < CHIP_QUEUE
          /\ \E f \in Frames : /\ f = EMPTY => EmptyFrames < MAX_EMPTY
                              /\ chip' = Append(chip, f)
          /\ UNCHANGED <<heapVars, pc, loop, reserved, skipped, rxfc, buf, ring, out>>

-----------------------------------------------------------------------------
RxInit == /\ HeapInit
          /\ pc = "test_alloc" /\ loop = "ping"
          /\ reserved = {} /\ skipped = {}
          /\ chip = << >> /\ rxfc = 0
          /\ buf = [i \in Items |-> EMPTY]
          /\ rx_pool = [s \in Slots |-> NULL]
          /\ rx_pool_get = 0 /\ rx_pool_put = 0
          /\ out = EMPTY

Setup   == HeapTestAlloc \/ HeapTestFree \/ OpenChip \/ Reserve \/ ReserveDone \/ InitFailed
Receive == ReadFrameCount \/ RxAlloc \/ RxAssertFails \/ RxPut \/ RxOverflow \/ RxSkip \/ RxDone
Process == PingWait \/ PingGiveUp \/ ProcessPacket \/ ProcessDone

Program == Setup \/ Receive \/ Process

\* The while(1) of a failed initialization and of a failed assertion.
Spin == pc \in {"stopped", "halted"} /\ UNCHANGED vars

RxNext == Program \/ Arrive \/ Spin

RxSpec == RxInit /\ [][RxNext]_vars

\* The program never stops running, and the timer of the ping runs: a loop that
\* goes round for ever finds it expired in the end.  Frames need not arrive.
RxFairSpec == RxSpec /\ WF_vars(Program) /\ SF_vars(PingGiveUp)

-----------------------------------------------------------------------------
RxTypeOK ==
  /\ HeapTypeOK
  /\ pc \in {"test_alloc", "test_free", "open", "reserve", "reserve_failed", "stopped",
             "rxfc", "rx", "read", "check", "get", "halted"}
  /\ loop \in {"ping", "main"}
  /\ reserved \subseteq Items /\ skipped \subseteq Items
  /\ chip \in Seq(Frames)
  /\ rxfc \in Nat
  /\ buf \in [Items -> Data \cup {EMPTY}]
  /\ rx_pool \in [Slots -> Items \cup {NULL}]
  /\ rx_pool_get \in Slots /\ rx_pool_put \in Slots
  /\ out \in Data \cup {EMPTY}

\* The packets between the two indices of the ring, oldest first.
Around(n) == IF n >= ETH_RX_POOL_SIZE THEN n - ETH_RX_POOL_SIZE ELSE n
RingLen   == IF rx_pool_put >= rx_pool_get THEN rx_pool_put - rx_pool_get
             ELSE rx_pool_put - rx_pool_get + ETH_RX_POOL_SIZE
RingAt(k) == rx_pool[Around(rx_pool_get + k - 1)]
RingItems == {RingAt(k) : k \in 1 .. RingLen}

InHand == IF pc \in {"test_free", "read"} THEN {result} ELSE {}

\* Every packet in the ring is in use, is there once, and is neither one of the
\* stack's own packets nor the one being filled.
RingOwnsItsPackets ==
  /\ \A j, k \in 1 .. RingLen : RingAt(j) = RingAt(k) => j = k
  /\ RingItems \subseteq held
  /\ RingItems \cap (reserved \cup skipped) = {}
  /\ InHand \cap (RingItems \cup reserved \cup skipped) = {}

\* Every packet in use can be found: in the ring, among the packets of the stack
\* or in the hands of drv_eth_rx.  Only those taken for empty frames can not: they
\* are leaked (line 138), and nothing else is.
NoPacketLeaked == held = RingItems \cup reserved \cup skipped \cup InHand

\* drv_eth_rx reads no more frames than the chip holds.
FrameCountHonest == rxfc <= Len(chip)

\* assert(pRxPacket) fails, and halts the machine, only once empty frames have
\* leaked every packet that the ring, the frame in hand and the stack do not need.
HaltTakesEmptyFrames ==
  pc = "halted" => Cardinality(skipped) >= NET_PKT_COUNT - RESERVED - ETH_RX_POOL_SIZE

\* The ring and the packets it points to are a queue that loses, repeats,
\* changes and reorders nothing.
Waiting == [k \in 1 .. RingLen |-> buf[RingAt(k)]]
Queue == INSTANCE RxQueue WITH Capacity <- ETH_RX_POOL_SIZE - 1, queue <- Waiting
RxQueueSpec == Queue!Spec

\* The frames that wait in a full chip are read, in either loop.
ChipIsServed == Len(chip) = CHIP_QUEUE /\ pc \in {"rxfc", "get", "check"}
                  ~> Len(chip) < CHIP_QUEUE \/ pc = "halted"

\* What the ping loop left in the ring is delivered: the ring becomes empty.
RingIsEmptied == rx_pool_put # rx_pool_get ~> rx_pool_put = rx_pool_get \/ pc = "halted"

\* Both hold in a machine that has got through its set-up and does not halt.
ReceiveProgress == ChipIsServed /\ RingIsEmptied
=============================================================================
