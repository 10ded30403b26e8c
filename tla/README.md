# Verification of the i.MX233 boot loader

TLA+ models, TLC configurations and machine-checked proofs for the two programs of this
repository. Paths are relative to `src/`; a module name in capitals-and-lowercase, such
as `EthHeap`, is a file of this directory.

- **hw_init** (`mach/imx-233/hw_init/hw_init.c`) is loaded by the ROM. It finds out what the
  chip can be powered from, brings up the 4P2 rail and the DCDC converter, arms the
  brownout protection, sets the I/O voltage and initialises the DRAM.
- **xboot** (`core/main.c`) runs from DRAM. It sets up a heap, clocks, pins, the SPI port
  and a KS8851 Ethernet controller, sends a ping and then receives frames for ever.

Both are single threads without an operating system. All concurrency is with the
hardware: supplies that come and go, a free-running counter, an Ethernet chip that
queues frames, comparators that latch interrupts, and the fast interrupt (FIQ).
`assert` halts the machine (`include/sys_utils.h:236`). `core_properties.txt` describes an RTOS
that is not implemented.

## 1. Inventory

Each entry gives the state, the operations, who is at the other end, what is hard, and
what makes the component correct. "Status" is the present state of the models.

**Packet heap** (`drv/drv_eth.c:165-327`; modelled). 1000 descriptors of 2 KB packets chained into
a list; head `next_alloc_item`, tail `next_free_item`, a status per packet, a balance. Operations:
initialise, allocate, free by any address in the packet, refuse a double free. Used by net_init
(6 packets kept for good), the receive ring, and the self-test of datalink_open. Hard: a free links
behind the packet freed last, and only that packet's not being in use makes this right; a drained
list never recovers, because a free does not set the head. Correct if a packet has one holder, the
list spells the free packets in the order they were freed, and none is lost while the list has a
head.

**Receive path** (`drv/drv_eth.c:45-160`, `drv/net/drv_ks8851.c`, `net/net.c`; modelled). A ring of 256
packet pointers with two indices, the chip's queue and frame count. drv_eth_rx reads the count
and then moves that many frames to the ring, while more arrive; net_rx_process takes one frame,
copies it out and frees the packet. Hard: frames that arrive after the count was read; a full ring;
frames without payload; the two loops (ping only fills, main also empties). Correct if the ring is
a FIFO that loses, repeats and changes no accepted frame, its packets belong to nobody else, and
the chip and the ring are served.

**Ping and ARP retry** (`net/net.c:150-368`; partly). Retry state in the global context, a millisecond
timeout on the wrapping counter, a try count. Hard: counter wrap; the request frame is built in the
context itself. Correct if requests keep their distance and the ping ends. The parsing of received
frames is not in the source: no answer is ever looked at.

**ARP table** (`net/net_arp.c`; not modelled yet). Ten entries with a validity time. Nothing calls it.

**SPI port** (`drv/spi/drv_spi.c`; modelled). State: the control bits of the port (RUN, READ, LOCK_CS,
IGNORE_CRC, reset and gate). Operations: ssp_spi_init and spi_txrx with a buffer to write, one to read
and the flags SPI_START and SPI_STOP. Hard: the select is released by a bit that must be written before
the last byte and not sooner, over two calls that belong together; each byte waits without a timeout.
Correct if each command is one transfer of its length and every call returns.

**KS8851 controller** (`drv/net/drv_ks8851.c`; modelled). Every function is a script of register reads
and writes; a frame is read or written through a window (RXQCR_SDA) that must be opened before and
closed after. The received length is rounded up, extended by a header and limited to the packet, in
16 bits. Correct if the window is open for frames only, the packet is not overrun and the length
returned is what was stored.

**Data link, network set-up** (`net/net_datalink.c`, `net/net.c:57-100`; partly, in `NetRx` and `ArpWait`).

**System heap** (`sys/heap/sys_heap.c`; modelled). Blocks in a circular doubly linked list in address
order, descriptors from a fixed array. Operations: init, first-fit alloc with split, free with
merge to both sides. Hard: one or two descriptors return in a free; the last descriptor; rounding
up in 32 bits. Correct if the blocks tile the storage, neighbours are not both free, no
descriptor is lost, and it implements first fit.

**Microsecond counter and waiting loops** (`mach/imx-233/digctl/hw_digctl.c`, `drv/drv_utils.c`, and loops in
`hw_mem.c`, `hw_init.c`, `ddi_power_handoff.c`; modelled). Hard: the 32-bit counter wraps every 71 minutes;
five loops test the time in three ways. Correct if no wait is short, none overruns by more than
the distance of two reads, and an event in time is not reported as a timeout.

**Power boot** (`hw_init.c`, with `hw_power.c`, `hw_power_registers.c`, `hw_power_5v_detect.c`, `hw_power_init.c`; modelled).
State: the enable, detection, brownout and vector bits of the power block, five flags of the
driver. Operations: _start and each PowerPrep function. Environment: 5 V (absent, between its two
thresholds, valid), battery, PSWITCH, VDDIO, the block's own reactions. Hard: a supply changes
between being judged and being used; an erratum makes switching on the converter look like a
disconnect, so detection is masked in a window; the program runs on after asking for power-down.
Correct if no supply is used unguarded, the window restores what it found, and the boot ends.

**Brownout fast interrupt** (`mach/imx-233/power/hw_power_fiq.c`; modelled). Latched causes, feeds of 4P2, a
debounce loop on the counter. Nothing in the source calls it: the ROM's handler serves hw_init,
and the entry that would call this one is not in the repository. Hard: rails that drop and recover
during the loop, a low comparator that latches again. Correct if a healthy reading keeps the
power, a power-down was debounced, a droop is handed on first, and every brownout ends.

**Power rails** (`mach/imx-233/ddi_power/ddi_power.c`; partly). Compiled are ddi_power_SetVddio with limits
and waits, the charger and the 4P2 functions; the functions for VDDD and VDDA are inside `#if 0`.
State: target and brownout offset in registers, detection, source. Hard: the brownout level jumps
with the target and the output lags. Correct if a change makes no brownout of its own, the
margin is kept and each call returns.

**Power handoff, battery test, charger** (`ddi_power_handoff.c`, `ddi_power_init.c`, the 4P2 and charge
functions of `ddi_power.c` and `hw_power.c`; partly). Library code without a caller in hw_init, meant for
the applications that are started one after the other on the same registers. State: five flags of
the driver and the result of the battery test, which one application leaves to the next in a
register bit. Operations: initialise, start and stop the rail, switch the charger, test the battery,
the compiled halves of the handoffs. Hard: flags and registers must agree after every failure and
every restart; the test changes rail, charger and limit and puts them back on one path; 5 V comes
and goes in between. Correct if the test's answer is right, the flags tell the truth about the rail,
no failure leaves the converter on a dead rail, and no start asks too much of 5 V.

**Registers, conversions, interrupt enables** (`hw_power_*.c`, `icoll`; partly, as parts of the actions that
call them or, for the current fields, as operators). **Memory controller** (`hw_mem.c`; its timed wait
only). **ADC, clocks, pins, debug UART, console, text formatting, linker files, register headers**: not
modelled. They are straight-line register writes, generated definitions or text output, with little
state between two calls. The headers, one definition per register field of every peripheral of the
chip, are most of the repository's lines. `PROJECT.json` lists every component with its reason, and 40
hazards at their lines.

## 2. Modules

| Module | Models | Built on |
|---|---|---|
| `PacketPool` | abstract: what callers may expect of the packet heap | |
| `EthHeap` | the linked list of `drv_eth_heap_*`; implements `PacketPool` | `PacketPool` |
| `RxQueue` | abstract: a bounded FIFO of frames | |
| `NetRx`, `MCNetRx` | chip, drv_eth_rx, ring, net_rx_process, both loops | `EthHeap`, `RxQueue` |
| `ArpWait` | net_ping_req, request, timeout check | |
| `LowestFit` | abstract: first-fit allocation of disjoint ranges | |
| `SysHeap` | block list and descriptors; implements `LowestFit` | `LowestFit` |
| `SysHeapProofs` | its invariants and the refinement, proved | `SysHeap` |
| `HwTimer` | the counter and the five waiting loops | |
| `HwTimerProofs` | exactness of the time test, bounds of the waits, no missed event | `HwTimer` |
| `PowerPrep` | hw_init on the power block | |
| `PowerFiq` | hw_power_FiqHandler against the rails | |
| `VddioRail` | ddi_power_SetVddio against a lagging output | |
| `CommandLink` | abstract: whole commands, one transfer each, in order | |
| `SpiLink` | the KS8851 driver on the SPI port, byte by byte; implements `CommandLink` | `CommandLink` |
| `BatteryTest` | ddi_power_TestBatteryConnection on registers it does not own | |
| `PowerHandoff`, `MCPowerHandoff` | the power driver after the boot, around the test | `BatteryTest` |
| `NetProofs` | packet heap, receive path and ping: invariants, refinements of the pool and the queue | `NetRx`, `ArpWait` |
| `PowerFiqProofs` | invariant of the handler | `PowerFiq` |
| `PowerPrepProofs` | the boot: guards, windows, the rail and what is left | `PowerPrep` |
| `VddioRailProofs` | a change of VDDIO makes no brownout of its own | `VddioRail` |
| `SpiLinkProofs` | a frame's read, the window, refinement of the link | `SpiLink` |
| `PowerHandoffProofs` | the test's verdict, the flags and the rail, the soft start | `PowerHandoff` |

How state and actions correspond to the code:

- **EthHeap.** Variables are the fields of the heap and of the descriptors (`next`, `status`), `result`
  for the return value, and an auxiliary `fifo` that records the free packets in order. An address
  is the index of its packet, which is what the division in drv_eth_heap_free makes of it. Actions:
  HeapAlloc, HeapAllocFails, HeapFree, HeapFreeRefused: the paths of the two functions.
- **NetRx** extends EthHeap's actions by the program counter of the one thread; the chip's
  `FrameArrives` may occur between any two of its steps. Frame contents are model values, and an
  empty frame is one for which ks8851_rx returns 0. `skipped` (auxiliary) are the packets that were
  allocated for empty frames.
- **ArpWait.** One poll of the loop is one action: nothing, another request, or giving up; `ping` is
  the place in the program. The counter ticks between polls. `clobbered` records which fields of the context a frame was written
  over; the layout of the context is a table of byte offsets.
- **SysHeap.** `hp->current_block` and the descriptors are named by index. A size is a word; the sizes asked
  for are at least a byte and do not wrap in ROUND_UP (SizeAssumption, section 6). The loops of the code
  that walk the list are the least set of blocks closed under following `next` (`Met`), not a recursion,
  so that they can be reasoned about. One call is one action, as nothing else runs.
- **HwTimer.** A loop alternates the test of its event and the test of the time (`pc`); `Tick` and the
  event happen between any two reads. `Expired` has a case for each of the three ways of testing.
- **PowerPrep.** `on` is the set of register bits that are 1, named as in the headers. A step is a
  function, or the part of it between two points where the environment matters. The errata
  windows of hw_power_Enable4p2DcdcInput and hw_power_EnableDcdc share their actions; `win` holds what
  they saved and which bit they set. The three numbers of the headers that the boot writes are
  constants. LeftByBoot says in which states of its registers the power driver finds the chip.
- **PowerFiq.** One action per part of the handler; the debounce loop reads comparators and counter
  in separate steps.
- **VddioRail.** Requests are in millivolts with the real limits; registers and output are settings of
  25 mV. A step writes the register, a wait ends as the source, which is inferred from registers as
  the code does, lets it end; the output follows one setting at a time.
- **SpiLink.** A call of the driver is a script of commands, a command one or two calls of spi_txrx (`calls`,
  `cur`), a byte two steps of the program (up to its waiting loop, and after it) and one of the
  port. `wire` is what the chip has received since it was selected; when it is let go of, it carries
  the command out (`done`). CommandLink sees of this only `done` and the commands still to come, which
  the place in the script tells (`todo`).
- **BatteryTest** and **PowerHandoff.** `on` is the set of register bits, as in PowerPrep; `ilimit` the field
  CHARGE_4P2_ILIMIT as a number, since the code computes with its bits. The test is written on variables
  it shares with PowerHandoff, which gives it its caller and its competitors. Its initial states are those
  that LeftByBoot of PowerPrep allows, with and without 5 V and with either battery. `cell` and `volt` are what is
  at the pin; NextApplication forgets the driver's flags and keeps the registers.

## 3. Runs

Deadlock is checked in every run except those of PowerPrep, VddioRail and PowerHandoff, whose chip may
be off for good, and SpiLink, whose program ends with ks8851_halt. Every property of a passing run has
a faulty variant of a definition with which it fails; the variants stand in the modules, above the
definitions they replace.

| Run | Question and bounds |
|---|---|
| `packet_heap` | Do the pointers spell a FIFO of free packets, through draining and double frees? 4 packets: the list has a head, an inner part, a tail, and can be empty, single or full. |
| `receive_path` | Ring ownership, leaks, frame count, FIFO, service. 6 packets, ring of 3 (2 usable), 2 reserved, chip queue of 2, one empty frame, two contents. The ring wraps, fills and drops; the chip fills in both loops; reordering needs two contents. |
| `system_heap` | Tiling, merging, descriptors, first fit. 8 bytes, alignment 2, 4 descriptors, one for each unit of the alignment, sizes that split, fit, are rounded up and fail, to the largest that does not wrap in rounding. Every pattern of up to 4 blocks occurs. |
| `timer_waits` | Early, late, missed. A 16-value counter, every start, waits 0, 1, 4 and 13 (13 + gap < 16 is the longest that can be told), gap 2. |
| `brownout_fiq` | Debounce and hand-over. A 4-value counter, a window of 2, three rails that change at every step, one droop. Every start of the window, wrapped ones included. |
| `ping_retries` | Spacing and end. Counter of 24, timeout 4 ms of 2 us, limit 5, gap 3, two pings, every start. |
| `power_prep` | The boot: guards, windows, rail, supply, what is left to the driver, its end. The three constants have their values in the headers; the state is finite without bounds. Supply and switch change at every step. |
| `vddio_rail` | False brownouts, margin, return. The real limits and steps; targets below the safe range, at no multiple of 25 mV, and hw_init's 3300 mV; levels above, within and too far below the target; three sources. |
| `spi_link` | Whole commands, the window, the packet's bounds, return. Packets of 16 with a header of 8 and reported lengths to 14: no frame, frames that fit, are rounded up, fill the packet exactly, and are cut. Lengths sent to 5, so that a frame is one or two words; two frame numbers. Every order of calls. |
| `power_handoff` | The battery test's answer, the flags, the rail, the soft start, return. Voltages 0 to 4 with thresholds between them, clock of 8 and a test of 5, every start of the clock; 2 rounds of the capacitor; the real currents. Any order of calls and applications after either boot, 5 V and the pin changing at every step. |
| `brownout_two_rails`, `system_heap_no_blocks` | One disagreement of code and comment each: section 6. |

The type invariants hold in the same instances. They take no place in the configurations, which
list what could be wrong; that of each component with a module of proofs is proved (section 4).

Why small bounds suffice: the counters appear only in modular differences, and each bound leaves
room for both signs of a comparison and a wrap; the ring and the lists repeat after one lap; and what
is proved (section 4) holds for every size. `receive_path` is also sharp: its invariant
HaltTakesEmptyFrames says that the assertion of drv_eth_rx fails only after NET_PKT_COUNT - RESERVED -
ETH_RX_POOL_SIZE empty frames (738 with the real numbers), and with one packet less the assertion
fails without any.

Fairness:

- *The program takes its next step* (all liveness runs): one thread, nothing pre-empts it.
- *The ping gives up eventually* (`receive_path`, strong fairness of PingGiveUp): the retry loop ends by
  time and count, which `ping_retries` shows. Strong, because the loop is in its polling state only
  now and then.
- *The counter counts* (`ping_retries`, `brownout_fiq`): it is hardware. In BatteryTest time passes as part of
  the program's own steps.
- *A low comparator latches again; a pending FIQ is taken* (`brownout_fiq`): level-sensitive hardware.
- *PWD, and the 5 V brownout where it is enabled, turn the chip off* (`power_prep`).
- *The rail's output follows its target* (`vddio_rail`). Waits may time out nevertheless: that the
  converter is fast enough is not assumed for CallReturns, and NoFalseBrownout states it (`late`).
- *The port shifts the byte it was told to, and gates itself after a reset* (`spi_link`): the busy waits
  have no timeout, so the program rests on this.
- No fairness is assumed of supplies, switches, frames or callers. BootEnds and LossOf5vEnds state
  what they need of them as antecedents.

Preconditions inside properties: PingEnds is about a real address, ReceiveProgress about a machine
that does not halt, NeverEarly and NeverLate about the waits that `Reliable` admits,
DebouncedPowerDown about a window that does not wrap (`NoWrap`), VddioRail's CallReturns about a target the
register can hold. Each of them marks a disagreement listed in section 6. Three
assumptions on constants do too: LengthAssumption (below, SpiLinkProofs), TestAssumption
(PowerHandoffProofs) and SizeAssumption (SysHeapProofs).

## 4. Proofs

Checked by TLAPS for every value of the constants, under the assumptions named in the modules.
Each module of proofs names an inductive invariant, shows that each action keeps it, conjunct by
conjunct, and takes its theorems from it. Every safety invariant and every action property of a
passing run is the subject of a theorem.

**NetProofs** has three parts: packet heap, receive path and ping.

*The packet heap* assumes PktCountAssumption: there is at least one packet. The inductive invariant is

    HeapInv == HeapTypeOK /\ FreeListSpellsQueue /\ NoFreePacketLost /\ BalanceCountsHeld

No conjunct is inductive alone. HeapFree writes `next` of the packet freed last; this extends the list
and does not cut it only because that packet is its tail while the list is not empty
(FreeListSpellsQueue). When the list is empty the write goes to a packet in use, which is harmless
only because no packet on the list is in use. From it: FreeListCorrect, NoFreePacketLostEver,
BalanceCorrect, HandedOutOnce (an action property), and ImplementsPool, the refinement of PacketPool
with the queue as witness: initial states map to initial states, and each action to an action of
the pool, the failing ones to its refusals.

*The receive path* builds on it: RxInv is HeapInv with the ownership of packets (RingOwnsItsPackets,
NoPacketLeaked), the honest count, and DrainedByEmptyFrames, which says that an empty free list has cost
the packets of as many empty frames as the heap has to spare. The last is why the assertion cannot fail
sooner: the free list together with the owners accounts for every packet, so that a count of the
owners bounds it. The ring's arithmetic (Used, Following) is in lemmas of its own. RingImplementsQueue
shows that ring, chip and the frames on their way are a bounded FIFO of frames; its witness is the
sequence that WaitingSpelt spells from ring and chip.

*The ping*: TimerInv ties the counter to the time of the last request while a ping runs, and gives
RequestsSpacedEver: the unsigned difference of line 343 is the time passed, wherever it wraps.

**SysHeapProofs** assumes SizeAssumption: a storage that is a multiple of the alignment and ends within
the word, as xboot's does (32 MB, `platform.h:102`, on lines of 32 bytes), and requests as in section 2.
What the runs check is about the whole list: the blocks that a walk from the header meets. An inductive
invariant cannot be, because a split and a merge change the walk. Sound is therefore local, of the blocks L on the
list and the descriptors C on the chain of spare ones:

    Linked   next and prev are inverse on L
    Tiled    a block ends where the next begins; the last ends with the storage
    Apart    two blocks of L do not overlap
    Aligned  sizes and addresses are on the alignment
    Spared   L and C part the array, and the chain of C does not close on itself
    Merged   of two neighbours one is in use

SplitList, AbsorbList and their likes for the chain say how L and C change in a split and in a merge: by
one block, which the definition of `Met` as a least set gives in both directions, without an induction.
That the walks come out where the invariants say (FirstIsLowest, StorageCovered) rests on LeastNumber:
of the addresses in a set there is a least one. From it: HeapStaysIntact, NoDescriptorLost,
NoFragmentLeft, for any number of descriptors, storage, alignment and sequence of calls.

HeapIsLowestFit, the refinement of LowestFit, and CallersOwnTheirBlocks have a hypothesis, DescriptorsLast:
no request finds the chain of spare descriptors empty when it has to split. Without it they are
false, which the run `system_heap_no_blocks` shows: sys_heap_alloc returns a block it has not marked.
OneDescriptorPerUnit discharges the hypothesis where the array has a descriptor for each unit of the
alignment, as in `system_heap`. xboot is not of this kind: it has 100 descriptors
(`include/global.h:34`) for 2^20 units, and rests on its callers, who ask for few blocks (a malloc
at six places, each passed once, and the self-test of `main.c`).

**HwTimerProofs** assumes a counter of at least one value, waits that fit in a lap together with
the distance of two reads, and a cap on recorded time above the counter. CheckTimeOutIsExact is
about the operator alone: whatever the start and the timeout, the four-way comparison of
hw_digctl_CheckTimeOut is true exactly when the time has passed, as long as less than a lap has. The
inductive invariant IInv is TypeOK with Timely, which ties the counter to the start and the time
passed (`now = Plus(start, elapsed)`) and bounds the time passed while the loop runs. NeverEarlyEver,
NeverLateEver and EventNotMissedEver follow. The wraps that break drv_delay and exit_selfrefresh are
outside `Reliable`, and nothing else is.

**PowerFiqProofs** assumes a window of at least two ticks (FiqAssumption). FiqInv says what each place of
the handler knows: in the loop, without a wrap, the counter is the start plus the time passed and the
time is within the window (Debouncing); outside it nothing of an earlier call is left (Fresh); a droop
whose interrupt is off has its feeds cut and will be told (DroopTold). HealthyKeepsPowerEver also rests
on HealthyIsFalse: with all three rails high the chained comparison of line 142 does come out right.

**SpiLinkProofs** assumes LengthAssumption: the length that the chip reports, rounded up and with its
header, fits 16 bits. The KS8851 counts the bytes of a frame in 12 bits, so it does. (For lengths from
65525 to 65528 the sum would wrap to 0 behind the limit of line 217; spi_txrx returns at once for a
call without bytes, and the chip would stay selected.) LinkInv says of the one command that reads the
FIFO that what is stored and what will come add up to the length ks8851_rx works with; FrameFitsEver
follows. FifoWindowKeptEver relates a command to those before it through the whole script. Its invariant
looks the other way: the commands that are left can be followed from the window as it is, with the
window open for a frame's bytes, closed for anything else, and closed at the end (`Proper`). A step takes
the head off such a sequence (ProperTail), and each function of the driver starts one, for every length.
TransferInv has the four phases of a transfer: not begun, in progress with the select locked
and the bytes adding up, at its last byte with the select let go of, and over. PortImplementsLink is the
refinement: the shift of the last byte is the link's CarryOut, the start of a call its Issue, and every
other step, among them those of the port, a stutter.

**PowerHandoffProofs** has three invariants. VerdictInv is about the test alone, in the company of every
other action: what is known at each place of a battery (its voltage is what it was) and of an open
pin (it has not drained yet, or it will have risen before the clock has the last word). It needs
TestAssumption, which says what the test takes for granted: under load an open pin drops by more than
is taken for stable, and with the charger on it is up at least three passes of the loop before the
time is over. Without the second the code is wrong (section 6). RailInv relates the driver's flags, what
the test remembers of the register bits it switches (Remembered) and the bits themselves; from it
RailKnownEver, InputNeedsRailEver and SwitchSharedEver. LimitInv follows the limit through the start: what
it is at each place, and that in the ramp it is what the last sum was converted to, which need not be
that sum, since the conversion rounds down (40 mA to 30). SoftStartEver follows for any currents of the bits
of the field, from ConversionWithin (a setting stands for no more than the current it was made from,
by the binary digits that the scan takes) and RampAssumption, which says what of the numbers matters: the
lowest settings are within the capacitor's limit, and 100 mA more are not converted to more than 100 mA
more. The last is a fact about the table of the header, and TLC evaluates it there. The two models of the power block meet here: the
initial states are what RailBroughtUp of PowerPrepProofs proves of the end of the boot, so that what is
proved of the driver is proved of a chip that has been through hw_init.

**PowerPrepProofs** is about every threshold and every pair of current limits that fit their fields
(PrepAssumption), with one condition that the code does not know it has: the lowest bit of the
capacitor's limit is set. The windows write PWD_BO to the wrong register and change this bit of the
limit (section 6); with an even limit in its place a window would raise it above the limit, and
LimitBeforeRail would be false. The header's value is 3. PrepInv has four parts beside the types:

    DetectionInv   outside a window the shutdown on a loss of 5 V and the method of detection are the
                   normal ones; inside, what will be restored is
    SupplyInv      which supplies are on at each place, the load and the limit of the rail
    GuardInv       the interrupt chosen for the battery's state is armed before the converter is on
    RailInv        the registers of the rail, as the driver will find them

A window is shared by three places of the boot; Phase, the place it returns to, lets each part speak of
the phase and not of the steps of the window. From it: ConverterGuarded, NoBlindRideEver, WindowsRestore,
RailBroughtUp, CoreSupplied, PowerDownFinal and, as an action property, SwitchingHarmlessEver.

**VddioRailProofs** is about any scale of settings, limits and requests that fit RailAssumption: the
lowest brownout offset is a setting at least, and a step of the code is within the widest offset. RangeInv
keeps register fields in range, by lemmas about the rounding of millivolts to settings (Limits). RailInv adds
that the source is one the program recognizes (Carried), that the output has reached the target but
for a raise in progress, which is at most the brownout offset ahead (Settled), and that the offset is the
widest while it raises (Wide). NoBrownoutOfItsOwn follows for any sequence of calls, unless LINREG_DCDC_READY
is among the sources: with it the theorem is false, and section 6 says why. DetectionRestored: detection
is off during a raise only, and as it was after every call.

Only model-checked, and why: liveness under fairness (PingEnds, ReceiveProgress, EveryBrownoutEnds,
BootResolves and the three CallReturns) and anything with ENABLED are out of the prover's reach.

## 5. What the models leave out

- Contents and layout of frames beyond identity; register values that select no path; text output.
- DMA does not exist in this code. In NetRx the SPI transfers of a frame are one step, since one thread
  drives them and the chip's queue is not read by anyone else; SpiLink has their bytes.
- Acknowledgement of the interrupt and count of the frames are one step of NetRx: the count is read
  whatever the status says (`drv_ks8851.c:185`, where == binds tighter than &), so that a frame between
  the two is counted all the same.
- What the KS8851 does with a command beyond the window bit, and the values its registers return,
  except the chip identification and the length of a frame.
- A FIQ during hw_init is the ROM's handler, which turns the chip off: an action of PowerPrep.
  A FIQ during ddi_power_SetVddio is reduced to its two outcomes, powered down or cleared.
- Sagging of a rail under load is left out of VddioRail, so that a brownout found there is one that
  the program makes; PowerFiq has real brownouts.
- VDDD's and VDDA's source is changed together with VDDIO's, as both callers do.
- PowerHandoff leaves out the sources of the three rails, TRG and CMPTRIP, the configuration of 5 V
  detection, the value of the charge current, ddi_power_BatteryConnected and IsBattValidForHandoff. The
  masked window of an enable bit is one step there; PowerPrep has its parts.
- BatteryTest.TurnOnCharger and Restore make the register writes of their lines one step: the program
  reads none of the fields between them.
- The fast interrupt is not composed with PowerHandoff. Its branch for a droop takes away the
  converter's input, the rail and the load (`hw_power_fiq.c:72-91`) and tells the driver nothing, so
  RailKnown, InputNeedsRail and SoftStart are about the driver's own steps. Nothing in the repository
  installs hw_power_FiqHandler; PowerFiq has it alone.
- Widths of integers where no value of the program can wrap.

Not modelled, and why: the ADC, the clocks, the pins and the UART are sequences of register writes
whose order nobody reads back; ddi_power's functions for VDDA and VDDD are not compiled; the ARP table
has no caller; formatting and parsing of text have no state.

## 6. Disagreements between code and documentation

Shown by a run:

- `brownout_two_rails`: the chained comparison at `hw_power_fiq.c:143` takes two low rails for a false
  brownout.
- `system_heap_no_blocks`: without a spare descriptor, sys_heap_alloc returns a block it has not marked
  used (`sys_heap.c:113`), and returns it again.

Stated as properties, violated, without a run among those above:

- PacketPointersKept of ArpWait (`MCArpBuffers.cfg`): the request is built over the packet pointers of the
  context, not in the packet (`net/net.c:320`).
- LimitKept of PowerPrep (`MCPowerPrepLimit.cfg`): hw_power_Enable4p2DcdcInput writes PWD_BO to the wrong
  register (`hw_power.c:1504, 1519`) and sets and clears the lowest bit of the 4P2 charging limit instead.
- LimitRestored of PowerHandoff: "Restore the previous settings"
  (`ddi_power_handoff.c:487`); the limits were saved in variables of type bool (433-434) and come back as
  0 or 1, which is 10 mA for a rail the chip may be running from.
- HandoffGuarded of PowerHandoff: "We need to make sure the chip shuts down properly if 5V is removed in
  this window" (`ddi_power_handoff.c:231-233`); hw_power_EnableDcdc(false), which follows, turns the 5 V
  brownout power-down off again.

Found while modelling:

- `drv_eth.c:138, 153`: a frame without payload keeps its packet. After 738 of them the assertion at 133
  halts the loader. HaltTakesEmptyFrames is this bound.
- `hw_power.c:537-539`: "Use LinReg offset for LinReg mode" sets the DCDC offset, so that
  hw_power_GetVddioPowerSource never returns LINREG_DCDC_READY and a rail in that configuration is
  UNKNOWN. ddi_power_SetVddio then neither disables detection nor waits for the regulator: with
  "LINREG_DCDC_READY" among the `Sources` of VddioRail, TLC finds NoFalseBrownout violated in six steps.
  hw_init does not use the configuration; ddi_power_Init would.
- `hw_power.c:617, 646`: the source of VDDIO is inferred from VDDD's offset.
- `ddi_power.c:541`: a raise to a target that is no multiple of 25 mV never ends.
- `hw_mem.c:437`, `drv_utils.c:30`: `start + time` wraps; the wait is then over at once (`Reliable`).
- `hw_power_fiq.c:137`: likewise, the debounce loop is skipped (`NoWrap`) though line 115 says it is made.
- `ddi_power_handoff.c:475-480`: an open circuit seen in the pass in which the time expires is
  overwritten, against lines 468-469 (TestAssumption keeps it out). Lines 388-403 return with the load
  left on.
- `hw_power_registers.c:208, 220`: hw_power_EnableDcdc disables the 5 V brownout and its interrupt before
  it looks whether the converter is on already, and returns without enabling them again.
- `ddi_power.c:1879-1924`: the charge of the capacitor is described as a climb to 50 mA. Asked for 40 mA the
  conversion gives a setting of 30 mA, from which the next round starts: the limit stays at 30 mA.
- `hw_power.c:1159`: the first limit of the rail is the field value 2, which is 20 mA; the comment says 30.
- A second ddi_power_Enable4p2 while the rail is on gets ALREADY_ON and leaves b4p2Enabled false. A rail
  whose 5 V is unplugged is not stopped by the battery handoff, whose body is inside `#if 0`, so that a
  start after the next plug is refused likewise.
- `ddi_power_init.c:125`: the battery monitor is set up if EN_BATADJ is clear, but hw_power_Init, called
  before, has just set it (`hw_power_init.c:77`): the monitor is never set up.
- `net/net.c:348` gives up at the fourth timeout; `include/net.h:134` calls 5 the number of timeouts.
- `net/net.c:337`: a ping for the address 0 never ends. The timeout given to net_ping_req is not used.
- `drv_ks8851.c:185`: `status & IRQ_RXI == 0` is `status & 0`; the count is read whatever the status says.
- `drv_utils.c:63` writes 16 bytes to the 15 of `net/net.c:107`.
- `hw_init.c:838`: the converter is started "now that protection is enabled", but the battery's
  interrupt is enabled later, from 318. `hw_init.c:423-427` counts on VBUSVALID_IRQ, which the windows clear.
- A zero-length request to the system heap (or one that rounds up to zero) makes an empty block that
  shares its address with the next: outside SizeAssumption (`sys_heap.c:96`).

## 7. Plan

Done, in this order: packet heap, receive path, system heap, counter, power boot, FIQ, ping, VDDIO;
then the SPI link, the power driver with the battery test, and the proofs of section 4. What is left:

1. `Detect5v`: the methods of 5 V detection with polarity and debounce (`hw_power_5v_detect.c`,
   `ddi_power_5v_detect.c`), composed with PowerPrep's windows.
2. `ArpTable`: registration, lookup and expiry, against a map from addresses to stations; an address
   registered twice is found by its older entry (`net_arp.c:91`), and the time returned is cut to 8 bits.
3. `MemClock`: self-refresh, frequency change and re-initialisation of the DRAM (`hw_mem.c:390-659`) with the
   clock set-up, for the order in which the controller is stopped, changed and started.
4. Pure operators against references: the remaining conversions with their inverses, the checksum,
   the address parser.

Runs and properties are kept few: where a new module asks a sharper question, a weaker property
gives way to it.
