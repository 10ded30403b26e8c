------------------------------ MODULE SpiLink -------------------------------
(***************************************************************************)
(* The KS8851 driver (drv/net/drv_ks8851.c) on the serial port             *)
(* (drv/spi/drv_spi.c), byte by byte.  Each call of the driver is a script *)
(* of commands to the chip; each command is one or two calls of spi_txrx,  *)
(* the first of which selects the chip (SPI_START) and the last of which   *)
(* must let go of it (SPI_STOP) with its last byte.  Beside the program    *)
(* the port shifts one byte whenever RUN is set, and the chip carries out  *)
(* what it was sent when its select is released.                           *)
(*                                                                         *)
(* The program only ever waits for the port; none of its loops has a       *)
(* timeout.                                                                *)
(***************************************************************************)
EXTENDS Integers, Sequences

CONSTANTS WORD,                     \* values of an unsigned short
          NET_PKT_MAX_SIZE,         \* bytes of a packet: the buffer of ks8851_rx
          NET_HW_RX_HEADER_SIZE,    \* what the receive FIFO puts before a frame
          REPORT_MAX,               \* greatest length the chip reports for a frame
          TX_MAX,                   \* greatest length that is sent
          FIDS                      \* values of a frame's number: TXFR_TXFID_MASK + 1

ALIGN(x) == ((x + 3) \div 4) * 4

\* 65536, 2048 and 8 in the source; a KS8851 counts the bytes of a frame in 12 bits.
\* The sum in ks8851_rx, which is an unsigned short, must not wrap.
ASSUME LengthAssumption ==
  /\ {WORD, NET_PKT_MAX_SIZE, NET_HW_RX_HEADER_SIZE, REPORT_MAX, TX_MAX, FIDS} \subseteq Nat
  /\ NET_HW_RX_HEADER_SIZE > 0 /\ FIDS > 0
  /\ NET_PKT_MAX_SIZE >= NET_HW_RX_HEADER_SIZE
  /\ ALIGN(REPORT_MAX) + NET_HW_RX_HEADER_SIZE < WORD

VARIABLES
  pc,           \* where the program is between the calls of the driver
  script,       \* commands of the present call that are not complete
  calls, cur,   \* calls of spi_txrx of the first of them: to come, and in progress
  waiting,      \* spi_read or spi_write waits for the port
  ctl, fifo,    \* bits of SSP_CTRL0 that are set; a byte is in the port's FIFO
  wire,         \* what the chip has been sent since it was selected
  done, sda,    \* the command the chip carried out last; RXQCR_SDA
  reported,     \* the length read from RXFHSR last
  stored,       \* bytes put in the buffer of ks8851_rx
  fid

program == <<pc, script, reported, fid>>
chip    == <<wire, done, sda>>
vars    == <<program, calls, cur, waiting, ctl, fifo, chip, stored>>

NoCall    == [tx |-> 0, rx |-> 0, flags |-> {}]
NoCommand == [op |-> "none", reg |-> "none", len |-> 0, val |-> 0]
Quiet     == [cmd |-> NoCommand, bytes |-> 0]
Busy      == script # << >>

-----------------------------------------------------------------------------
\* Faulty variants of definitions below, by which it is checked that the
\* properties can fail: the select is kept over the last byte read, the length is
\* not limited to the packet, a read that does not start the port (and OpenedLate,
\* below).
KeptForReads(c)       == "STOP" \in c.flags /\ c.tx = 1 /\ c.rx = 0
NotLimited(len)       == IF len = 0 THEN 0 ELSE ALIGN(len) + NET_HW_RX_HEADER_SIZE
ReadNotStarted        == {"READ"}

-----------------------------------------------------------------------------
\* The commands: an operation code with a register's address in it, and data.
Command(op, reg, len, val) == [op |-> op, reg |-> reg, len |-> len, val |-> val]
Write8(reg)       == Command("write", reg, 1, 0)
Write16(reg)      == Command("write", reg, 2, 0)
Read8(reg)        == Command("read", reg, 1, 0)
Read16(reg)       == Command("read", reg, 2, 0)
Read32(reg)       == Command("read", reg, 4, 0)
FifoRead(len)     == Command("rxfifo", "none", len, 0)
FifoWrite(len, v) == Command("txfifo", "none", len, v)
OpenFifo          == Command("write", "RXQCR", 2, 1)
CloseFifo         == Command("write", "RXQCR", 2, 0)
SetPower          == <<Read16("PMECR"), Write16("PMECR")>>

\* Bytes before the data: the code and address, the code, the code with a header.
Opening == [write |-> 2, read |-> 2, rxfifo |-> 1, txfifo |-> 5]
DataBytes(c) == IF c.op = "txfifo" THEN ALIGN(c.len) ELSE c.len
CommandBytes(c) == Opening[c.op] + DataBytes(c)

Call(tx, rx, flags) == [tx |-> tx, rx |-> rx, flags |-> flags]
SpiCalls(c) ==
  CASE c.op = "write"  -> <<Call(CommandBytes(c), 0, {"START", "STOP"})>>
    [] c.op = "txfifo" -> <<Call(Opening[c.op], 0, {"START"}), Call(DataBytes(c), 0, {"STOP"})>>
    [] OTHER           -> <<Call(Opening[c.op], 0, {"START"}), Call(0, DataBytes(c), {"STOP"})>>

\* The length that ks8851_rx reads from the FIFO and returns.
RxLength(len) ==
  LET whole == (ALIGN(len) + NET_HW_RX_HEADER_SIZE) % WORD IN
  IF len = 0 THEN 0
  ELSE IF whole > NET_PKT_MAX_SIZE THEN NET_PKT_MAX_SIZE ELSE whole

HaltScript  == <<Write16("RXCR1"), Write16("TXCR")>> \o SetPower
ProbeScript == <<Write16("GRR"), Write16("GRR"), Read16("CIDER")>>
MacScript   == [i \in 1 .. 6 |-> Write8("MAR")]
SetupScript == MacScript \o SetPower
  \o <<Write16("TXFDPR"), Write16("TXQCR"), Write16("TXCR"), Write16("RXFCTR"),
       Write16("RXCR1"), Write16("RXCR2"), Write16("ISR"), Write16("IER")>>
CountScript == <<Read16("ISR"), Write16("ISR"), Read8("RXFC")>>
FrameScript(len) == <<Write16("RXFDPR"), OpenFifo>>
  \o (IF len > 0 THEN <<FifoRead(RxLength(len))>> ELSE << >>) \o <<CloseFifo>>
\* The faulty one:
OpenedLate(len, v)  == <<FifoWrite(len, v), OpenFifo, CloseFifo>>
TxScript(len, v)    == <<OpenFifo, FifoWrite(len, v), CloseFifo>>

-----------------------------------------------------------------------------
\* ssp_spi_init: the port out of its reset and gate, into a reset until it gates
\* itself, and out again with all control bits clear.
Port(from, to, bits) ==
  /\ pc = from /\ pc' = to
  /\ ctl' = bits
  /\ UNCHANGED <<script, reported, fid, calls, cur, waiting, fifo, chip, stored>>

PortWake  == Port("start", "woken", ctl \ {"SFTRST", "CLKGATE"})
PortReset == Port("woken", "reset", ctl \cup {"SFTRST"})
PortReady == "CLKGATE" \in ctl /\ Port("reset", "cold", {})

\* The calls of the driver.
Begin(from, to, s) ==
  /\ pc = from /\ pc' = to /\ ~Busy
  /\ script' = s /\ calls' = SpiCalls(Head(s))
  /\ UNCHANGED <<cur, waiting, ctl, fifo, chip>>

Run(from, to, s) == Begin(from, to, s) /\ UNCHANGED <<reported, stored, fid>>

\* drv_eth_init halts the chip before it starts it, and after a start that failed;
\* datalink_close is the only other way here.
ks8851_halt == \/ Run("cold", "chip", HaltScript)
               \/ Run("failed", "stopped", HaltScript)
               \/ Run("up", "stopped", HaltScript)

ks8851_init == Run("chip", "probed", ProbeScript)
RightChip   == Run("probed", "up", SetupScript)
WrongChip   == /\ pc = "probed" /\ pc' = "failed" /\ ~Busy
               /\ UNCHANGED <<script, reported, fid, calls, cur, waiting, ctl, fifo,
                              chip, stored>>

ks8851_mac_set  == Run("up", "up", MacScript)
ks8851_rxfc_get == Run("up", "up", CountScript)

\* ks8851_rx reads the length of the frame, and with it what follows.
ks8851_rx == Run("up", "header", <<Read32("RXFHSR")>>)

RxFrame == \E len \in 0 .. REPORT_MAX :
  /\ Begin("header", "up", FrameScript(len))
  /\ reported' = len /\ stored' = 0
  /\ UNCHANGED fid

ks8851_tx == \E len \in 1 .. TX_MAX :
  /\ Begin("up", "up", TxScript(len, fid))
  /\ fid' = (fid + 1) % FIDS
  /\ UNCHANGED <<reported, stored>>

NextCommand ==
  /\ Busy /\ cur = NoCall /\ calls = << >>
  /\ script' = Tail(script)
  /\ calls' = IF script' = << >> THEN << >> ELSE SpiCalls(Head(script'))
  /\ UNCHANGED <<pc, reported, fid, cur, waiting, ctl, fifo, chip, stored>>

-----------------------------------------------------------------------------
\* spi_txrx: a call without bytes returns at once.
Lock(bits)   == (bits \ {"IGNORE_CRC"}) \cup {"LOCK_CS"}
Unlock(bits) == (bits \ {"LOCK_CS"}) \cup {"IGNORE_CRC"}

EnterTxRx ==
  /\ cur = NoCall /\ calls # << >>
  /\ calls' = Tail(calls)
  /\ IF Head(calls).tx + Head(calls).rx = 0
       THEN UNCHANGED <<cur, ctl>>
       ELSE /\ cur' = Head(calls)
            /\ ctl' = IF "START" \in cur'.flags THEN Lock(ctl) ELSE ctl
  /\ UNCHANGED <<program, waiting, fifo, chip, stored>>

\* The select is released before the last byte of a call with SPI_STOP.
LastByte(c) == "STOP" \in c.flags /\ c.tx + c.rx = 1
Select      == IF LastByte(cur) THEN Unlock(ctl) ELSE ctl
ReadMode    == {"READ", "RUN"}

\* spi_write and spi_read up to their waiting loops.
WriteByte ==
  /\ ~waiting /\ cur.tx > 0
  /\ ctl' = (Select \ {"READ"}) \cup {"RUN"}
  /\ cur' = [cur EXCEPT !.tx = @ - 1]
  /\ waiting' = TRUE
  /\ UNCHANGED <<program, calls, fifo, chip, stored>>

ReadByte ==
  /\ ~waiting /\ cur.tx = 0 /\ cur.rx > 0
  /\ ctl' = Select \cup ReadMode
  /\ cur' = [cur EXCEPT !.rx = @ - 1]
  /\ waiting' = TRUE
  /\ UNCHANGED <<program, calls, fifo, chip, stored>>

\* The loops end: a read waits for the byte and takes it, and both wait for RUN.
ByteDone ==
  /\ waiting /\ "RUN" \notin ctl
  /\ "READ" \in ctl => fifo
  /\ waiting' = FALSE /\ fifo' = FALSE
  /\ stored' = IF "READ" \in ctl /\ Head(script).op = "rxfifo" THEN stored + 1 ELSE stored
  /\ cur' = IF cur.tx + cur.rx = 0 THEN NoCall ELSE cur
  /\ UNCHANGED <<program, calls, ctl, chip>>

-----------------------------------------------------------------------------
\* The port gates its clock when it is reset.
PortGates ==
  /\ "SFTRST" \in ctl /\ "CLKGATE" \notin ctl
  /\ ctl' = ctl \cup {"CLKGATE"}
  /\ UNCHANGED <<program, calls, cur, waiting, fifo, chip, stored>>

\* A byte is shifted.  Unless the select is locked the chip is let go of, and
\* carries out the command that the first byte began.
Sent     == [cmd |-> IF wire = Quiet THEN Head(script) ELSE wire.cmd, bytes |-> wire.bytes + 1]
Released == "LOCK_CS" \notin ctl /\ "IGNORE_CRC" \in ctl

Shift ==
  /\ "RUN" \in ctl
  /\ ctl' = ctl \ {"RUN"}
  /\ fifo' = ("READ" \in ctl)
  /\ IF Released
       THEN /\ wire' = Quiet /\ done' = Sent
            /\ sda' = IF Sent.cmd.reg = "RXQCR" THEN Sent.cmd.val = 1 ELSE sda
       ELSE wire' = Sent /\ UNCHANGED <<done, sda>>
  /\ UNCHANGED <<program, calls, cur, waiting, stored>>

Init ==
  /\ pc = "start" /\ script = << >> /\ calls = << >> /\ cur = NoCall
  /\ waiting = FALSE /\ fifo = FALSE /\ ctl = {"SFTRST", "CLKGATE"}
  /\ wire = Quiet /\ done = Quiet /\ sda = FALSE
  /\ reported = 0 /\ stored = 0 /\ fid = 0

Driver   == \/ PortWake \/ PortReset \/ PortReady \/ RxFrame \/ RightChip \/ WrongChip
            \/ NextCommand \/ EnterTxRx \/ WriteByte \/ ReadByte \/ ByteDone
Callers  == \/ ks8851_halt \/ ks8851_init \/ ks8851_mac_set
            \/ ks8851_rxfc_get \/ ks8851_rx \/ ks8851_tx
Hardware == PortGates \/ Shift
Next     == Driver \/ Callers \/ Hardware

Spec     == Init /\ [][Next]_vars
FairSpec == Spec /\ WF_vars(Driver) /\ WF_vars(Hardware)

-----------------------------------------------------------------------------
\* The variables have their types; between two calls of the driver nothing of a call of
\* spi_txrx is left.
TypeOK ==
  /\ pc \in {"start", "woken", "reset", "cold", "chip", "probed", "up", "header", "failed",
            "stopped"}
  /\ ctl \subseteq {"SFTRST", "CLKGATE", "LOCK_CS", "IGNORE_CRC", "READ", "RUN"}
  /\ {waiting, fifo, sda} \subseteq BOOLEAN
  /\ reported \in 0 .. REPORT_MAX /\ stored \in Nat /\ fid \in 0 .. FIDS - 1
  /\ cur.tx \in Nat /\ cur.rx \in Nat
  /\ ~Busy => cur = NoCall /\ calls = << >>

\* Every command of every call reaches the chip as one transfer of its own length,
\* and in order, whatever calls of spi_txrx it is made of (drv_spi.c 114-145): the
\* select is neither released within a command nor kept over its end.
HeadDone == Busy /\ ~waiting /\ cur = NoCall /\ calls = << >>
LastShifted == Busy /\ waiting /\ "RUN" \notin ctl /\ cur.tx + cur.rx = 0 /\ calls = << >>
CallScripts ==
  {HaltScript, ProbeScript, MacScript, SetupScript, CountScript, <<Read32("RXFHSR")>>}
    \cup {FrameScript(n) : n \in 0 .. REPORT_MAX}
    \cup {TxScript(n, v) : n \in 1 .. TX_MAX, v \in 0 .. FIDS - 1}
Commands == UNION {{s[i] : i \in 1 .. Len(s)} : s \in CallScripts}
Link == INSTANCE CommandLink WITH
  Bytes <- CommandBytes,
  todo <- IF HeadDone \/ LastShifted THEN Tail(script) ELSE script
CommandLinkSpec == Link!Spec

\* While the window on the frame memory is open (RXQCR_SDA) the chip is told nothing
\* but to read or write a frame or to close it; no frame is read or written
\* otherwise; and no call leaves the window open (drv_ks8851.c 206-225, 261-266).
FifoWindowKept ==
  /\ [][wire # Quiet /\ wire' = Quiet =>
         IF done'.cmd.op \in {"rxfifo", "txfifo"} THEN sda
         ELSE sda => done'.cmd.reg = "RXQCR"]_vars
  /\ [](pc # "header" /\ ~Busy => ~sda)

\* ks8851_rx never puts more bytes into the packet than it has, and returns the
\* number it has put (lines 212-227): at least the header if there is a frame, which
\* drv_eth_rx takes for none otherwise, and the whole frame if it fits.
FrameFits ==
  /\ stored <= NET_PKT_MAX_SIZE
  /\ pc = "up" /\ ~Busy =>
       /\ stored = RxLength(reported)
       /\ reported > 0 => stored >= NET_HW_RX_HEADER_SIZE
       /\ ALIGN(reported) + NET_HW_RX_HEADER_SIZE <= NET_PKT_MAX_SIZE /\ reported > 0
            => stored >= reported + NET_HW_RX_HEADER_SIZE

\* Every call returns: no loop of the port or of the driver waits for ever, if the
\* port shifts a byte in the end.
CallReturns == Busy ~> ~Busy
=============================================================================
