--------------------------- MODULE SpiLinkProofs ----------------------------
(***************************************************************************)
(* Proofs about SpiLink, for every size of a packet and of the chip's      *)
(* header, and every length that LengthAssumption lets the chip report:    *)
(* ks8851_rx stays within the packet and returns what it has put there,    *)
(* and the port carries out whole commands in their order (CommandLink).   *)
(***************************************************************************)
EXTENDS SpiLink, SequenceTheorems, TLAPS

\* The constants, one by one.
LEMMA Lengths ==
  /\ WORD \in Nat /\ NET_PKT_MAX_SIZE \in Nat /\ NET_HW_RX_HEADER_SIZE \in Nat
  /\ REPORT_MAX \in Nat /\ TX_MAX \in Nat /\ FIDS \in Nat
BY LengthAssumption

LEMMA NoWrap ==
  ASSUME NEW x \in Nat, NEW w \in Nat, x < w PROVE x % w = x
OBVIOUS

\* The length ks8851_rx works with: within the packet, not less than the header when
\* there is a frame, and not less than the frame when that fits.
LEMMA RxLengthFits ==
  ASSUME NEW len \in 0 .. REPORT_MAX
  PROVE  /\ RxLength(len) \in 0 .. NET_PKT_MAX_SIZE
         /\ len = 0 => RxLength(len) = 0
         /\ len > 0 => RxLength(len) >= NET_HW_RX_HEADER_SIZE
         /\ ALIGN(len) + NET_HW_RX_HEADER_SIZE <= NET_PKT_MAX_SIZE /\ len > 0
              => RxLength(len) >= len + NET_HW_RX_HEADER_SIZE
<1> DEFINE whole == ALIGN(len) + NET_HW_RX_HEADER_SIZE
<1>1. ALIGN(len) \in Nat /\ ALIGN(len) >= len /\ ALIGN(len) <= ALIGN(REPORT_MAX)
  BY Lengths DEF ALIGN
<1>2. whole \in Nat /\ whole < WORD
  BY <1>1, Lengths, LengthAssumption DEF ALIGN
<1>3. whole % WORD = whole
  BY <1>2, NoWrap, Lengths
<1>4. RxLength(len) = IF len = 0 THEN 0
                      ELSE IF whole > NET_PKT_MAX_SIZE THEN NET_PKT_MAX_SIZE ELSE whole
  BY <1>3 DEF RxLength
<1> HIDE DEF whole
<1>5. whole = ALIGN(len) + NET_HW_RX_HEADER_SIZE
  BY DEF whole
<1> QED BY <1>1, <1>2, <1>4, <1>5, Lengths, LengthAssumption

-----------------------------------------------------------------------------
\* Commands, those that do not read the FIFO, those that have nothing to do with it,
\* and calls of spi_txrx.
Registers ==
  {"CIDER", "GRR", "IER", "ISR", "MAR", "PMECR", "RXCR1", "RXCR2", "RXFC",
   "RXFCTR", "RXFDPR", "RXFHSR", "RXQCR", "TXCR", "TXFDPR", "TXQCR", "none"}
CommandType == [op : DOMAIN Opening, reg : Registers, len : Nat \ {0}, val : Nat]
Plain       == {c \in CommandType : c.op # "rxfifo"}
Ordinary    == {c \in Plain : c.op # "txfifo" /\ c.reg # "RXQCR"}
CallType    == [tx : Nat, rx : Nat, flags : {{"START"}, {"STOP"}, {"START", "STOP"}}]

LEMMA CallsTyped ==
  ASSUME NEW c \in CommandType
  PROVE  /\ SpiCalls(c) \in Seq(CallType)
         /\ c.op = "rxfifo"
              => SpiCalls(c) = <<Call(1, 0, {"START"}), Call(0, c.len, {"STOP"})>>
<1>1. c.len \in Nat /\ c.len > 0 /\ c.op \in {"write", "read", "rxfifo", "txfifo"}
  BY DEF CommandType, Opening
<1>2. Opening[c.op] \in Nat /\ (c.op = "rxfifo" => Opening[c.op] = 1)
  BY <1>1 DEF Opening
<1>3. ALIGN(c.len) \in Nat
  BY <1>1 DEF ALIGN
<1>4. DataBytes(c) \in Nat /\ (c.op = "rxfifo" => DataBytes(c) = c.len)
  BY <1>1, <1>3 DEF DataBytes
<1>5. CommandBytes(c) \in Nat
  BY <1>2, <1>4 DEF CommandBytes
<1>6. ASSUME NEW n \in Nat, NEW m \in Nat
      PROVE  /\ Call(n, 0, {"START", "STOP"}) \in CallType /\ Call(n, 0, {"START"}) \in CallType
             /\ Call(n, 0, {"STOP"}) \in CallType /\ Call(0, m, {"STOP"}) \in CallType
  BY DEF Call, CallType
<1>7. CASE c.op = "write"
  <2>1. SpiCalls(c) = <<Call(CommandBytes(c), 0, {"START", "STOP"})>>
    BY <1>7 DEF SpiCalls
  <2> QED BY <1>5, <1>6, <1>7, <2>1
<1>8. CASE c.op = "txfifo"
  <2>1. SpiCalls(c) = <<Call(Opening[c.op], 0, {"START"}), Call(DataBytes(c), 0, {"STOP"})>>
    BY <1>8 DEF SpiCalls
  <2> QED BY <1>2, <1>4, <1>6, <1>8, <2>1
<1>9. CASE c.op \in {"read", "rxfifo"}
  <2>1. SpiCalls(c) = <<Call(Opening[c.op], 0, {"START"}), Call(0, DataBytes(c), {"STOP"})>>
    BY <1>9 DEF SpiCalls
  <2> QED BY <1>2, <1>4, <1>6, <1>9, <2>1
<1> QED BY <1>1, <1>7, <1>8, <1>9

\* The calls of a command: one, or two whose bytes are those of the command.
LEMMA CallsOfCommand ==
  ASSUME NEW c \in CommandType
  PROVE  /\ CommandBytes(c) \in Nat /\ CommandBytes(c) >= 2
         /\ \/ SpiCalls(c) = <<Call(CommandBytes(c), 0, {"START", "STOP"})>>
            \/ \E x \in CallType, y \in CallType :
                 /\ SpiCalls(c) = <<x, y>> /\ x.flags = {"START"} /\ y.flags = {"STOP"}
                 /\ x.tx + x.rx > 0 /\ y.tx + y.rx > 0
                 /\ x.tx + x.rx + y.tx + y.rx = CommandBytes(c)
<1>1. c.len \in Nat /\ c.len > 0 /\ c.op \in {"write", "read", "rxfifo", "txfifo"}
  BY DEF CommandType, Opening
<1>2. Opening[c.op] \in Nat /\ Opening[c.op] > 0
  BY <1>1 DEF Opening
<1>3. ALIGN(c.len) \in Nat /\ ALIGN(c.len) > 0
  BY <1>1 DEF ALIGN
<1>4. DataBytes(c) \in Nat /\ DataBytes(c) > 0
  BY <1>1, <1>3 DEF DataBytes
<1>5. CommandBytes(c) = Opening[c.op] + DataBytes(c) /\ CommandBytes(c) >= 2
  BY <1>2, <1>4 DEF CommandBytes
<1>6. CASE c.op = "write"
  BY <1>2, <1>4, <1>5, <1>6 DEF SpiCalls
<1>7. CASE c.op # "write"
  <2> DEFINE x == Call(Opening[c.op], 0, {"START"})
             y == IF c.op = "txfifo" THEN Call(DataBytes(c), 0, {"STOP"})
                                     ELSE Call(0, DataBytes(c), {"STOP"})
  <2>1. SpiCalls(c) = <<x, y>>
    BY <1>1, <1>7 DEF SpiCalls
  <2>2. x \in CallType /\ x.flags = {"START"} /\ x.tx + x.rx = Opening[c.op]
    BY <1>2 DEF Call, CallType
  <2>3. y \in CallType /\ y.flags = {"STOP"} /\ y.tx + y.rx = DataBytes(c)
    BY <1>4 DEF Call, CallType
  <2>4. x.tx \in Nat /\ x.rx \in Nat /\ y.tx \in Nat /\ y.rx \in Nat
    BY <2>2, <2>3 DEF CallType
  <2> HIDE DEF x, y
  <2> QED BY <1>2, <1>4, <1>5, <2>1, <2>2, <2>3, <2>4
<1> QED BY <1>6, <1>7

-----------------------------------------------------------------------------
\* The scripts but for that of a frame do not read the FIFO.
LEMMA PlainRegister ==
  ASSUME NEW reg \in Registers \ {"RXQCR"}
  PROVE  /\ Write8(reg) \in Ordinary /\ Write16(reg) \in Ordinary
         /\ Read8(reg) \in Ordinary /\ Read16(reg) \in Ordinary /\ Read32(reg) \in Ordinary
<1>1. ASSUME NEW op \in {"read", "write"}, NEW len \in Nat \ {0}
      PROVE  Command(op, reg, len, 0) \in Ordinary
  BY DEF Command, Ordinary, Plain, CommandType, Opening
<1> QED BY <1>1 DEF Write8, Write16, Read8, Read16, Read32

LEMMA PlainFifo ==
  ASSUME NEW len \in Nat \ {0}, NEW v \in Nat
  PROVE  /\ OpenFifo \in Plain /\ CloseFifo \in Plain /\ FifoWrite(len, v) \in Plain
         /\ FifoRead(len) \in CommandType
<1>1. ASSUME NEW op \in DOMAIN Opening, NEW reg \in Registers, NEW n \in Nat \ {0}, NEW x \in Nat
      PROVE  Command(op, reg, n, x) \in CommandType /\ Command(op, reg, n, x).op = op
  BY DEF Command, CommandType
<1>2. {"write", "txfifo", "rxfifo"} \subseteq DOMAIN Opening
  BY DEF Opening
<1>3. /\ "RXQCR" \in Registers /\ "none" \in Registers
      /\ {0, 1} \subseteq Nat /\ 2 \in Nat \ {0}
  BY DEF Registers
<1>4. OpenFifo \in Plain /\ CloseFifo \in Plain
  BY <1>1, <1>2, <1>3 DEF OpenFifo, CloseFifo, Plain
<1>5. FifoWrite(len, v) \in Plain /\ FifoRead(len) \in CommandType
  BY <1>1, <1>2, <1>3 DEF FifoWrite, FifoRead, Plain
<1> QED BY <1>4, <1>5

LEMMA PlainScripts ==
  /\ {HaltScript, ProbeScript, MacScript, SetupScript, CountScript, <<Read32("RXFHSR")>>}
       \subseteq (Seq(Plain) \cap Seq(Ordinary)) \ {<< >>}
  /\ \A len \in Nat \ {0}, v \in Nat : TxScript(len, v) \in Seq(Plain) \ {<< >>}
<1>1. SetPower \in Seq(Ordinary)
  <2>1. Read16("PMECR") \in Ordinary /\ Write16("PMECR") \in Ordinary
    BY PlainRegister DEF Registers
  <2> QED BY <2>1 DEF SetPower
<1>2. HaltScript \in Seq(Ordinary) \ {<< >>}
  <2>1. Write16("RXCR1") \in Ordinary /\ Write16("TXCR") \in Ordinary
    BY PlainRegister DEF Registers
  <2>2. <<Write16("RXCR1"), Write16("TXCR")>> \in Seq(Ordinary)
    BY <2>1
  <2> QED BY <1>1, <2>2 DEF HaltScript
<1>3. MacScript \in Seq(Ordinary) \ {<< >>}
  <2>1. Write8("MAR") \in Ordinary
    BY PlainRegister DEF Registers
  <2>2. MacScript \in [1 .. 6 -> Ordinary]
    BY <2>1 DEF MacScript
  <2>3. MacScript \in Seq(Ordinary) /\ Len(MacScript) = 6
    BY <2>2, SeqDef DEF MacScript
  <2> QED BY <2>3
<1>4. SetupScript \in Seq(Ordinary) \ {<< >>}
  <2> DEFINE rest == <<Write16("TXFDPR"), Write16("TXQCR"), Write16("TXCR"),
                       Write16("RXFCTR"), Write16("RXCR1"), Write16("RXCR2"),
                       Write16("ISR"), Write16("IER")>>
  <2>1. rest \in Seq(Ordinary)
    <3>1. \A reg \in Registers \ {"RXQCR"} : Write16(reg) \in Ordinary
      BY PlainRegister DEF Registers
    <3> QED BY <3>1 DEF Registers
  <2>2. SetupScript = (MacScript \o SetPower) \o rest
    BY DEF SetupScript
  <2> HIDE DEF rest
  <2> QED BY <1>1, <1>3, <2>1, <2>2
<1>5. {ProbeScript, CountScript, <<Read32("RXFHSR")>>} \subseteq Seq(Ordinary) \ {<< >>}
  <2>1. /\ Write16("GRR") \in Ordinary /\ Read16("CIDER") \in Ordinary /\ Read16("ISR") \in Ordinary
        /\ Write16("ISR") \in Ordinary /\ Read8("RXFC") \in Ordinary /\ Read32("RXFHSR") \in Ordinary
    BY PlainRegister DEF Registers
  <2> QED BY <2>1 DEF ProbeScript, CountScript
<1>6. ASSUME NEW len \in Nat \ {0}, NEW v \in Nat
      PROVE  TxScript(len, v) \in Seq(Plain) \ {<< >>}
  <2>1. OpenFifo \in Plain /\ CloseFifo \in Plain /\ FifoWrite(len, v) \in Plain
    BY PlainFifo
  <2> QED BY <2>1 DEF TxScript
<1>7. Seq(Ordinary) \subseteq Seq(Plain)
  <2>1. Ordinary \subseteq Plain
    BY DEF Ordinary
  <2> QED BY <2>1, SeqMonotonic
<1> QED BY <1>2, <1>3, <1>4, <1>5, <1>6, <1>7

\* The script of a frame reads it with its third command.
LEMMA FrameScripts ==
  ASSUME NEW len \in 0 .. REPORT_MAX
  PROVE  /\ len = 0 =>
              /\ FrameScript(len) \in Seq(Plain) \ {<< >>} /\ Len(FrameScript(len)) = 3
              /\ FrameScript(len)[1] = Write16("RXFDPR")
              /\ FrameScript(len)[2] = OpenFifo /\ FrameScript(len)[3] = CloseFifo
         /\ len > 0 =>
              /\ FrameScript(len) \in Seq(CommandType) /\ Len(FrameScript(len)) = 4
              /\ FrameScript(len)[1] = Write16("RXFDPR")
              /\ FrameScript(len)[2] = OpenFifo /\ FrameScript(len)[4] = CloseFifo
              /\ FrameScript(len)[3] = FifoRead(RxLength(len))
              /\ \A i \in {1, 2, 4} : FrameScript(len)[i] \in Plain
<1>1. /\ Write16("RXFDPR") \in Plain /\ OpenFifo \in Plain /\ CloseFifo \in Plain
      /\ len > 0 => FifoRead(RxLength(len)) \in CommandType
  <2>1. Write16("RXFDPR") \in Plain
    BY PlainRegister DEF Registers, Ordinary
  <2>2. len > 0 => RxLength(len) \in Nat \ {0}
    BY RxLengthFits, Lengths, LengthAssumption
  <2>3. 1 \in Nat \ {0} /\ 0 \in Nat
    OBVIOUS
  <2> QED BY <2>1, <2>2, <2>3, PlainFifo
<1> DEFINE a == Write16("RXFDPR")
           r == FifoRead(RxLength(len))
<1>2. CASE len = 0
  <2> DEFINE s == <<a, OpenFifo>> \o << >>
  <2>1. FrameScript(len) = s \o <<CloseFifo>>
    BY <1>2 DEF FrameScript
  <2>2. /\ s \in Seq(Plain) /\ <<CloseFifo>> \in Seq(Plain) /\ Len(<<CloseFifo>>) = 1
        /\ Len(s) = 2 /\ s[1] = a /\ s[2] = OpenFifo
    <3> HIDE DEF a
    <3>1. a \in Plain /\ OpenFifo \in Plain /\ CloseFifo \in Plain
      BY <1>1 DEF a
    <3> QED BY <3>1
  <2> DEFINE c == <<CloseFifo>>
             f == s \o c
  <2>3. /\ f \in Seq(Plain) /\ Len(f) = 3
        /\ f[1] = a /\ f[2] = OpenFifo /\ f[3] = CloseFifo
    <3>1. /\ f \in Seq(Plain) /\ Len(f) = Len(s) + Len(c)
          /\ \A i \in 1 .. Len(s) + Len(c) : f[i] = IF i <= Len(s) THEN s[i] ELSE c[i - Len(s)]
      BY <2>2, ConcatProperties
    <3>2. c[1] = CloseFifo /\ Len(c) = 1
      OBVIOUS
    <3> HIDE DEF s, a, c, f
    <3> QED BY <2>2, <3>1, <3>2
  <2>4. FrameScript(len) = f
    BY <2>1
  <2> HIDE DEF s, f
  <2> QED BY <1>2, <2>3, <2>4
<1>3. CASE len > 0
  <2>1. FrameScript(len) = <<a, OpenFifo>> \o <<r>> \o <<CloseFifo>>
    BY <1>3 DEF FrameScript
  <2> DEFINE s == <<a, OpenFifo>> \o <<r>>
             f == s \o <<CloseFifo>>
  <2>2. Plain \subseteq CommandType
    BY DEF Plain
  <2>3. /\ <<a, OpenFifo>> \in Seq(CommandType) /\ <<r>> \in Seq(CommandType)
        /\ <<CloseFifo>> \in Seq(CommandType)
    BY <1>1, <1>3, <2>2
  <2>4. /\ s \in Seq(CommandType) /\ Len(s) = 3 /\ s[1] = a /\ s[2] = OpenFifo /\ s[3] = r
    <3> HIDE DEF a, r
    <3> QED BY <2>3, ConcatProperties
  <2> HIDE DEF s
  <2>5. /\ f \in Seq(CommandType) /\ Len(f) = 4
        /\ f[1] = s[1] /\ f[2] = s[2] /\ f[3] = s[3] /\ f[4] = CloseFifo
    <3> DEFINE c == <<CloseFifo>>
    <3>1. c \in Seq(CommandType) /\ Len(c) = 1 /\ c[1] = CloseFifo
      BY <2>3
    <3>2. /\ f \in Seq(CommandType) /\ Len(f) = Len(s) + Len(c)
          /\ \A i \in 1 .. Len(s) + Len(c) : f[i] = IF i <= Len(s) THEN s[i] ELSE c[i - Len(s)]
      BY <2>3, <2>4, <3>1, ConcatProperties
    <3> HIDE DEF f, c
    <3> QED BY <2>4, <3>1, <3>2
  <2>6. FrameScript(len) = f
    BY <2>1 DEF s
  <2> HIDE DEF f, a, r
  <2>7. /\ FrameScript(len)[1] = Write16("RXFDPR")
        /\ FrameScript(len)[3] = FifoRead(RxLength(len))
    BY <2>4, <2>5, <2>6 DEF a, r
  <2> QED BY <1>1, <1>3, <2>4, <2>5, <2>6, <2>7 DEF a, r
<1> QED BY <1>2, <1>3, Lengths

-----------------------------------------------------------------------------
\* The program's place in its script.
LinkTypes ==
  /\ script \in Seq(CommandType) /\ calls \in Seq(CallType)
  /\ waiting \in BOOLEAN
  /\ (cur = NoCall /\ waiting = FALSE) \/ cur \in CallType
  /\ script = << >> => cur = NoCall /\ calls = << >>
  /\ pc \in {"start", "woken", "reset"} => script = << >>
  /\ reported \in 0 .. REPORT_MAX /\ stored \in Nat /\ fid \in 0 .. FIDS - 1

\* The bytes of the frame that are in the packet and those that will come are the
\* length that ks8851_rx returns, wherever the read of the FIFO stands.
Length  == RxLength(reported)
Reading ==
  \/ /\ calls = <<Call(1, 0, {"START"}), Call(0, Length, {"STOP"})>>
     /\ cur = NoCall /\ stored = 0
  \/ /\ calls = <<Call(0, Length, {"STOP"})>>
     /\ cur.rx = 0 /\ stored = 0 /\ (waiting = TRUE => "READ" \notin ctl)
  \/ /\ calls = << >>
     /\ cur.tx = 0 /\ stored + cur.rx + (IF waiting = TRUE THEN 1 ELSE 0) = Length
     /\ waiting = TRUE => "READ" \in ctl

ReadsAt(k) ==
  /\ script[k].op = "rxfifo" /\ script[k].len = Length
  /\ \A i \in 1 .. Len(script) : i # k => script[i] \in Plain
  /\ k = 1 => Reading
  /\ k > 1 => stored = 0
FrameInv ==
  \/ script \in Seq(Plain) /\ stored = Length
  \/ \E k \in 1 .. Len(script) : ReadsAt(k)

LinkInv == LinkTypes /\ FrameInv

\* The bytes of the call in progress.
LEMMA BytesTyped == LinkInv => cur.tx \in Nat /\ cur.rx \in Nat
<1>1. \A c \in CallType : c.tx \in Nat /\ c.rx \in Nat
  BY DEF CallType
<1>2. NoCall.tx \in Nat /\ NoCall.rx \in Nat
  BY DEF NoCall
<1>3. LinkInv => cur = NoCall \/ cur \in CallType
  BY DEF LinkInv, LinkTypes
<1> QED BY <1>1, <1>2, <1>3

\* The steps of the port, and those before it works.
LEMMA PortKeeps ==
  ASSUME LinkInv, UNCHANGED <<script, calls, cur, waiting, reported, stored, fid>>,
         script # << >> => ("READ" \in ctl' <=> "READ" \in ctl),
         pc' \in {"start", "woken", "reset"} => script = << >>
  PROVE  LinkInv'
<1>1. LinkTypes'
  BY DEF LinkInv, LinkTypes
<1>2. Length' = Length
  BY DEF Length, RxLength
<1>3. CASE script \in Seq(Plain) /\ stored = Length
  BY <1>1, <1>2, <1>3 DEF LinkInv, FrameInv
<1>4. ASSUME NEW k \in 1 .. Len(script), ReadsAt(k) PROVE FrameInv'
  <2>1. script # << >>
    BY DEF LinkInv, LinkTypes
  <2>2. Reading => Reading'
    BY <1>2, <2>1 DEF Reading
  <2>3. ReadsAt(k)'
    BY <1>2, <1>4, <2>2 DEF ReadsAt
  <2> QED BY <2>3 DEF FrameInv
<1> QED BY <1>1, <1>3, <1>4 DEF LinkInv, FrameInv

-----------------------------------------------------------------------------
\* A call that does not read a frame begins.
LEMMA RunKeeps ==
  ASSUME LinkInv, NEW from, NEW to, to \notin {"start", "woken", "reset"},
         NEW s \in Seq(Plain) \ {<< >>}, Run(from, to, s)
  PROVE  LinkInv'
<1>1. /\ pc' = to /\ script = << >> /\ script' = s /\ calls' = SpiCalls(Head(s))
      /\ UNCHANGED <<cur, waiting, reported, stored, fid>>
  BY DEF Run, Begin, Busy
<1>2. Head(s) \in Plain /\ Plain \subseteq CommandType
  BY DEF Plain
<1>3. SpiCalls(Head(s)) \in Seq(CallType)
  BY <1>2, CallsTyped
<1>4. LinkTypes'
  BY <1>1, <1>2, <1>3 DEF LinkInv, LinkTypes
<1>5. stored = Length
  BY <1>1 DEF LinkInv, FrameInv
<1>6. Length' = Length
  BY <1>1 DEF Length, RxLength
<1> QED BY <1>1, <1>4, <1>5, <1>6 DEF LinkInv, FrameInv

LEMMA CallersKeep == LinkInv /\ (Callers \/ RightChip) => LinkInv'
<1> SUFFICES ASSUME LinkInv, Callers \/ RightChip PROVE LinkInv'
  OBVIOUS
<1>1. CASE ks8851_halt
  BY <1>1, PlainScripts, RunKeeps DEF ks8851_halt
<1>2. CASE ks8851_init
  BY <1>2, PlainScripts, RunKeeps DEF ks8851_init
<1>3. CASE RightChip
  BY <1>3, PlainScripts, RunKeeps DEF RightChip
<1>4. CASE ks8851_mac_set
  BY <1>4, PlainScripts, RunKeeps DEF ks8851_mac_set
<1>5. CASE ks8851_rxfc_get
  BY <1>5, PlainScripts, RunKeeps DEF ks8851_rxfc_get
<1>6. CASE ks8851_rx
  BY <1>6, PlainScripts, RunKeeps DEF ks8851_rx
<1>7. CASE ks8851_tx
  <2>1. PICK len \in 1 .. TX_MAX :
          /\ Begin("up", "up", TxScript(len, fid))
          /\ fid' = (fid + 1) % FIDS /\ UNCHANGED <<reported, stored>>
    BY <1>7 DEF ks8851_tx
  <2>2. len \in Nat \ {0} /\ fid \in Nat /\ fid' \in 0 .. FIDS - 1
    BY <2>1, Lengths, LengthAssumption DEF LinkInv, LinkTypes
  <2> DEFINE s == TxScript(len, fid)
  <2>3. s \in Seq(Plain) \ {<< >>}
    BY <2>2, PlainScripts
  <2> HIDE DEF s
  <2>4. /\ pc' = "up" /\ script = << >> /\ script' = s /\ calls' = SpiCalls(Head(s))
        /\ UNCHANGED <<cur, waiting, reported, stored>>
    BY <2>1 DEF Begin, Busy, s
  <2>5. Head(s) \in Plain /\ Plain \subseteq CommandType
    BY <2>3 DEF Plain
  <2>6. SpiCalls(Head(s)) \in Seq(CallType)
    BY <2>5, CallsTyped
  <2>7. LinkTypes'
    BY <2>2, <2>3, <2>4, <2>5, <2>6 DEF LinkInv, LinkTypes
  <2>8. stored = Length
    BY <2>4 DEF LinkInv, FrameInv
  <2>9. Length' = Length
    BY <2>4 DEF Length, RxLength
  <2> QED BY <2>3, <2>4, <2>7, <2>8, <2>9 DEF LinkInv, FrameInv
<1> QED BY <1>1, <1>2, <1>3, <1>4, <1>5, <1>6, <1>7 DEF Callers

LEMMA RxFrameKeeps == LinkInv /\ RxFrame => LinkInv'
<1> SUFFICES ASSUME LinkInv, RxFrame PROVE LinkInv'
  OBVIOUS
<1>1. PICK len \in 0 .. REPORT_MAX :
        /\ Begin("header", "up", FrameScript(len))
        /\ reported' = len /\ stored' = 0 /\ UNCHANGED fid
  BY DEF RxFrame
<1> DEFINE s == FrameScript(len)
<1>2. /\ len = 0 => s \in Seq(Plain) \ {<< >>}
      /\ len > 0 => /\ s \in Seq(CommandType) /\ Len(s) = 4
                    /\ s[3] = FifoRead(RxLength(len))
                    /\ \A i \in {1, 2, 4} : s[i] \in Plain
  BY FrameScripts
<1>3. Plain \subseteq CommandType
  BY DEF Plain
<1>4. RxLength(len) \in Nat /\ (len = 0 => RxLength(len) = 0)
  BY RxLengthFits, Lengths
<1>5. /\ pc' = "up" /\ script' = s /\ calls' = SpiCalls(Head(s))
      /\ cur = NoCall /\ UNCHANGED <<cur, waiting, fid>>
  BY <1>1 DEF Begin, Busy, LinkInv, LinkTypes
<1> HIDE DEF s
<1>6. s \in Seq(CommandType) \ {<< >>}
  BY <1>2, <1>3, Lengths
<1>7. Head(s) \in CommandType
  BY <1>6
<1>8. SpiCalls(Head(s)) \in Seq(CallType)
  BY <1>7, CallsTyped
<1>9. LinkTypes'
  BY <1>1, <1>5, <1>6, <1>8, Lengths DEF LinkInv, LinkTypes
<1>10. Length' = RxLength(len)
  BY <1>1 DEF Length, RxLength
<1>11. CASE len = 0
  BY <1>1, <1>2, <1>4, <1>5, <1>9, <1>10, <1>11 DEF LinkInv, FrameInv
<1>12. CASE len > 0
  <2>1. s[3].op = "rxfifo" /\ s[3].len = RxLength(len)
    BY <1>2, <1>12 DEF FifoRead, Command
  <2>2. \A i \in 1 .. Len(s) : i # 3 => s[i] \in Plain
    BY <1>2, <1>12
  <2>3. ReadsAt(3)'
    BY <1>1, <1>5, <1>10, <2>1, <2>2 DEF ReadsAt
  <2>4. 3 \in 1 .. Len(script')
    <3>1. Len(s) = 4
      BY <1>2, <1>12
    <3> QED BY <1>5, <3>1
  <2>5. FrameInv'
    BY <2>3, <2>4 DEF FrameInv
  <2> QED BY <1>9, <2>5 DEF LinkInv
<1> QED BY <1>11, <1>12, Lengths

-----------------------------------------------------------------------------
\* The next command of the script; the FIFO's is followed by others only.
LEMMA NextCommandKeeps == LinkInv /\ NextCommand => LinkInv'
<1> SUFFICES ASSUME LinkInv, NextCommand PROVE LinkInv'
  OBVIOUS
<1>1. /\ script \in Seq(CommandType) /\ script # << >> /\ calls = << >> /\ cur = NoCall
      /\ waiting = FALSE /\ script' = Tail(script)
      /\ calls' = IF script' = << >> THEN << >> ELSE SpiCalls(Head(script'))
      /\ UNCHANGED <<pc, reported, fid, cur, waiting, ctl, stored>>
  BY DEF NextCommand, Busy, LinkInv, LinkTypes, NoCall, CallType
<1>2. /\ Tail(script) \in Seq(CommandType) /\ Len(Tail(script)) = Len(script) - 1
      /\ \A i \in 1 .. Len(script) - 1 : Tail(script)[i] = script[i + 1]
  BY <1>1
<1>3. ASSUME script' # << >>
      PROVE  Head(script') \in CommandType /\ SpiCalls(Head(script')) \in Seq(CallType)
  <2>1. Head(script') \in CommandType
    BY <1>1, <1>2, <1>3
  <2> QED BY <2>1, CallsTyped
<1>4. calls' \in Seq(CallType)
  BY <1>1, <1>3
<1>5. LinkTypes'
  BY <1>1, <1>2, <1>4 DEF LinkInv, LinkTypes
<1>6. Length' = Length /\ Length \in Nat
  BY <1>1, RxLengthFits, Lengths DEF Length, RxLength, LinkInv, LinkTypes
<1>7. CASE script \in Seq(Plain) /\ stored = Length
  <2>1. Tail(script) \in Seq(Plain)
    BY <1>1, <1>7
  <2> QED BY <1>1, <1>5, <1>6, <1>7, <2>1 DEF LinkInv, FrameInv
<1>8. ASSUME NEW k \in 1 .. Len(script), ReadsAt(k) PROVE FrameInv'
  <2>1. Len(script) \in Nat
    BY <1>1
  <2>2. CASE k = 1
    <3>1. stored = Length
      BY <1>1, <1>6, <1>8, <2>2 DEF ReadsAt, Reading, NoCall, LinkInv, LinkTypes
    <3>2. \A i \in 1 .. Len(Tail(script)) : Tail(script)[i] \in Plain
      BY <1>2, <1>8, <2>1, <2>2 DEF ReadsAt
    <3>3. Tail(script) \in Seq(Plain)
      <4> DEFINE n == Len(Tail(script))
      <4>1. n \in Nat /\ Tail(script) \in [1 .. n -> CommandType]
        BY <1>2, LenProperties
      <4>2. Tail(script) \in [1 .. n -> Plain]
        BY <3>2, <4>1
      <4> HIDE DEF n
      <4>3. Seq(Plain) = UNION {[1 .. m -> Plain] : m \in Nat}
        BY SeqDef
      <4> QED BY <4>1, <4>2, <4>3, Zenon
    <3> QED BY <1>1, <1>6, <3>1, <3>3 DEF FrameInv
  <2>3. CASE k > 1
    <3>1. k - 1 \in 1 .. Len(script') /\ script'[k - 1] = script[k]
      BY <1>1, <1>2, <2>1, <2>3
    <3>2. /\ script'[k - 1].op = "rxfifo" /\ script'[k - 1].len = Length' /\ stored' = 0
      BY <1>1, <1>6, <1>8, <2>3, <3>1 DEF ReadsAt
    <3>3. \A i \in 1 .. Len(script') : i # k - 1 => script'[i] \in Plain
      BY <1>1, <1>2, <1>8, <2>1 DEF ReadsAt
    <3>4. k - 1 = 1 => Reading'
      <4> SUFFICES ASSUME k - 1 = 1 PROVE Reading'
        OBVIOUS
      <4>1. script' # << >> /\ Head(script') = script'[1]
        BY <1>1, <1>2, <3>1
      <4>2. Head(script') \in CommandType
        BY <1>3, <4>1
      <4>3. calls' = <<Call(1, 0, {"START"}), Call(0, Length', {"STOP"})>>
        BY <1>1, <3>2, <4>1, <4>2, CallsTyped
      <4> QED BY <1>1, <3>2, <4>3 DEF Reading
    <3>5. ReadsAt(k - 1)'
      BY <3>2, <3>3, <3>4 DEF ReadsAt
    <3> QED BY <3>1, <3>5 DEF FrameInv
  <2> QED BY <2>1, <2>2, <2>3
<1> QED BY <1>5, <1>7, <1>8 DEF LinkInv, FrameInv

-----------------------------------------------------------------------------
\* spi_txrx begins, byte by byte.
LEMMA ScriptKept ==
  ASSUME LinkInv, UNCHANGED <<script, reported>>, LinkTypes',
         script \in Seq(Plain) \/ ReadsAt(1) = FALSE => stored' = stored,
         ReadsAt(1) => Reading'
  PROVE  LinkInv'
<1>1. Length' = Length
  BY DEF Length, RxLength
<1>2. CASE script \in Seq(Plain) /\ stored = Length
  BY <1>1, <1>2 DEF LinkInv, FrameInv
<1>3. ASSUME NEW k \in 1 .. Len(script), ReadsAt(k) PROVE FrameInv'
  <2>1. Len(script) \in Nat
    BY DEF LinkInv, LinkTypes
  <2>2. CASE k = 1
    <3>1. ReadsAt(1)'
      BY <1>1, <1>3, <2>2 DEF ReadsAt
    <3> QED BY <1>3, <2>2, <3>1 DEF FrameInv
  <2>3. CASE k > 1
    <3>1. ReadsAt(1) = FALSE
      <4>1. 1 \in 1 .. Len(script) /\ script[1] \in Plain
        BY <1>3, <2>1, <2>3 DEF ReadsAt
      <4>2. ~ReadsAt(1)
        BY <4>1 DEF ReadsAt, Plain
      <4> QED BY <4>2 DEF ReadsAt
    <3>2. ReadsAt(k)'
      BY <1>1, <1>3, <2>3, <3>1 DEF ReadsAt
    <3> QED BY <3>2 DEF FrameInv
  <2> QED BY <2>1, <2>2, <2>3
<1> QED BY <1>2, <1>3 DEF LinkInv, FrameInv

LEMMA EnterKeeps == LinkInv /\ EnterTxRx => LinkInv'
<1> SUFFICES ASSUME LinkInv, EnterTxRx PROVE LinkInv'
  OBVIOUS
<1>1. /\ cur = NoCall /\ calls # << >> /\ calls \in Seq(CallType) /\ calls' = Tail(calls)
      /\ UNCHANGED <<pc, script, reported, fid, waiting, stored>> /\ waiting = FALSE
      /\ \/ Head(calls).tx + Head(calls).rx = 0 /\ cur' = cur
         \/ cur' = Head(calls)
      /\ script # << >>
  BY DEF EnterTxRx, program, LinkInv, LinkTypes, NoCall, CallType
<1>2. Head(calls) \in CallType /\ Tail(calls) \in Seq(CallType)
  BY <1>1
<1>3. LinkTypes'
  BY <1>1, <1>2 DEF LinkInv, LinkTypes
<1>4. ReadsAt(1) => Reading'
  <2> SUFFICES ASSUME Reading PROVE Reading'
    BY DEF ReadsAt
  <2>1. Length' = Length /\ Length \in Nat
    BY <1>1, RxLengthFits, Lengths DEF Length, RxLength, LinkInv, LinkTypes
  <2>2. CASE calls = <<Call(1, 0, {"START"}), Call(0, Length, {"STOP"})>> /\ stored = 0
    <3>1. Head(calls) = Call(1, 0, {"START"}) /\ Tail(calls) = <<Call(0, Length, {"STOP"})>>
      BY <2>2
    <3>2. Head(calls).tx = 1 /\ Head(calls).rx = 0
      BY <3>1 DEF Call
    <3>3. cur'.rx = 0
      BY <1>1, <3>2
    <3> QED BY <1>1, <2>1, <2>2, <3>1, <3>3 DEF Reading
  <2>3. CASE calls = <<Call(0, Length, {"STOP"})>> /\ stored = 0
    <3>1. Head(calls) = Call(0, Length, {"STOP"}) /\ Tail(calls) = << >>
      BY <2>3
    <3>2. Head(calls).tx = 0 /\ Head(calls).rx = Length
      BY <3>1 DEF Call
    <3>3. cur'.tx = 0 /\ cur'.rx = Length
      BY <1>1, <2>1, <3>2 DEF NoCall
    <3> QED BY <1>1, <2>1, <2>3, <3>1, <3>3 DEF Reading
  <2> QED BY <1>1, <2>2, <2>3 DEF Reading
<1> QED BY <1>1, <1>3, <1>4, ScriptKept

\* A byte goes out, or one is asked for.
LEMMA ByteBegunKeeps == LinkInv /\ (WriteByte \/ ReadByte) => LinkInv'
<1> SUFFICES ASSUME LinkInv, WriteByte \/ ReadByte PROVE LinkInv'
  OBVIOUS
<1>1. /\ waiting = FALSE /\ waiting' = TRUE /\ cur \in CallType
      /\ UNCHANGED <<pc, script, reported, fid, calls, stored>>
      /\ \/ cur.tx > 0 /\ cur' = [cur EXCEPT !.tx = @ - 1]
         \/ cur.tx = 0 /\ cur.rx > 0 /\ cur' = [cur EXCEPT !.rx = @ - 1]
  BY DEF WriteByte, ReadByte, program, LinkInv, LinkTypes, NoCall
<1>2. cur' \in CallType
  BY <1>1 DEF CallType
<1>3. script # << >>
  BY <1>1 DEF LinkInv, LinkTypes, NoCall, CallType
<1>4. LinkTypes'
  BY <1>1, <1>2, <1>3 DEF LinkInv, LinkTypes
<1>5. ReadsAt(1) => Reading'
  <2> SUFFICES ASSUME Reading PROVE Reading'
    BY DEF ReadsAt
  <2>1. Length' = Length /\ Length \in Nat /\ cur.tx \in Nat /\ cur.rx \in Nat /\ stored \in Nat
    BY <1>1, RxLengthFits, Lengths DEF Length, RxLength, LinkInv, LinkTypes, CallType
  <2>2. cur # NoCall
    BY <1>1 DEF NoCall, CallType
  <2>3. CASE WriteByte
    <3>1. cur.tx > 0 /\ "READ" \notin ctl' /\ cur' = [cur EXCEPT !.tx = @ - 1]
      BY <2>3 DEF WriteByte
    <3>2. cur'.rx = cur.rx
      BY <1>1, <3>1 DEF CallType
    <3>3. /\ calls = <<Call(0, Length, {"STOP"})>> /\ cur.rx = 0 /\ stored = 0
      BY <2>1, <2>2, <3>1 DEF Reading
    <3> QED BY <1>1, <2>1, <3>1, <3>2, <3>3 DEF Reading
  <2>4. CASE ReadByte
    <3>1. cur.tx = 0 /\ cur.rx > 0 /\ "READ" \in ctl' /\ cur' = [cur EXCEPT !.rx = @ - 1]
      BY <2>4 DEF ReadByte, ReadMode
    <3>2. cur'.rx = cur.rx - 1 /\ cur'.tx = 0
      BY <1>1, <3>1 DEF CallType
    <3>3. calls = << >> /\ stored + cur.rx = Length
      BY <1>1, <2>1, <2>2, <3>1 DEF Reading
    <3>4. PICK rx : rx = cur'.rx
      OBVIOUS
    <3>5. stored + rx + 1 = Length
      BY <2>1, <3>2, <3>3, <3>4
    <3> QED BY <1>1, <2>1, <3>1, <3>2, <3>3, <3>4, <3>5 DEF Reading
  <2> QED BY <2>3, <2>4
<1> QED BY <1>1, <1>4, <1>5, ScriptKept

\* The byte is there.
LEMMA ByteDoneKeeps == LinkInv /\ ByteDone => LinkInv'
<1> SUFFICES ASSUME LinkInv, ByteDone PROVE LinkInv'
  OBVIOUS
<1>1. /\ waiting = TRUE /\ waiting' = FALSE /\ cur \in CallType
      /\ UNCHANGED <<pc, script, reported, fid, calls, ctl>>
      /\ stored' = IF "READ" \in ctl /\ Head(script).op = "rxfifo" THEN stored + 1 ELSE stored
      /\ cur' = IF cur.tx + cur.rx = 0 THEN NoCall ELSE cur
  BY DEF ByteDone, program, LinkInv, LinkTypes
<1>2. script # << >> /\ Head(script) = script[1] /\ stored \in Nat /\ stored' \in Nat
  <2>1. script # << >> /\ script \in Seq(CommandType) /\ stored \in Nat
    <3>1. cur # NoCall
      BY <1>1 DEF NoCall, CallType
    <3> QED BY <3>1 DEF LinkInv, LinkTypes
  <2>2. Head(script) = script[1]
    BY <2>1
  <2>3. stored' \in Nat
    BY <1>1, <2>1
  <2> QED BY <2>1, <2>2, <2>3
<1>3. LinkTypes'
  BY <1>1, <1>2 DEF LinkInv, LinkTypes
<1>4. ReadsAt(1) => Reading'
  <2> SUFFICES ASSUME Reading, script[1].op = "rxfifo" PROVE Reading'
    BY DEF ReadsAt
  <2>1. Length' = Length /\ Length \in Nat /\ cur.tx \in Nat /\ cur.rx \in Nat
    BY <1>1, RxLengthFits, Lengths DEF Length, RxLength, LinkInv, LinkTypes, CallType
  <2>2. cur # NoCall
    BY <1>1 DEF NoCall, CallType
  <2>3. cur'.rx = cur.rx /\ (cur.tx = 0 => cur'.tx = 0)
    BY <1>1, <2>1 DEF NoCall
  <2>4. CASE calls = <<Call(0, Length, {"STOP"})>> /\ cur.rx = 0 /\ stored = 0 /\ "READ" \notin ctl
    <3>1. stored' = 0
      BY <1>1, <2>4
    <3> QED BY <1>1, <2>1, <2>3, <2>4, <3>1 DEF Reading
  <2>5. CASE /\ calls = << >> /\ cur.tx = 0 /\ stored + cur.rx + 1 = Length /\ "READ" \in ctl
    <3>1. stored' = stored + 1
      BY <1>1, <1>2, <2>5
    <3>2. PICK n : n = stored'
      OBVIOUS
    <3>3. PICK rx : rx = cur'.rx
      OBVIOUS
    <3>4. n + rx + 0 = Length
      BY <1>2, <2>1, <2>3, <2>5, <3>1, <3>2, <3>3
    <3> QED BY <1>1, <2>1, <2>3, <2>5, <3>2, <3>3, <3>4 DEF Reading
  <2> QED BY <1>1, <2>2, <2>4, <2>5 DEF Reading
<1>5. script \in Seq(Plain) \/ ReadsAt(1) = FALSE => stored' = stored
  <2>1. ASSUME script \in Seq(Plain) PROVE stored' = stored
    <3>1. Head(script) \in Plain
      BY <1>2, <2>1
    <3> QED BY <1>1, <3>1 DEF Plain
  <2>2. ASSUME ~ReadsAt(1) PROVE stored' = stored
    <3>1. script \in Seq(Plain) \/ \E k \in 1 .. Len(script) : k # 1 /\ ReadsAt(k)
      BY <2>2 DEF LinkInv, FrameInv
    <3>2. ASSUME NEW k \in 1 .. Len(script), k # 1, ReadsAt(k) PROVE stored' = stored
      <4>1. Head(script) \in Plain
        BY <1>2, <3>2 DEF ReadsAt, LinkInv, LinkTypes
      <4> QED BY <1>1, <4>1 DEF Plain
    <3> QED BY <2>1, <3>1, <3>2
  <2> QED BY <2>1, <2>2
<1> QED BY <1>1, <1>3, <1>4, <1>5, ScriptKept

-----------------------------------------------------------------------------
LEMMA LinkStep == LinkInv /\ [Next]_vars => LinkInv'
<1> SUFFICES ASSUME LinkInv, [Next]_vars PROVE LinkInv'
  OBVIOUS
<1>1. CASE PortWake \/ PortReset \/ PortReady
  <2>1. /\ pc \in {"start", "woken", "reset"}
        /\ UNCHANGED <<script, calls, cur, waiting, reported, stored, fid>>
    BY <1>1 DEF PortWake, PortReset, PortReady, Port
  <2>2. script = << >>
    BY <2>1 DEF LinkInv, LinkTypes
  <2> QED BY <2>1, <2>2, PortKeeps
<1>2. CASE WrongChip
  <2>1. pc' = "failed" /\ UNCHANGED <<script, calls, cur, waiting, reported, stored, fid, ctl>>
    BY <1>2 DEF WrongChip
  <2> QED BY <2>1, PortKeeps
<1>3. CASE PortGates \/ Shift
  <2>1. /\ UNCHANGED <<pc, script, calls, cur, waiting, reported, stored, fid>>
        /\ "READ" \in ctl' <=> "READ" \in ctl
    BY <1>3 DEF PortGates, Shift, program
  <2>2. pc \in {"start", "woken", "reset"} => script = << >>
    BY DEF LinkInv, LinkTypes
  <2> QED BY <2>1, <2>2, PortKeeps
<1>4. CASE UNCHANGED vars
  <2>1. UNCHANGED <<pc, script, calls, cur, waiting, reported, stored, fid, ctl>>
    BY <1>4 DEF vars, program
  <2>2. pc \in {"start", "woken", "reset"} => script = << >>
    BY DEF LinkInv, LinkTypes
  <2> QED BY <2>1, <2>2, PortKeeps
<1>5. CASE RxFrame
  BY <1>5, RxFrameKeeps
<1>6. CASE RightChip \/ Callers
  BY <1>6, CallersKeep
<1>7. CASE NextCommand
  BY <1>7, NextCommandKeeps
<1>8. CASE EnterTxRx
  BY <1>8, EnterKeeps
<1>9. CASE WriteByte \/ ReadByte
  BY <1>9, ByteBegunKeeps
<1>10. CASE ByteDone
  BY <1>10, ByteDoneKeeps
<1> QED
  BY <1>1, <1>2, <1>3, <1>4, <1>5, <1>6, <1>7, <1>8, <1>9, <1>10 DEF Next, Driver, Hardware

\* Wherever a read of the FIFO stands, what is in the packet and what will come is the
\* length that ks8851_rx works with (drv_ks8851.c 212-227).
THEOREM LinkInvariant == Spec => []LinkInv
<1>1. Init => LinkInv
  <2> SUFFICES ASSUME Init PROVE LinkInv
    OBVIOUS
  <2>1. 0 \in 0 .. REPORT_MAX /\ RxLength(0) = 0
    BY RxLengthFits, Lengths
  <2>2. LinkTypes
    <3>1. /\ script = << >> /\ calls = << >> /\ cur = NoCall /\ waiting = FALSE
          /\ reported = 0 /\ stored = 0 /\ fid = 0
      BY DEF Init
    <3>2. << >> \in Seq(CommandType) /\ << >> \in Seq(CallType) /\ 0 \in 0 .. FIDS - 1
      BY EmptySeq, Lengths, LengthAssumption
    <3> QED BY <2>1, <3>1, <3>2 DEF LinkTypes
  <2>3. script \in Seq(Plain) /\ stored = Length
    BY <2>1 DEF Init, Length
  <2> QED BY <2>2, <2>3 DEF LinkInv, FrameInv
<1> QED BY <1>1, LinkStep, PTL DEF Spec

\* ks8851_rx stays within the packet and returns what it has put there, for every
\* length the chip reports (drv_ks8851.c 212-227).
THEOREM FrameFitsEver == Spec => []FrameFits
<1>1. LinkInv => FrameFits
  <2> SUFFICES ASSUME LinkInv PROVE FrameFits
    OBVIOUS
  <2>1. /\ Length \in 0 .. NET_PKT_MAX_SIZE
        /\ reported > 0 => Length >= NET_HW_RX_HEADER_SIZE
        /\ ALIGN(reported) + NET_HW_RX_HEADER_SIZE <= NET_PKT_MAX_SIZE /\ reported > 0
             => Length >= reported + NET_HW_RX_HEADER_SIZE
    BY RxLengthFits DEF Length, LinkInv, LinkTypes
  <2>2. stored \in Nat /\ script \in Seq(CommandType)
    BY DEF LinkInv, LinkTypes
  <2>3. stored <= Length
    <3>1. CASE script \in Seq(Plain) /\ stored = Length
      BY <2>1, <3>1, Lengths
    <3>2. ASSUME NEW k \in 1 .. Len(script), ReadsAt(k) PROVE stored <= Length
      <4>1. k = 1 \/ k > 1
        BY <2>2
      <4>2. CASE k > 1
        BY <2>1, <3>2, <4>2, Lengths DEF ReadsAt
      <4>3. CASE k = 1
        <5>1. cur.rx \in Nat
          BY BytesTyped
        <5>2. stored = 0 \/ stored + cur.rx + (IF waiting = TRUE THEN 1 ELSE 0) = Length
          BY <3>2, <4>3 DEF ReadsAt, Reading
        <5> QED BY <2>1, <2>2, <5>1, <5>2, Lengths
      <4> QED BY <4>1, <4>2, <4>3
    <3> QED BY <3>1, <3>2 DEF LinkInv, FrameInv
  <2>4. script = << >> => stored = Length
    BY DEF LinkInv, FrameInv
  <2>5. stored <= NET_PKT_MAX_SIZE
    BY <2>1, <2>2, <2>3, Lengths
  <2> QED BY <2>1, <2>4, <2>5 DEF FrameFits, Busy, Length
<1> QED BY <1>1, LinkInvariant, PTL

-----------------------------------------------------------------------------
\* The transfer of the first command of the script, which is not begun yet, in progress
\* with the select locked, at its last byte with the select let go, or over.
Locked   == "LOCK_CS" \in ctl
Shifting == "RUN" \in ctl
Bytes(c) == c.tx + c.rx
ToCome   == IF calls = << >> THEN Bytes(cur) ELSE Bytes(cur) + Bytes(calls[1])
Whose    == wire = Quiet \/ wire.cmd = script[1]

Unstarted == calls = SpiCalls(script[1]) /\ cur = NoCall /\ wire = Quiet /\ ~Shifting
Midway ==
  /\ \/ calls = << >> /\ "STOP" \in cur.flags
     \/ /\ \E y \in CallType : calls = <<y>> /\ y.flags = {"STOP"} /\ Bytes(y) > 0
        /\ cur = NoCall \/ cur.flags = {"START"}
  /\ Locked /\ ToCome > 0 /\ Whose /\ wire.bytes \in Nat
  /\ Shifting => waiting = TRUE
  /\ wire.bytes + (IF Shifting THEN 1 ELSE 0) + ToCome = CommandBytes(script[1])
LastOne ==
  /\ calls = << >> /\ cur # NoCall /\ Bytes(cur) = 0 /\ waiting = TRUE
  /\ Shifting /\ Released /\ Whose /\ wire.bytes + 1 = CommandBytes(script[1])
Over ==
  /\ calls = << >> /\ wire = Quiet /\ ~Shifting
  /\ cur = NoCall \/ (Bytes(cur) = 0 /\ waiting = TRUE)

TransferInv ==
  IF script = << >> THEN wire = Quiet /\ ~Shifting ELSE Unstarted \/ Midway \/ LastOne \/ Over

\* Where the program is within the script tells what is left to carry out.
todo == IF HeadDone \/ LastShifted THEN Tail(script) ELSE script

TodoFacts ==
  /\ script = << >> => todo = << >>
  /\ script # << >> /\ (Unstarted \/ Midway \/ LastOne) => todo = script
  /\ script # << >> /\ Over => todo = Tail(script)

\* A command takes at least one call.
LEMMA CallsNotEmpty == ASSUME NEW c \in CommandType PROVE SpiCalls(c) # << >>
<1> DEFINE s == SpiCalls(c)
<1>1. \/ s = <<Call(CommandBytes(c), 0, {"START", "STOP"})>>
      \/ \E x \in CallType, y \in CallType : s = <<x, y>>
  BY CallsOfCommand
<1> HIDE DEF s
<1>2. ASSUME NEW x, s = <<x>> PROVE s # << >>
  BY <1>2
<1>3. ASSUME NEW x, NEW y, s = <<x, y>> PROVE s # << >>
  BY <1>3
<1>4. s # << >>
  BY <1>1, <1>2, <1>3
<1> QED BY <1>4 DEF s

LEMMA TodoAt == LinkTypes => TodoFacts
<1> SUFFICES ASSUME LinkTypes PROVE TodoFacts
  OBVIOUS
<1>1. ASSUME script = << >> PROVE todo = << >>
  BY <1>1 DEF todo, HeadDone, LastShifted, Busy
<1>2. ASSUME script # << >>, Unstarted PROVE todo = script
  <2>1. script[1] \in CommandType
    BY <1>2 DEF LinkTypes
  <2>2. calls # << >>
    BY <1>2, <2>1, CallsNotEmpty DEF Unstarted
  <2> QED BY <2>2 DEF todo, HeadDone, LastShifted
<1>3. ASSUME Midway PROVE todo = script
  <2>1. calls = << >> => cur # NoCall /\ Bytes(cur) # 0
    BY <1>3 DEF Midway, ToCome, NoCall
  <2> QED BY <2>1 DEF todo, HeadDone, LastShifted, Bytes
<1>4. ASSUME LastOne PROVE todo = script
  BY <1>4 DEF LastOne, todo, HeadDone, LastShifted, Shifting
<1>5. ASSUME script # << >>, Over PROVE todo = Tail(script)
  <2>1. CASE cur = NoCall
    BY <1>5, <2>1 DEF Over, todo, HeadDone, Busy, LinkTypes, NoCall, CallType
  <2>2. CASE Bytes(cur) = 0 /\ waiting = TRUE
    BY <1>5, <2>2 DEF Over, todo, LastShifted, Busy, Bytes, Shifting
  <2> QED BY <1>5, <2>1, <2>2 DEF Over
<1> QED BY <1>1, <1>2, <1>3, <1>4, <1>5 DEF TodoFacts

LEMMA CallsAreCalls == ASSUME NEW c \in CallType PROVE c # NoCall
<1>1. c.flags # {}
  BY DEF CallType
<1>2. NoCall.flags = {}
  BY DEF NoCall
<1> QED BY <1>1, <1>2

-----------------------------------------------------------------------------
\* The scripts are made of what the chip can be told.
LEMMA ScriptIsOfItsCommands ==
  ASSUME NEW S, NEW s \in Seq(S) PROVE s \in Seq({s[i] : i \in 1 .. Len(s)})
<1> DEFINE n == Len(s)
           E == {s[i] : i \in 1 .. n}
<1>1. n \in Nat /\ s \in [1 .. n -> S]
  BY LenProperties
<1>2. s \in [1 .. n -> E]
  BY <1>1
<1>3. Seq(E) = UNION {[1 .. m -> E] : m \in Nat}
  BY SeqDef
<1> HIDE DEF n, E
<1>4. s \in Seq(E)
  BY <1>1, <1>2, <1>3, Zenon
<1> QED BY <1>4 DEF n, E

LEMMA ScriptTold ==
  ASSUME NEW S, NEW s \in CallScripts, s \in Seq(S) PROVE s \in Seq(Commands)
<1>1. {s[i] : i \in 1 .. Len(s)} \subseteq Commands
  BY DEF Commands
<1>2. s \in Seq({s[i] : i \in 1 .. Len(s)})
  BY ScriptIsOfItsCommands
<1> QED BY <1>1, <1>2, SeqMonotonic

\* So a call that begins is one the abstract link may issue.
Told == {s \in CallScripts : s \in Seq(Commands) /\ s # << >>}

LEMMA CallsTold ==
  /\ {HaltScript, ProbeScript, MacScript, SetupScript, CountScript, <<Read32("RXFHSR")>>}
       \subseteq Told
  /\ \A len \in 0 .. REPORT_MAX : FrameScript(len) \in Told
  /\ \A len \in 1 .. TX_MAX, v \in 0 .. FIDS - 1 : TxScript(len, v) \in Told
<1>1. ASSUME NEW s \in {HaltScript, ProbeScript, MacScript, SetupScript, CountScript,
                        <<Read32("RXFHSR")>>}
      PROVE  s \in Told
  <2>1. s \in Seq(Plain) \ {<< >>}
    BY PlainScripts
  <2>2. s \in CallScripts
    BY DEF CallScripts
  <2> QED BY <2>1, <2>2, ScriptTold DEF Told
<1>2. ASSUME NEW len \in 0 .. REPORT_MAX
      PROVE  FrameScript(len) \in Told
  <2> DEFINE s == FrameScript(len)
  <2>1. s \in CallScripts
    BY DEF CallScripts
  <2>2. \/ s \in Seq(Plain) \ {<< >>}
        \/ s \in Seq(CommandType) /\ Len(s) = 4
    BY FrameScripts, Lengths
  <2> HIDE DEF s
  <2>3. s \in Seq(Commands) /\ s # << >>
    BY <2>1, <2>2, ScriptTold
  <2> QED BY <2>1, <2>3 DEF s, Told
<1>3. ASSUME NEW len \in 1 .. TX_MAX, NEW v \in 0 .. FIDS - 1
      PROVE  TxScript(len, v) \in Told
  <2>1. len \in Nat \ {0} /\ v \in Nat
    BY Lengths
  <2>2. TxScript(len, v) \in Seq(Plain) \ {<< >>}
    BY <2>1, PlainScripts
  <2>3. TxScript(len, v) \in CallScripts
    BY DEF CallScripts
  <2> QED BY <2>2, <2>3, ScriptTold DEF Told
<1> QED BY <1>1, <1>2, <1>3

-----------------------------------------------------------------------------
\* A step of the port against one of the abstract link, and of the window of the FIFO.
Issued    == todo = << >> /\ todo' \in Told /\ UNCHANGED <<wire, done, sda>>
Delivered == /\ todo # << >> /\ todo' = Tail(todo)
             /\ done' = [cmd |-> Head(todo), bytes |-> CommandBytes(Head(todo))]
             /\ sda' = IF Head(todo).reg = "RXQCR" THEN Head(todo).val = 1 ELSE sda
Still     == UNCHANGED <<todo, done, sda>> /\ (wire # Quiet => wire' # Quiet)
LinkMoves == Issued \/ Delivered \/ Still

LEMMA TodoBothSides == LinkInv /\ LinkInv' => TodoFacts /\ TodoFacts'
<1>1. LinkInv => TodoFacts
  BY TodoAt DEF LinkInv
<1> QED BY <1>1, PTL

LEMMA BeginMoves ==
  ASSUME LinkInv, LinkInv', TransferInv, NEW s \in Told,
         script = << >>, script' = s, calls' = SpiCalls(Head(s)),
         UNCHANGED <<cur, waiting, ctl, fifo, chip>>
  PROVE  TransferInv' /\ LinkMoves
<1>1. cur = NoCall /\ wire = Quiet /\ ~Shifting
  BY DEF LinkInv, LinkTypes, TransferInv
<1>2. Head(s) = s[1]
  OBVIOUS
<1>3. script' # << >>
  BY DEF Told
<1>4. Unstarted'
  BY <1>1, <1>2 DEF Unstarted, Shifting, chip
<1>5. todo = << >> /\ todo' = s
  BY <1>3, <1>4, TodoBothSides DEF TodoFacts
<1>6. UNCHANGED <<wire, done, sda>>
  BY DEF chip
<1> QED BY <1>3, <1>4, <1>5, <1>6 DEF TransferInv, LinkMoves, Issued

LEMMA CallersMove ==
  LinkInv /\ LinkInv' /\ TransferInv /\ (Callers \/ RightChip \/ RxFrame)
    => TransferInv' /\ LinkMoves
<1> SUFFICES ASSUME LinkInv, LinkInv', TransferInv, Callers \/ RightChip \/ RxFrame
             PROVE  TransferInv' /\ LinkMoves
  OBVIOUS
<1>1. \E s \in Told :
        /\ script = << >> /\ script' = s /\ calls' = SpiCalls(Head(s))
        /\ UNCHANGED <<cur, waiting, ctl, fifo, chip>>
  <2> USE DEF Run, Begin, Busy
  <2>1. CASE ks8851_halt
    BY <2>1, CallsTold DEF ks8851_halt
  <2>2. CASE ks8851_init
    BY <2>2, CallsTold DEF ks8851_init
  <2>3. CASE RightChip
    BY <2>3, CallsTold DEF RightChip
  <2>4. CASE ks8851_mac_set
    BY <2>4, CallsTold DEF ks8851_mac_set
  <2>5. CASE ks8851_rxfc_get
    BY <2>5, CallsTold DEF ks8851_rxfc_get
  <2>6. CASE ks8851_rx
    BY <2>6, CallsTold DEF ks8851_rx
  <2>7. CASE ks8851_tx
    <3>1. PICK len \in 1 .. TX_MAX : Begin("up", "up", TxScript(len, fid))
      BY <2>7 DEF ks8851_tx
    <3>2. TxScript(len, fid) \in Told
      BY CallsTold DEF LinkInv, LinkTypes
    <3> QED BY <3>1, <3>2
  <2>8. CASE RxFrame
    <3>1. PICK len \in 0 .. REPORT_MAX : Begin("header", "up", FrameScript(len))
      BY <2>8 DEF RxFrame
    <3>2. FrameScript(len) \in Told
      BY CallsTold
    <3> QED BY <3>1, <3>2
  <2> QED BY <2>1, <2>2, <2>3, <2>4, <2>5, <2>6, <2>7, <2>8 DEF Callers
<1> QED BY <1>1, BeginMoves

\* The steps that leave the transfer where it is.
LEMMA ElsewhereMoves ==
  ASSUME LinkInv, LinkInv', TransferInv, UNCHANGED <<script, calls, cur, waiting, chip>>,
         script # << >> => \A b \in {"LOCK_CS", "IGNORE_CRC", "RUN"} : b \in ctl' <=> b \in ctl,
         "RUN" \in ctl' => "RUN" \in ctl
  PROVE  TransferInv' /\ LinkMoves
<1>1. CASE script = << >>
  <2>1. TransferInv'
    BY <1>1 DEF TransferInv, Shifting, chip
  <2>2. todo = << >> /\ todo' = << >>
    BY <1>1, TodoBothSides DEF TodoFacts
  <2> QED BY <2>1, <2>2 DEF LinkMoves, Still, chip
<1>2. CASE script # << >>
  <2>1. /\ Shifting' <=> Shifting
        /\ Locked' <=> Locked
        /\ Released' <=> Released
    BY <1>2 DEF Shifting, Locked, Released
  <2>2. TransferInv'
    <3>1. Unstarted => Unstarted'
      BY <2>1 DEF Unstarted, chip
    <3>2. Midway => Midway'
      BY <2>1 DEF Midway, ToCome, Bytes, Whose, chip
    <3>3. LastOne => LastOne'
      BY <2>1 DEF LastOne, Bytes, Whose, chip
    <3>4. Over => Over'
      BY <2>1 DEF Over, Bytes, chip
    <3> QED BY <1>2, <3>1, <3>2, <3>3, <3>4 DEF TransferInv
  <2>3. todo' = todo
    BY <1>2, <2>1 DEF todo, HeadDone, LastShifted, Busy, Shifting
  <2> QED BY <2>2, <2>3 DEF LinkMoves, Still, chip
<1> QED BY <1>1, <1>2

LEMMA NextCommandMoves ==
  LinkInv /\ LinkInv' /\ TransferInv /\ NextCommand => TransferInv' /\ LinkMoves
<1> SUFFICES ASSUME LinkInv, LinkInv', TransferInv, NextCommand
             PROVE  TransferInv' /\ LinkMoves
  OBVIOUS
<1>1. /\ script # << >> /\ script \in Seq(CommandType) /\ cur = NoCall /\ calls = << >>
      /\ script' = Tail(script) /\ script' \in Seq(CommandType)
      /\ calls' = IF script' = << >> THEN << >> ELSE SpiCalls(Head(script'))
      /\ UNCHANGED <<cur, waiting, ctl, wire, done, sda>>
  BY DEF NextCommand, Busy, LinkInv, LinkTypes, chip
<1>2. Over
  <2>1. ~Unstarted
    <3>1. script[1] \in CommandType
      BY <1>1
    <3>2. SpiCalls(script[1]) # << >>
      BY <3>1, CallsNotEmpty
    <3> QED BY <1>1, <3>2 DEF Unstarted
  <2>2. ~Midway /\ ~LastOne
    BY <1>1 DEF Midway, LastOne, ToCome, Bytes, NoCall
  <2> QED BY <1>1, <2>1, <2>2 DEF TransferInv
<1>3. todo = Tail(script)
  BY <1>1, <1>2, TodoBothSides DEF TodoFacts
<1>4. CASE script' = << >>
  <2>1. TransferInv'
    BY <1>1, <1>2, <1>4 DEF TransferInv, Over, Shifting
  <2>2. todo' = << >>
    BY <1>4, TodoBothSides DEF TodoFacts
  <2> QED BY <1>1, <1>3, <1>4, <2>1, <2>2 DEF LinkMoves, Still
<1>5. CASE script' # << >>
  <2>1. Head(script') = script'[1]
    BY <1>1, <1>5
  <2>2. Unstarted'
    BY <1>1, <1>2, <1>5, <2>1 DEF Unstarted, Over, Shifting
  <2>3. todo' = script'
    BY <1>5, <2>2, TodoBothSides DEF TodoFacts
  <2> QED BY <1>1, <1>3, <1>5, <2>2, <2>3 DEF LinkMoves, Still, TransferInv
<1> QED BY <1>4, <1>5

\* The byte by byte part of the transfer.
LEMMA EnterMoves ==
  LinkInv /\ LinkInv' /\ TransferInv /\ EnterTxRx => TransferInv' /\ LinkMoves
<1> SUFFICES ASSUME LinkInv, LinkInv', TransferInv, EnterTxRx
             PROVE  TransferInv' /\ LinkMoves
  OBVIOUS
<1>1. /\ script # << >> /\ script[1] \in CommandType /\ calls # << >> /\ cur = NoCall
      /\ calls \in Seq(CallType) /\ waiting = FALSE
      /\ calls' = Tail(calls) /\ UNCHANGED <<script, waiting, wire, done, sda>>
      /\ IF Head(calls).tx + Head(calls).rx = 0
           THEN UNCHANGED <<cur, ctl>>
           ELSE /\ cur' = Head(calls)
                /\ ctl' = IF "START" \in cur'.flags THEN Lock(ctl) ELSE ctl
  BY DEF EnterTxRx, program, chip, LinkInv, LinkTypes, NoCall, CallType
<1>2. ~LastOne /\ ~Over
  BY <1>1 DEF LastOne, Over
<1>3. Midway'
  <2>1. CASE Unstarted
    <3>1. \/ SpiCalls(script[1]) = <<Call(CommandBytes(script[1]), 0, {"START", "STOP"})>>
          \/ \E x \in CallType, y \in CallType :
               /\ SpiCalls(script[1]) = <<x, y>> /\ x.flags = {"START"} /\ y.flags = {"STOP"}
               /\ x.tx + x.rx > 0 /\ y.tx + y.rx > 0
               /\ x.tx + x.rx + y.tx + y.rx = CommandBytes(script[1])
      BY <1>1, CallsOfCommand
    <3>2. wire = Quiet /\ wire.bytes = 0 /\ ~Shifting /\ calls = SpiCalls(script[1])
      BY <2>1 DEF Unstarted, Quiet
    <3>3. CommandBytes(script[1]) \in Nat /\ CommandBytes(script[1]) >= 2
      BY <1>1, CallsOfCommand
    <3>4. CASE SpiCalls(script[1]) = <<Call(CommandBytes(script[1]), 0, {"START", "STOP"})>>
      <4>1. /\ Head(calls) = Call(CommandBytes(script[1]), 0, {"START", "STOP"})
            /\ Tail(calls) = << >>
        BY <3>2, <3>4
      <4>2. /\ Head(calls).tx = CommandBytes(script[1]) /\ Head(calls).rx = 0
            /\ Head(calls).flags = {"START", "STOP"}
        BY <4>1 DEF Call
      <4>3. cur' = Head(calls) /\ ctl' = Lock(ctl) /\ calls' = << >>
        BY <1>1, <3>3, <4>1, <4>2
      <4>4. Locked' /\ ~Shifting'
        BY <3>2, <4>3 DEF Locked, Shifting, Lock
      <4>5. ToCome' = CommandBytes(script[1])
        BY <3>3, <4>2, <4>3 DEF ToCome, Bytes
      <4> QED BY <1>1, <3>2, <3>3, <4>2, <4>3, <4>4, <4>5 DEF Midway, Whose
    <3>5. CASE \E x \in CallType, y \in CallType :
               /\ SpiCalls(script[1]) = <<x, y>> /\ x.flags = {"START"} /\ y.flags = {"STOP"}
               /\ x.tx + x.rx > 0 /\ y.tx + y.rx > 0
               /\ x.tx + x.rx + y.tx + y.rx = CommandBytes(script[1])
      <4>1. PICK x \in CallType, y \in CallType :
               /\ SpiCalls(script[1]) = <<x, y>> /\ x.flags = {"START"} /\ y.flags = {"STOP"}
               /\ x.tx + x.rx > 0 /\ y.tx + y.rx > 0
               /\ x.tx + x.rx + y.tx + y.rx = CommandBytes(script[1])
        BY <3>5
      <4>2. Head(calls) = x /\ Tail(calls) = <<y>>
        BY <3>2, <4>1
      <4>3. cur' = x /\ ctl' = Lock(ctl) /\ calls' = <<y>>
        BY <1>1, <4>1, <4>2
      <4>4. Locked' /\ ~Shifting'
        BY <3>2, <4>3 DEF Locked, Shifting, Lock
      <4>5. x.tx \in Nat /\ x.rx \in Nat /\ y.tx \in Nat /\ y.rx \in Nat
        BY DEF CallType
      <4>6. ToCome' = CommandBytes(script[1])
        BY <4>1, <4>3, <4>5 DEF ToCome, Bytes
      <4> QED BY <1>1, <3>2, <3>3, <4>1, <4>3, <4>4, <4>6 DEF Midway, Whose, Bytes
    <3> QED BY <3>1, <3>4, <3>5
  <2>2. CASE Midway
    <3>1. PICK y \in CallType : calls = <<y>> /\ y.flags = {"STOP"} /\ Bytes(y) > 0
      BY <1>1, <2>2 DEF Midway
    <3>2. Head(calls) = y /\ Tail(calls) = << >> /\ calls[1] = y
      BY <3>1
    <3>3. cur' = y /\ ctl' = ctl /\ calls' = << >>
      BY <1>1, <3>1, <3>2 DEF Bytes
    <3>4. Bytes(cur) = 0 /\ Bytes(y) \in Nat
      BY <1>1 DEF NoCall, Bytes, CallType
    <3>5. ToCome = Bytes(y) /\ ToCome' = Bytes(y)
      BY <1>1, <3>2, <3>3, <3>4 DEF ToCome, Bytes
    <3>6. (Locked' <=> Locked) /\ (Shifting' <=> Shifting)
      BY <3>3 DEF Locked, Shifting
    <3> QED BY <1>1, <2>2, <3>1, <3>3, <3>5, <3>6 DEF Midway, Whose
  <2> QED BY <1>1, <1>2, <2>1, <2>2 DEF TransferInv
<1>4. todo = script /\ todo' = script
  <2>1. Unstarted \/ Midway
    BY <1>1, <1>2 DEF TransferInv
  <2> QED BY <1>1, <1>3, <2>1, TodoBothSides DEF TodoFacts
<1> QED BY <1>1, <1>3, <1>4 DEF TransferInv, LinkMoves, Still

LEMMA ByteBegunMoves ==
  LinkInv /\ LinkInv' /\ TransferInv /\ (WriteByte \/ ReadByte) => TransferInv' /\ LinkMoves
<1> SUFFICES ASSUME LinkInv, LinkInv', TransferInv, WriteByte \/ ReadByte
             PROVE  TransferInv' /\ LinkMoves
  OBVIOUS
<1>1. /\ waiting = FALSE /\ waiting' = TRUE /\ cur \in CallType /\ Bytes(cur) > 0
      /\ UNCHANGED <<script, calls, wire, done, sda>>
      /\ \/ cur.tx > 0 /\ cur' = [cur EXCEPT !.tx = @ - 1]
         \/ cur.tx = 0 /\ cur.rx > 0 /\ cur' = [cur EXCEPT !.rx = @ - 1]
      /\ "RUN" \in ctl' /\ \A b \in {"LOCK_CS", "IGNORE_CRC"} : b \in ctl' <=> b \in Select
  <2>1. waiting = FALSE /\ waiting' = TRUE /\ cur \in CallType
        /\ UNCHANGED <<script, calls, wire, done, sda>>
        /\ \/ cur.tx > 0 /\ cur' = [cur EXCEPT !.tx = @ - 1]
           \/ cur.tx = 0 /\ cur.rx > 0 /\ cur' = [cur EXCEPT !.rx = @ - 1]
    BY DEF WriteByte, ReadByte, program, chip, LinkInv, LinkTypes, NoCall
  <2>2. Bytes(cur) > 0
    BY <2>1 DEF Bytes, CallType
  <2>3. "RUN" \in ctl' /\ \A b \in {"LOCK_CS", "IGNORE_CRC"} : b \in ctl' <=> b \in Select
    BY DEF WriteByte, ReadByte, ReadMode
  <2> QED BY <2>1, <2>2, <2>3
<1>2. /\ cur' \in CallType /\ cur'.flags = cur.flags /\ Bytes(cur) \in Nat
      /\ Bytes(cur') \in Nat /\ Bytes(cur') = Bytes(cur) - 1
  <2>1. cur.tx \in Nat /\ cur.rx \in Nat
    BY <1>1 DEF CallType
  <2>2. PICK c : c = cur'
    OBVIOUS
  <2>3. /\ c \in CallType /\ c.flags = cur.flags
        /\ c.tx \in Nat /\ c.rx \in Nat /\ c.tx + c.rx = cur.tx + cur.rx - 1
    BY <1>1, <2>1, <2>2 DEF CallType
  <2> QED BY <2>1, <2>2, <2>3 DEF Bytes
<1>3. /\ script # << >> /\ cur # NoCall /\ ~Shifting /\ Midway
  <2>1. cur # NoCall
    BY <1>1, CallsAreCalls
  <2>4. script # << >>
    BY <2>1 DEF LinkInv, LinkTypes
  <2>2. Midway
    BY <1>1, <2>1, <2>4 DEF TransferInv, Unstarted, LastOne, Over
  <2>3. ~Shifting
    BY <1>1, <2>2 DEF Midway
  <2> QED BY <2>1, <2>2, <2>3, <2>4
<1>4. Shifting' /\ Whose' /\ wire.bytes + ToCome = CommandBytes(script[1])
      /\ wire.bytes \in Nat /\ Locked
  BY <1>1, <1>3 DEF Shifting, Whose, Midway
<1>5. CASE LastByte(cur)
  <2>1. calls = << >> /\ Bytes(cur) = 1
    BY <1>3, <1>5 DEF LastByte, Midway, Bytes, NoCall
  <2>2. Select = Unlock(ctl)
    BY <1>5 DEF Select
  <2>3. Released'
    BY <1>1, <2>2 DEF Released, Unlock
  <2>4. cur' # NoCall /\ Bytes(cur') = 0
    <3>1. cur' # NoCall
      BY <1>2, CallsAreCalls
    <3>2. Bytes(cur') = 0
      BY <1>2, <2>1
    <3> QED BY <3>1, <3>2
  <2>5. ToCome = 1
    BY <2>1 DEF ToCome
  <2>6. LastOne'
    BY <1>1, <1>4, <2>1, <2>3, <2>4, <2>5 DEF LastOne, Bytes
  <2>7. todo = script /\ todo' = script
    BY <1>1, <1>3, <2>6, TodoBothSides DEF TodoFacts
  <2> QED BY <1>1, <1>3, <2>6, <2>7 DEF TransferInv, LinkMoves, Still
<1>6. CASE ~LastByte(cur)
  <2>1. Locked'
    BY <1>1, <1>4, <1>6 DEF Locked, Select
  <2>2. ToCome \in Nat /\ ToCome' = ToCome - 1 /\ ToCome' > 0
    <3>1. CASE calls = << >>
      <4>1. "STOP" \in cur.flags
        BY <1>3, <3>1 DEF Midway
      <4>2. Bytes(cur) # 1
        BY <1>6, <4>1 DEF LastByte, Bytes
      <4> QED BY <1>1, <1>2, <3>1, <4>2 DEF ToCome, Bytes
    <3>2. CASE calls # << >>
      <4>1. PICK y \in CallType : calls = <<y>> /\ Bytes(y) > 0
        BY <1>3, <3>2 DEF Midway
      <4>2. Bytes(y) \in Nat /\ calls[1] = y /\ calls' # << >> /\ calls'[1] = y
        BY <1>1, <3>2, <4>1 DEF Bytes, CallType
      <4>3. ToCome = Bytes(cur) + Bytes(y) /\ ToCome' = Bytes(cur') + Bytes(y)
        BY <3>2, <4>2 DEF ToCome, Bytes
      <4> QED BY <1>2, <4>1, <4>2, <4>3
    <3> QED BY <3>1, <3>2
  <2>3. \/ calls' = << >> /\ "STOP" \in cur'.flags
        \/ /\ \E y \in CallType : calls' = <<y>> /\ y.flags = {"STOP"} /\ Bytes(y) > 0
           /\ cur' = NoCall \/ cur'.flags = {"START"}
    BY <1>1, <1>2, <1>3 DEF Midway, Bytes
  <2>4. PICK n : n = ToCome'
    OBVIOUS
  <2>5. wire.bytes + 1 + n = CommandBytes(script[1])
    BY <1>4, <2>2, <2>4
  <2>6. Midway'
    BY <1>1, <1>4, <2>1, <2>2, <2>3, <2>4, <2>5 DEF Midway, Bytes
  <2>7. todo = script /\ todo' = script
    BY <1>1, <1>3, <2>6, TodoBothSides DEF TodoFacts
  <2> QED BY <1>1, <1>3, <2>6, <2>7 DEF TransferInv, LinkMoves, Still
<1> QED BY <1>5, <1>6

LEMMA ByteDoneMoves ==
  LinkInv /\ LinkInv' /\ TransferInv /\ ByteDone => TransferInv' /\ LinkMoves
<1> SUFFICES ASSUME LinkInv, LinkInv', TransferInv, ByteDone
             PROVE  TransferInv' /\ LinkMoves
  OBVIOUS
<1>1. /\ waiting = TRUE /\ ~Shifting /\ waiting' = FALSE
      /\ cur' = IF Bytes(cur) = 0 THEN NoCall ELSE cur
      /\ UNCHANGED <<script, calls, ctl, wire, done, sda>>
  BY DEF ByteDone, Shifting, Bytes, program, chip, LinkInv, LinkTypes
<1>2. cur \in CallType /\ cur # NoCall
  <2>1. cur \in CallType
    BY <1>1 DEF LinkInv, LinkTypes
  <2> QED BY <2>1, CallsAreCalls
<1>3. script # << >>
  BY <1>2 DEF LinkInv, LinkTypes
<1>4. Midway \/ Over
  BY <1>1, <1>2, <1>3 DEF TransferInv, Unstarted, LastOne
<1>5. (Locked' <=> Locked) /\ ~Shifting' /\ Bytes(NoCall) = 0
  BY <1>1 DEF Locked, Shifting, Bytes, NoCall
<1>6. CASE Over
  <2>1. Over'
    BY <1>1, <1>2, <1>5, <1>6 DEF Over
  <2>2. todo = Tail(script) /\ todo' = Tail(script)
    BY <1>1, <1>3, <1>6, <2>1, TodoBothSides DEF TodoFacts
  <2> QED BY <1>1, <1>3, <2>1, <2>2 DEF TransferInv, LinkMoves, Still
<1>7. CASE Midway
  <2>1. Bytes(cur') = Bytes(cur)
    BY <1>1, <1>5
  <2>2. ToCome' = ToCome
    BY <1>1, <2>1 DEF ToCome, Bytes
  <2>3. calls = << >> => cur' = cur
    BY <1>1, <1>7 DEF Midway, ToCome
  <2>4. \/ calls' = << >> /\ "STOP" \in cur'.flags
        \/ /\ \E y \in CallType : calls' = <<y>> /\ y.flags = {"STOP"} /\ Bytes(y) > 0
           /\ cur' = NoCall \/ cur'.flags = {"START"}
    BY <1>1, <1>2, <1>7, <2>3 DEF Midway, Bytes
  <2>5. Midway'
    BY <1>1, <1>5, <1>7, <2>2, <2>4 DEF Midway, Whose, Bytes
  <2>6. todo = script /\ todo' = script
    BY <1>1, <1>3, <1>7, <2>5, TodoBothSides DEF TodoFacts
  <2> QED BY <1>1, <1>3, <2>5, <2>6 DEF TransferInv, LinkMoves, Still
<1> QED BY <1>4, <1>6, <1>7

\* The byte with which the chip is let go of carries the command out.
LEMMA ShiftMoves ==
  LinkInv /\ LinkInv' /\ TransferInv /\ Shift => TransferInv' /\ LinkMoves
<1> SUFFICES ASSUME LinkInv, LinkInv', TransferInv, Shift
             PROVE  TransferInv' /\ LinkMoves
  OBVIOUS
<1>1. /\ Shifting /\ ctl' = ctl \ {"RUN"} /\ ~Shifting'
      /\ UNCHANGED <<script, calls, cur, waiting>>
      /\ IF Released
           THEN /\ wire' = Quiet /\ done' = Sent
                /\ sda' = IF Sent.cmd.reg = "RXQCR" THEN Sent.cmd.val = 1 ELSE sda
           ELSE wire' = Sent /\ UNCHANGED <<done, sda>>
  BY DEF Shift, Shifting, program
<1>2. script # << >> /\ (Midway \/ LastOne)
  BY <1>1 DEF TransferInv, Unstarted, Over
<1>3. /\ Whose /\ Head(script) = script[1] /\ script \in Seq(CommandType)
      /\ script[1] \in CommandType
  BY <1>2 DEF Midway, LastOne, LinkInv, LinkTypes
<1>4. Sent = [cmd |-> script[1], bytes |-> wire.bytes + 1]
  BY <1>3 DEF Sent, Whose
<1>5. CASE LastOne
  <2>1. /\ done' = [cmd |-> script[1], bytes |-> CommandBytes(script[1])] /\ wire' = Quiet
        /\ sda' = IF script[1].reg = "RXQCR" THEN script[1].val = 1 ELSE sda
    BY <1>1, <1>4, <1>5 DEF LastOne
  <2>2. Over'
    BY <1>1, <1>5, <2>1 DEF LastOne, Over, Bytes
  <2>3. todo = script /\ todo' = Tail(script)
    BY <1>1, <1>2, <1>5, <2>2, TodoBothSides DEF TodoFacts
  <2> QED BY <1>1, <1>2, <1>3, <2>1, <2>2, <2>3 DEF TransferInv, LinkMoves, Still, Delivered
<1>6. CASE Midway
  <2>1. ~Released /\ Locked'
    BY <1>1, <1>6 DEF Midway, Locked, Released
  <2>2. PICK n : n = wire.bytes
    OBVIOUS
  <2>3. PICK w : w = wire'
    OBVIOUS
  <2>4. w.cmd = script[1] /\ w.bytes = n + 1 /\ n \in Nat
    BY <1>1, <1>4, <1>6, <2>1, <2>2, <2>3 DEF Midway
  <2>5. ToCome' = ToCome
    BY <1>1 DEF ToCome, Bytes
  <2>6. CommandBytes(script[1]) \in Nat /\ ToCome \in Nat
    <3>1. cur.tx \in Nat /\ cur.rx \in Nat
      BY BytesTyped
    <3>2. Bytes(cur) \in Nat
      BY <3>1 DEF Bytes
    <3>3. calls # << >> => Bytes(calls[1]) \in Nat
      BY <1>6 DEF Midway, Bytes, CallType
    <3> QED BY <1>3, <3>2, <3>3, CallsOfCommand DEF ToCome
  <2>7. n + 1 + ToCome = CommandBytes(script[1]) /\ ToCome > 0
    BY <1>1, <1>6, <2>2 DEF Midway
  <2>8. Midway'
    <3>1. /\ \/ calls' = << >> /\ "STOP" \in cur'.flags
             \/ /\ \E y \in CallType : calls' = <<y>> /\ y.flags = {"STOP"} /\ Bytes(y) > 0
                /\ cur' = NoCall \/ cur'.flags = {"START"}
      BY <1>1, <1>6 DEF Midway, Bytes
    <3>2. Whose'
      BY <1>1, <2>3, <2>4 DEF Whose
    <3>3. w.bytes \in Nat /\ w.bytes + 0 + ToCome = CommandBytes(script[1])
      BY <2>4, <2>6, <2>7
    <3> HIDE DEF ToCome, Whose, Locked, Shifting
    <3> QED BY <1>1, <2>1, <2>3, <2>5, <2>7, <3>1, <3>2, <3>3 DEF Midway, Bytes
  <2>9. todo = script /\ todo' = script
    BY <1>1, <1>2, <1>6, <2>8, TodoBothSides DEF TodoFacts
  <2>10. UNCHANGED <<done, sda>> /\ wire' # Quiet
    <3>1. UNCHANGED <<done, sda>>
      BY <1>1, <2>1
    <3>2. w.bytes # Quiet.bytes
      BY <2>4 DEF Quiet
    <3> QED BY <2>3, <3>1, <3>2
  <2> QED BY <1>1, <1>2, <2>8, <2>9, <2>10 DEF TransferInv, LinkMoves, Still
<1> QED BY <1>2, <1>5, <1>6

LEMMA TransferStep ==
  LinkInv /\ LinkInv' /\ TransferInv /\ [Next]_vars => TransferInv' /\ LinkMoves
<1> SUFFICES ASSUME LinkInv, LinkInv', TransferInv, [Next]_vars
             PROVE  TransferInv' /\ LinkMoves
  OBVIOUS
<1>1. CASE PortWake \/ PortReset \/ PortReady
  <2>1. /\ pc \in {"start", "woken", "reset"}
        /\ UNCHANGED <<script, calls, cur, waiting, chip>>
        /\ "RUN" \in ctl' => "RUN" \in ctl
    BY <1>1 DEF PortWake, PortReset, PortReady, Port
  <2>2. script = << >>
    BY <2>1 DEF LinkInv, LinkTypes
  <2> QED BY <2>1, <2>2, ElsewhereMoves
<1>2. CASE WrongChip \/ PortGates \/ UNCHANGED vars
  <2>1. /\ UNCHANGED <<script, calls, cur, waiting, chip>>
        /\ \A b \in {"LOCK_CS", "IGNORE_CRC", "RUN"} : b \in ctl' <=> b \in ctl
    BY <1>2 DEF WrongChip, PortGates, vars, program
  <2> QED BY <2>1, ElsewhereMoves
<1>3. CASE Callers \/ RightChip \/ RxFrame
  BY <1>3, CallersMove
<1>4. CASE NextCommand
  BY <1>4, NextCommandMoves
<1>5. CASE EnterTxRx
  BY <1>5, EnterMoves
<1>6. CASE WriteByte \/ ReadByte
  BY <1>6, ByteBegunMoves
<1>7. CASE ByteDone
  BY <1>7, ByteDoneMoves
<1>8. CASE Shift
  BY <1>8, ShiftMoves
<1> QED
  BY <1>1, <1>2, <1>3, <1>4, <1>5, <1>6, <1>7, <1>8 DEF Next, Driver, Hardware

\* The calls of spi_txrx carry the commands of the driver out one at a time, whole and
\* in order: the select is let go of with the last byte of a command and not before
\* (drv_spi.c 114-145).
THEOREM PortImplementsLink == Spec => CommandLinkSpec
<1>1. Init => TransferInv /\ Link!Init
  BY DEF Init, TransferInv, Shifting, Link!Init, HeadDone, LastShifted, Busy
<1>2. LinkMoves => [Link!Next]_(Link!vars)
  BY DEF LinkMoves, Issued, Delivered, Still, Told, todo, Link!Next, Link!Issue,
         Link!CarryOut, Link!vars
<1>3. LinkInv /\ LinkInv' /\ TransferInv /\ [Next]_vars
        => TransferInv' /\ [Link!Next]_(Link!vars)
  BY <1>2, TransferStep
<1> QED BY <1>1, <1>3, LinkInvariant, PTL DEF Spec, CommandLinkSpec, Link!Spec

-----------------------------------------------------------------------------
(***************************************************************************)
(* The window on the frame memory.  A sequence of commands is proper for a *)
(* window that is open or closed if the window can be followed through it: *)
(* a write to RXQCR opens or closes it, a frame is read or written while   *)
(* it is open, nothing but that and RXQCR is told meanwhile, and it is     *)
(* closed in the end.                                                      *)
(***************************************************************************)
OfFrame(c)     == c.op \in {"rxfifo", "txfifo"}
After(c, open) == IF c.reg = "RXQCR" THEN c.val = 1 ELSE open
Allowed(c, open) ==
  /\ OfFrame(c) => open = TRUE
  /\ open = TRUE => OfFrame(c) \/ c.reg = "RXQCR"

Follows(s, w) ==
  /\ w[Len(s) + 1] = FALSE
  /\ \A i \in 1 .. Len(s) : w[i + 1] = After(s[i], w[i]) /\ Allowed(s[i], w[i])
Proper(s, open) ==
  \E w \in [1 .. Len(s) + 1 -> BOOLEAN] : w[1] = open /\ Follows(s, w)

\* What follows the first command is proper for what that one leaves.
LEMMA ProperTail ==
  ASSUME NEW s \in Seq(CommandType), s # << >>, NEW open \in BOOLEAN, Proper(s, open)
  PROVE  /\ Allowed(Head(s), open)
         /\ After(Head(s), open) \in BOOLEAN
         /\ Proper(Tail(s), After(Head(s), open))
<1>1. PICK w \in [1 .. Len(s) + 1 -> BOOLEAN] : w[1] = open /\ Follows(s, w)
  BY DEF Proper
<1>2. PICK n \in Nat : n = Len(s) /\ n > 0
  OBVIOUS
<1>3. /\ Len(Tail(s)) = n - 1 /\ Head(s) = s[1]
      /\ \A i \in 1 .. n - 1 : Tail(s)[i] = s[i + 1]
  BY <1>2
<1>. DEFINE v == [i \in 1 .. n |-> w[i + 1]]
<1>4. v \in [1 .. n -> BOOLEAN]
  BY <1>1, <1>2
<1>5. v[1] = After(Head(s), open) /\ Allowed(Head(s), open)
  BY <1>1, <1>2, <1>3 DEF Follows
<1>6. v[n] = FALSE
  BY <1>1, <1>2 DEF Follows
<1>7. ASSUME NEW i \in 1 .. n - 1
      PROVE  v[i + 1] = After(Tail(s)[i], v[i]) /\ Allowed(Tail(s)[i], v[i])
  <2>1. i + 1 \in 1 .. n /\ i \in 1 .. n
    BY <1>2
  <2>2. v[i] = w[i + 1] /\ v[i + 1] = w[(i + 1) + 1]
    BY <2>1
  <2>. HIDE DEF v
  <2>. QED  BY <1>1, <1>2, <1>3, <2>1, <2>2 DEF Follows
<1>8. v[1] \in BOOLEAN
  BY <1>2, <1>4
<1>. HIDE DEF v
<1>9. Len(Tail(s)) + 1 = n
  BY <1>2, <1>3
<1>10. Follows(Tail(s), v)
  BY <1>3, <1>6, <1>7, <1>9 DEF Follows
<1>. QED  BY <1>4, <1>5, <1>8, <1>9, <1>10 DEF Proper

\* Every call of the driver begins and ends with the window closed.
LEMMA OrdinaryProper ==
  ASSUME NEW s \in Seq(Ordinary) PROVE Proper(s, FALSE)
<1>. DEFINE w == [i \in 1 .. Len(s) + 1 |-> FALSE]
<1>1. Len(s) \in Nat /\ w \in [1 .. Len(s) + 1 -> BOOLEAN]
  OBVIOUS
<1>2. \A c \in Ordinary : After(c, FALSE) = FALSE /\ Allowed(c, FALSE)
  BY DEF Ordinary, Plain, CommandType, Opening, After, Allowed, OfFrame
<1>3. \A i \in 1 .. Len(s) : s[i] \in Ordinary /\ i \in 1 .. Len(s) + 1 /\ i + 1 \in 1 .. Len(s) + 1
  BY <1>1
<1>4. w[1] = FALSE /\ w[Len(s) + 1] = FALSE
  BY <1>1
<1>5. \A i \in 1 .. Len(s) : w[i] = FALSE /\ w[i + 1] = FALSE
  BY <1>3
<1>. HIDE DEF w
<1>. QED  BY <1>1, <1>2, <1>3, <1>4, <1>5 DEF Proper, Follows

LEMMA FrameCommands ==
  /\ ~OfFrame(OpenFifo) /\ OpenFifo.reg = "RXQCR" /\ OpenFifo.val = 1
  /\ ~OfFrame(CloseFifo) /\ CloseFifo.reg = "RXQCR" /\ CloseFifo.val = 0
  /\ \A n, v : /\ OfFrame(FifoRead(n)) /\ FifoRead(n).reg = "none"
               /\ OfFrame(FifoWrite(n, v)) /\ FifoWrite(n, v).reg = "none"
  /\ ~OfFrame(Write16("RXFDPR")) /\ Write16("RXFDPR").reg = "RXFDPR"
BY DEF OfFrame, OpenFifo, CloseFifo, FifoRead, FifoWrite, Write16, Command

LEMMA TxProper == \A n, v : Proper(TxScript(n, v), FALSE)
<1>. TAKE n, v
<1>. DEFINE w == [i \in 1 .. 4 |-> IF i \in {2, 3} THEN TRUE ELSE FALSE]
            s == TxScript(n, v)
<1>1. /\ Len(s) = 3 /\ s[1] = OpenFifo /\ s[2] = FifoWrite(n, v) /\ s[3] = CloseFifo
  BY DEF TxScript
<1>2. /\ w \in [1 .. 4 -> BOOLEAN]
      /\ w[1] = FALSE /\ w[2] = TRUE /\ w[3] = TRUE /\ w[4] = FALSE
  OBVIOUS
<1>. HIDE DEF w, s
<1>3. \A i \in 1 .. 3 : w[i + 1] = After(s[i], w[i]) /\ Allowed(s[i], w[i])
  BY <1>1, <1>2, FrameCommands DEF After, Allowed
<1>4. Proper(s, FALSE)
  BY <1>1, <1>2, <1>3 DEF Proper, Follows
<1>. QED  BY <1>4 DEF s

LEMMA FrameProper ==
  ASSUME NEW len \in 0 .. REPORT_MAX
  PROVE  Proper(FrameScript(len), FALSE)
<1>0. PICK s : s = FrameScript(len)
  OBVIOUS
<1>1. CASE len = 0
  <2>. DEFINE w == [i \in 1 .. 4 |-> IF i = 3 THEN TRUE ELSE FALSE]
  <2>1. /\ Len(s) = 3 /\ s[1] = Write16("RXFDPR") /\ s[2] = OpenFifo /\ s[3] = CloseFifo
    BY <1>0, <1>1, FrameScripts
  <2>2. /\ w \in [1 .. 4 -> BOOLEAN]
        /\ w[1] = FALSE /\ w[2] = FALSE /\ w[3] = TRUE /\ w[4] = FALSE
    OBVIOUS
  <2>. HIDE DEF w
  <2>3. \A i \in 1 .. 3 : w[i + 1] = After(s[i], w[i]) /\ Allowed(s[i], w[i])
    BY <2>1, <2>2, FrameCommands DEF After, Allowed
  <2>4. Proper(s, FALSE)
    BY <2>1, <2>2, <2>3 DEF Proper, Follows
  <2>. QED  BY <1>0, <2>4
<1>2. CASE len > 0
  <2>. DEFINE w == [i \in 1 .. 5 |-> IF i \in {3, 4} THEN TRUE ELSE FALSE]
  <2>1. /\ Len(s) = 4 /\ s[1] = Write16("RXFDPR") /\ s[2] = OpenFifo
        /\ s[3] = FifoRead(RxLength(len)) /\ s[4] = CloseFifo
    BY <1>0, <1>2, FrameScripts
  <2>2. /\ w \in [1 .. 5 -> BOOLEAN]
        /\ w[1] = FALSE /\ w[2] = FALSE /\ w[3] = TRUE /\ w[4] = TRUE /\ w[5] = FALSE
    OBVIOUS
  <2>. HIDE DEF w
  <2>3. \A i \in 1 .. 4 : w[i + 1] = After(s[i], w[i]) /\ Allowed(s[i], w[i])
    BY <2>1, <2>2, FrameCommands DEF After, Allowed
  <2>4. Proper(s, FALSE)
    BY <2>1, <2>2, <2>3 DEF Proper, Follows
  <2>. QED  BY <1>0, <2>4
<1>3. len = 0 \/ len > 0
  BY LengthAssumption
<1>. QED  BY <1>1, <1>2, <1>3

LEMMA ToldProper == \A s \in Told : Proper(s, FALSE)
<1>1. \A s \in {HaltScript, ProbeScript, MacScript, SetupScript, CountScript,
                <<Read32("RXFHSR")>>} : Proper(s, FALSE)
  BY PlainScripts, OrdinaryProper
<1>2. \A n \in 0 .. REPORT_MAX : Proper(FrameScript(n), FALSE)
  BY FrameProper
<1>3. ASSUME NEW s \in Told PROVE Proper(s, FALSE)
  <2>1. \/ s \in {HaltScript, ProbeScript, MacScript, SetupScript, CountScript,
                <<Read32("RXFHSR")>>}
        \/ \E n \in 0 .. REPORT_MAX : s = FrameScript(n)
        \/ \E n \in 1 .. TX_MAX, v \in 0 .. FIDS - 1 : s = TxScript(n, v)
    BY DEF Told, CallScripts
  <2>2. CASE \E n \in 0 .. REPORT_MAX : s = FrameScript(n)
    <3>1. PICK n \in 0 .. REPORT_MAX : s = FrameScript(n)
      BY <2>2
    <3>2. Proper(FrameScript(n), FALSE)
      BY <1>2
    <3>. QED  BY <3>1, <3>2
  <2>3. CASE \E n \in 1 .. TX_MAX, v \in 0 .. FIDS - 1 : s = TxScript(n, v)
    <3>1. PICK n, v : s = TxScript(n, v)
      BY <2>3
    <3>2. Proper(TxScript(n, v), FALSE)
      BY TxProper
    <3>. QED  BY <3>1, <3>2
  <2>. QED  BY <1>1, <2>1, <2>2, <2>3
<1>. QED  BY <1>3

WindowInv == sda \in BOOLEAN /\ Proper(todo, sda)

LEMMA TodoTyped == LinkInv => todo \in Seq(CommandType)
BY DEF LinkInv, LinkTypes, todo, HeadDone, LastShifted, Busy

\* The window is where the commands that are left expect it.
LEMMA WindowStep ==
  ASSUME LinkInv, WindowInv, LinkMoves
  PROVE  /\ WindowInv'
         /\ (wire # Quiet /\ wire' = Quiet) => Allowed(done'.cmd, sda)
<1>1. CASE Issued
  <2>1. PICK w \in [1 .. Len(todo) + 1 -> BOOLEAN] : w[1] = sda /\ w[Len(todo) + 1] = FALSE
    BY DEF WindowInv, Proper, Follows
  <2>2. Len(todo) = 0
    BY <1>1 DEF Issued
  <2>3. sda = FALSE
    BY <2>1, <2>2
  <2>4. Proper(todo', FALSE)
    BY <1>1, ToldProper DEF Issued
  <2>5. PICK s : s = todo'
    OBVIOUS
  <2>6. Proper(s, FALSE)
    BY <2>4, <2>5
  <2>. QED  BY <1>1, <2>3, <2>5, <2>6 DEF Issued, WindowInv, Proper, Follows
<1>2. CASE Delivered
  <2>1. /\ Allowed(Head(todo), sda) /\ After(Head(todo), sda) \in BOOLEAN
        /\ Proper(Tail(todo), After(Head(todo), sda))
    BY <1>2, TodoTyped, ProperTail DEF Delivered, WindowInv
  <2>2. sda' = After(Head(todo), sda) /\ todo' = Tail(todo) /\ done'.cmd = Head(todo)
    BY <1>2 DEF Delivered, After
  <2>. QED  BY <2>1, <2>2 DEF WindowInv, Proper, Follows
<1>3. CASE Still
  BY <1>3 DEF Still, WindowInv, Proper, Follows
<1>. QED  BY <1>1, <1>2, <1>3 DEF LinkMoves

\* The frame memory of the chip is read and written only through the window that the
\* call itself has opened, nothing else is told meanwhile, and no call leaves the
\* window open, for every length and byte by byte (drv_ks8851.c 206-225, 261-266).
THEOREM FifoWindowKeptEver == Spec => FifoWindowKept
<1>1. Init => TransferInv /\ WindowInv
  <2>. SUFFICES ASSUME Init PROVE TransferInv /\ WindowInv
    OBVIOUS
  <2>1. TransferInv
    BY DEF Init, TransferInv, Shifting
  <2>2. todo = << >> /\ sda = FALSE
    BY DEF Init, todo, HeadDone, LastShifted, Busy
  <2>3. Proper(<< >>, FALSE)
    <3>1. << >> \in Seq(Ordinary)
      OBVIOUS
    <3>. QED  BY <3>1, OrdinaryProper
  <2>. QED  BY <2>1, <2>2, <2>3 DEF WindowInv
<1>2. LinkInv /\ LinkInv' /\ TransferInv /\ WindowInv /\ [Next]_vars
        => /\ TransferInv' /\ WindowInv'
           /\ (wire # Quiet /\ wire' = Quiet) => Allowed(done'.cmd, sda)
  BY TransferStep, WindowStep
<1>3. LinkInv /\ WindowInv => (pc # "header" /\ ~Busy => ~sda)
  <2>. SUFFICES ASSUME LinkInv, WindowInv, ~Busy PROVE ~sda
    OBVIOUS
  <2>1. todo = << >>
    BY TodoAt DEF LinkInv, TodoFacts, Busy
  <2>2. PICK w \in [1 .. Len(todo) + 1 -> BOOLEAN] : w[1] = sda /\ w[Len(todo) + 1] = FALSE
    BY DEF WindowInv, Proper, Follows
  <2>3. Len(todo) = 0
    BY <2>1
  <2>. QED  BY <2>2, <2>3
<1>4. (wire # Quiet /\ wire' = Quiet => Allowed(done'.cmd, sda)) /\ sda \in BOOLEAN
        => [wire # Quiet /\ wire' = Quiet =>
              IF done'.cmd.op \in {"rxfifo", "txfifo"} THEN sda
              ELSE sda => done'.cmd.reg = "RXQCR"]_vars
  BY DEF Allowed, OfFrame
<1>5. WindowInv => sda \in BOOLEAN
  BY DEF WindowInv
<1>. QED  BY <1>1, <1>2, <1>3, <1>4, <1>5, LinkInvariant, PTL DEF Spec, FifoWindowKept

\* The types of the port and the chip, and the places of the program.
PortTypes ==
  /\ pc \in {"start", "woken", "reset", "cold", "chip", "probed", "up", "header", "failed",
            "stopped"}
  /\ ctl \subseteq {"SFTRST", "CLKGATE", "LOCK_CS", "IGNORE_CRC", "READ", "RUN"}
  /\ fifo \in BOOLEAN /\ sda \in BOOLEAN

LEMMA PortTypesKept == PortTypes /\ [Next]_vars => PortTypes'
<1> SUFFICES ASSUME PortTypes, [Next]_vars PROVE PortTypes'
  OBVIOUS
<1>1. CASE Callers \/ RightChip \/ RxFrame
  BY <1>1
     DEF Callers, RightChip, RxFrame, ks8851_halt, ks8851_init, ks8851_mac_set, ks8851_rxfc_get,
         ks8851_rx, ks8851_tx, Run, Begin, PortTypes, chip
<1>2. CASE PortWake \/ PortReset \/ PortReady
  BY <1>2 DEF PortWake, PortReset, PortReady, Port, PortTypes, chip
<1>3. CASE WrongChip \/ NextCommand
  BY <1>3 DEF WrongChip, NextCommand, PortTypes, chip
<1>4. CASE EnterTxRx
  BY <1>4 DEF EnterTxRx, Lock, PortTypes, program, chip
<1>5. CASE WriteByte \/ ReadByte
  BY <1>5 DEF WriteByte, ReadByte, Select, Unlock, ReadMode, PortTypes, program, chip
<1>6. CASE ByteDone
  BY <1>6 DEF ByteDone, PortTypes, program, chip
<1>7. CASE PortGates
  BY <1>7 DEF PortGates, PortTypes, program, chip
<1>8. CASE Shift
  <2>1. sda' \in BOOLEAN
    BY <1>8 DEF Shift, PortTypes
  <2> QED BY <1>8, <2>1 DEF Shift, PortTypes, program
<1>9. CASE UNCHANGED vars
  BY <1>9 DEF vars, PortTypes, program, chip
<1> QED
  BY <1>1, <1>2, <1>3, <1>4, <1>5, <1>6, <1>7, <1>8, <1>9 DEF Next, Driver, Hardware

\* Every register bit and local of driver and port has its type, and nothing of a call
\* of spi_txrx outlives the call of the driver it belongs to (drv_spi.c 114-145).
THEOREM LinkTypesEver == Spec => []TypeOK
<1>1. Init => PortTypes
  BY DEF Init, PortTypes
<1>2. LinkInv /\ PortTypes => TypeOK
  BY BytesTyped DEF LinkInv, LinkTypes, PortTypes, TypeOK, Busy
<1> QED BY <1>1, <1>2, PortTypesKept, LinkInvariant, PTL DEF Spec

=============================================================================
