----------------------------- MODULE NetProofs ------------------------------
(***************************************************************************)
(* Proofs about the network stack.  NetRx, for every number of packets, of *)
(* slots and of reserved packets, and any length of the chip's queue: who  *)
(* owns a packet, which packets are lost, and when the machine may halt.   *)
(* ArpWait: how far apart the requests of a ping are.                      *)
(***************************************************************************)
EXTENDS NetRx, ArpWait, FiniteSetTheorems, SequenceTheorems, TLAPS

-----------------------------------------------------------------------------
\* The packet heap, for every NET_PKT_COUNT.  The invariants of EthHeap are
\* inductive together: where a free links its packet is right only because the last
\* packet of the list is not in use, which is what FreeListSpellsQueue says of the
\* whole list.
HeapInv == /\ HeapTypeOK
           /\ FreeListSpellsQueue
           /\ NoFreePacketLost
           /\ BalanceCountsHeld

-----------------------------------------------------------------------------
LEMMA ItemsFinite == IsFiniteSet(Items)
BY PktCountAssumption, FS_Interval DEF Items

\* The set of packets in use is finite.
LEMMA HeldFinite == IsFiniteSet(held)
BY ItemsFinite, FS_Subset DEF held

\* The queue of a new heap holds every packet once.
LEMMA InitialQueue ==
  HeapInit => fifo \in Seq(Items) /\ Len(fifo) = NET_PKT_COUNT /\ fifo # << >>
<1> SUFFICES ASSUME HeapInit
             PROVE  fifo \in Seq(Items) /\ Len(fifo) = NET_PKT_COUNT /\ fifo # << >>
  OBVIOUS
<1>1. fifo \in [1 .. NET_PKT_COUNT -> Items]
  BY PktCountAssumption DEF HeapInit, Items
<1>2. fifo \in Seq(Items)
  BY <1>1, PktCountAssumption, SeqDef
<1>3. 1 .. Len(fifo) = 1 .. NET_PKT_COUNT /\ Len(fifo) \in Nat
  BY <1>1, <1>2, LenProperties
<1>4. Len(fifo) = NET_PKT_COUNT
  BY <1>3, PktCountAssumption
<1> QED BY <1>2, <1>4, PktCountAssumption, EmptySeq

LEMMA InitHolds == HeapInit => HeapInv
<1> SUFFICES ASSUME HeapInit PROVE HeapInv
  OBVIOUS
<1> USE PktCountAssumption DEF HeapInit, InitialLink, Items, NULL, SUCCESS, FAILURE
<1>1. fifo \in Seq(Items) /\ Len(fifo) = NET_PKT_COUNT /\ fifo # << >>
  BY InitialQueue
<1>2. HeapTypeOK
  BY <1>1 DEF HeapTypeOK
<1>3. FreeListSpellsQueue
  <2>1. \A i \in 1 .. Len(fifo) : fifo[i] = i - 1 /\ fifo[i] \in Items
    BY <1>1
  <2>2. next_alloc_item = IF fifo = << >> THEN NULL ELSE fifo[1]
    BY <1>1, <2>1
  <2>3. next_free_item = fifo[Len(fifo)] /\ next[next_free_item] = NULL
    BY <1>1, <2>1
  <2>4. \A i \in 1 .. Len(fifo) - 1 : next[fifo[i]] = fifo[i + 1]
    BY <1>1, <2>1
  <2>5. \A i, j \in 1 .. Len(fifo) : fifo[i] = fifo[j] => i = j
    BY <1>1, <2>1
  <2> QED BY <2>1, <2>2, <2>3, <2>4, <2>5 DEF FreeListSpellsQueue
<1>4. NoFreePacketLost
  <2> SUFFICES ASSUME NEW p \in Items PROVE \E i \in 1 .. Len(fifo) : fifo[i] = p
    BY DEF NoFreePacketLost
  <2>1. p + 1 \in 1 .. Len(fifo) /\ fifo[p + 1] = p
    BY <1>1
  <2> QED BY <2>1
<1>5. BalanceCountsHeld
  <2>1. held = {}
    BY DEF held
  <2> QED BY <2>1, FS_EmptySet DEF BalanceCountsHeld
<1> QED BY <1>2, <1>3, <1>4, <1>5 DEF HeapInv

-----------------------------------------------------------------------------
\* An allocation takes the packet the queue has first, which nobody holds.
LEMMA AllocTakesFirst ==
  ASSUME HeapInv, HeapAlloc
  PROVE  /\ fifo # << >>
         /\ next_alloc_item = Head(fifo)
         /\ next_alloc_item \in Items
         /\ status[next_alloc_item] = 0
<1>1. fifo \in Seq(Items)
  BY DEF HeapInv, HeapTypeOK
<1>2. fifo # << >>
  BY DEF HeapInv, FreeListSpellsQueue, HeapAlloc
<1>3. 1 \in 1 .. Len(fifo) /\ Head(fifo) = fifo[1] /\ fifo[1] \in Items
  BY <1>1, <1>2
<1> QED BY <1>2, <1>3 DEF HeapInv, FreeListSpellsQueue

\* A packet that is in use is not on the list.
LEMMA HeldNotOnList ==
  ASSUME HeapInv, NEW p \in Items, status[p] # 0
  PROVE  \A i \in 1 .. Len(fifo) : fifo[i] # p
BY DEF HeapInv, FreeListSpellsQueue

-----------------------------------------------------------------------------
LEMMA AllocPreserves == HeapInv /\ HeapAlloc => HeapInv'
<1> SUFFICES ASSUME HeapInv, HeapAlloc PROVE HeapInv'
  OBVIOUS
<1> DEFINE p == next_alloc_item
<1>1. /\ fifo # << >>
      /\ p = fifo[1]
      /\ p \in Items
      /\ status[p] = 0
      /\ p # NULL
  <2>1. Head(fifo) = fifo[1]
    BY AllocTakesFirst DEF HeapInv, HeapTypeOK
  <2> QED BY <2>1, AllocTakesFirst DEF HeapAlloc
<1>2. /\ fifo \in Seq(Items)
      /\ fifo' \in Seq(Items)
      /\ Len(fifo') = Len(fifo) - 1
      /\ Len(fifo) \in Nat \ {0}
      /\ \A i \in 1 .. Len(fifo') : i + 1 \in 1 .. Len(fifo) /\ fifo'[i] = fifo[i + 1]
  BY <1>1 DEF HeapInv, HeapTypeOK, HeapAlloc
<1>3. HeapTypeOK'
  BY <1>1, <1>2 DEF HeapInv, HeapTypeOK, HeapAlloc, MarkUsed
<1>4. \A i \in 1 .. Len(fifo') : fifo'[i] # p
  BY <1>1, <1>2 DEF HeapInv, FreeListSpellsQueue
<1>5. FreeListSpellsQueue'
  <2>1. next_alloc_item' = IF fifo' = << >> THEN NULL ELSE fifo'[1]
    <3>1. CASE fifo' = << >>
      <4>1. Len(fifo) = 1
        BY <3>1, <1>2
      <4>2. p = next_free_item /\ next[p] = NULL
        BY <4>1, <1>1 DEF HeapInv, FreeListSpellsQueue
      <4> QED BY <3>1, <4>2 DEF HeapAlloc
    <3>2. CASE fifo' # << >>
      <4>1. 1 \in 1 .. Len(fifo') /\ 1 \in 1 .. Len(fifo) - 1
        BY <3>2, <1>2
      <4>2. next[fifo[1]] = fifo[2] /\ fifo'[1] = fifo[2]
        BY <4>1, <1>2 DEF HeapInv, FreeListSpellsQueue
      <4> QED BY <3>2, <4>2, <1>1 DEF HeapAlloc
    <3> QED BY <3>1, <3>2
  <2>2. fifo' # << >> => /\ next_free_item' = fifo'[Len(fifo')]
                         /\ (next[next_free_item])' = NULL
    <3> SUFFICES ASSUME fifo' # << >>
                 PROVE  /\ next_free_item' = fifo'[Len(fifo')]
                        /\ (next[next_free_item])' = NULL
      OBVIOUS
    <3>1. Len(fifo') \in 1 .. Len(fifo')
      BY <1>2
    <3>2. fifo'[Len(fifo')] = fifo[Len(fifo)]
      BY <3>1, <1>2
    <3> QED BY <3>2, <1>1 DEF HeapInv, FreeListSpellsQueue, HeapAlloc
  <2>3. \A i \in 1 .. Len(fifo') - 1 : next'[fifo'[i]] = fifo'[i + 1]
    <3> SUFFICES ASSUME NEW i \in 1 .. Len(fifo') - 1
                 PROVE  next'[fifo'[i]] = fifo'[i + 1]
      OBVIOUS
    <3>1. i + 1 \in 1 .. Len(fifo) - 1 /\ i \in 1 .. Len(fifo') /\ i + 1 \in 1 .. Len(fifo')
      BY <1>2
    <3>2. next[fifo[i + 1]] = fifo[i + 1 + 1]
      BY <3>1 DEF HeapInv, FreeListSpellsQueue
    <3>3. fifo'[i] = fifo[i + 1] /\ fifo'[i + 1] = fifo[i + 1 + 1]
      BY <3>1, <1>2
    <3> QED BY <3>2, <3>3 DEF HeapAlloc
  <2>4. \A i, j \in 1 .. Len(fifo') : fifo'[i] = fifo'[j] => i = j
    <3> SUFFICES ASSUME NEW i \in 1 .. Len(fifo'), NEW j \in 1 .. Len(fifo'),
                        fifo'[i] = fifo'[j]
                 PROVE  i = j
      OBVIOUS
    <3>1. i + 1 \in 1 .. Len(fifo) /\ j + 1 \in 1 .. Len(fifo) /\ fifo[i + 1] = fifo[j + 1]
      BY <1>2
    <3>2. i + 1 = j + 1
      BY <3>1 DEF HeapInv, FreeListSpellsQueue
    <3> QED BY <3>2
  <2>5. \A i \in 1 .. Len(fifo') : status'[fifo'[i]] = 0
    <3> SUFFICES ASSUME NEW i \in 1 .. Len(fifo') PROVE status'[fifo'[i]] = 0
      OBVIOUS
    <3>1. i + 1 \in 1 .. Len(fifo) /\ fifo'[i] = fifo[i + 1]
      BY <1>2
    <3>2. status[fifo'[i]] = 0 /\ fifo'[i] # p
      BY <3>1, <1>4 DEF HeapInv, FreeListSpellsQueue
    <3> QED BY <3>2 DEF HeapAlloc, MarkUsed, HeapInv, HeapTypeOK
  <2> QED BY <2>1, <2>2, <2>3, <2>4, <2>5 DEF FreeListSpellsQueue
<1>6. NoFreePacketLost'
  <2> SUFFICES ASSUME NEW q \in Items, status'[q] = 0
               PROVE  \E i \in 1 .. Len(fifo') : fifo'[i] = q
    BY DEF NoFreePacketLost
  <2>1. q # p /\ status[q] = 0
    BY <1>1 DEF HeapAlloc, MarkUsed, HeapInv, HeapTypeOK
  <2>2. PICK i \in 1 .. Len(fifo) : fifo[i] = q
    BY <2>1, <1>1 DEF HeapInv, NoFreePacketLost
  <2>3. i # 1 /\ i - 1 \in 1 .. Len(fifo')
    BY <2>1, <2>2, <1>1, <1>2
  <2>4. fifo'[i - 1] = fifo[(i - 1) + 1] /\ (i - 1) + 1 = i
    BY <2>3, <1>2
  <2> QED BY <2>2, <2>3, <2>4
<1>7. BalanceCountsHeld'
  <2>1. held' = held \cup {p} /\ p \notin held
    BY <1>1 DEF held, HeapAlloc, MarkUsed, HeapInv, HeapTypeOK
  <2>2. Cardinality(held') = Cardinality(held) + 1
    BY <2>1, HeldFinite, FS_AddElement
  <2> QED BY <2>2 DEF BalanceCountsHeld, HeapAlloc, HeapInv
<1> QED BY <1>3, <1>5, <1>6, <1>7 DEF HeapInv

-----------------------------------------------------------------------------
LEMMA FreePreserves == ASSUME NEW p \in Items PROVE HeapInv /\ HeapFree(p) => HeapInv'
<1> SUFFICES ASSUME HeapInv, HeapFree(p) PROVE HeapInv'
  OBVIOUS
<1>1. status[p] = 1 /\ fifo \in Seq(Items) /\ Len(fifo) \in Nat
  BY DEF HeapInv, HeapTypeOK, HeapFree, InUse
<1>2. HeapTypeOK'
  BY <1>1 DEF HeapInv, HeapTypeOK, HeapFree, InUse, LinkFreed
<1>3. BalanceCountsHeld'
  <2>1. held' = held \ {p} /\ p \in held
    BY <1>1 DEF held, HeapFree, HeapInv, HeapTypeOK
  <2>2. Cardinality(held') = Cardinality(held) - 1
    BY <2>1, HeldFinite, FS_RemoveElement
  <2> QED BY <2>2 DEF BalanceCountsHeld, HeapFree, HeapInv
<1>4. CASE fifo = << >>
  <2>1. fifo' = << >> /\ next_alloc_item' = NULL
    BY <1>4 DEF HeapFree, HeapInv, FreeListSpellsQueue
  <2>2. FreeListSpellsQueue'
    BY <2>1 DEF FreeListSpellsQueue
  <2>3. NoFreePacketLost'
    BY <2>1 DEF NoFreePacketLost
  <2> QED BY <1>2, <1>3, <2>2, <2>3 DEF HeapInv
<1>5. CASE fifo # << >>
  <2> DEFINE n == Len(fifo)
  <2>1. /\ n \in Nat \ {0}
        /\ fifo' = Append(fifo, p)
        /\ Len(fifo') = n + 1
        /\ \A i \in 1 .. n : fifo'[i] = fifo[i]
        /\ fifo'[n + 1] = p
    BY <1>1, <1>5 DEF HeapFree
  <2>2. next_free_item = fifo[n] /\ n \in 1 .. n /\ next_free_item \in Items
    BY <1>1, <1>5, <2>1 DEF HeapInv, FreeListSpellsQueue, HeapTypeOK
  <2>3. \A i \in 1 .. n : fifo[i] # p
    BY HeldNotOnList, <1>1
  <2>4. next_free_item # p
    BY <2>2, <2>3
  <2>5. /\ next'[p] = NULL
        /\ next'[next_free_item] = p
        /\ \A q \in Items \ {p, next_free_item} : next'[q] = next[q]
    BY <2>2, <2>4 DEF HeapFree, InUse, LinkFreed, HeapInv, HeapTypeOK
  <2>6. FreeListSpellsQueue'
    <3>1. next_alloc_item' = IF fifo' = << >> THEN NULL ELSE fifo'[1]
      <4>1. fifo' # << >> /\ fifo'[1] = fifo[1]
        BY <2>1
      <4> QED BY <4>1, <1>5 DEF HeapFree, HeapInv, FreeListSpellsQueue
    <3>2. next_free_item' = fifo'[Len(fifo')] /\ (next[next_free_item])' = NULL
      BY <2>1, <2>5 DEF HeapFree
    <3>3. \A i \in 1 .. Len(fifo') - 1 : next'[fifo'[i]] = fifo'[i + 1]
      <4> SUFFICES ASSUME NEW i \in 1 .. n PROVE next'[fifo'[i]] = fifo'[i + 1]
        BY <2>1
      <4>1. CASE i = n
        BY <4>1, <2>1, <2>2, <2>5
      <4>2. CASE i # n
        <5>1. i \in 1 .. n - 1 /\ i + 1 \in 1 .. n
          BY <4>2, <2>1
        <5>2. next[fifo[i]] = fifo[i + 1]
          BY <5>1 DEF HeapInv, FreeListSpellsQueue
        <5>3. fifo[i] # fifo[n]
          BY <4>2, <2>2 DEF HeapInv, FreeListSpellsQueue
        <5>4. fifo[i] \in Items \ {p, next_free_item}
          BY <5>3, <2>2, <2>3, <1>1
        <5> QED BY <5>1, <5>2, <5>4, <2>1, <2>5
      <4> QED BY <4>1, <4>2
    <3>4. \A i, j \in 1 .. Len(fifo') : fifo'[i] = fifo'[j] => i = j
      <4> SUFFICES ASSUME NEW i \in 1 .. n + 1, NEW j \in 1 .. n + 1, fifo'[i] = fifo'[j]
                   PROVE  i = j
        BY <2>1
      <4>1. CASE i \in 1 .. n /\ j \in 1 .. n
        <5>1. fifo[i] = fifo[j]
          BY <4>1, <2>1
        <5> QED BY <4>1, <5>1 DEF HeapInv, FreeListSpellsQueue
      <4>2. CASE i = n + 1 \/ j = n + 1
        BY <4>2, <2>1, <2>3
      <4> QED BY <4>1, <4>2, <2>1
    <3>5. \A i \in 1 .. Len(fifo') : status'[fifo'[i]] = 0
      <4> SUFFICES ASSUME NEW i \in 1 .. n + 1 PROVE status'[fifo'[i]] = 0
        BY <2>1
      <4>1. CASE i = n + 1
        BY <4>1, <2>1 DEF HeapFree, HeapInv, HeapTypeOK
      <4>2. CASE i \in 1 .. n
        <5>1. status[fifo[i]] = 0 /\ fifo[i] # p /\ fifo[i] \in Items
          BY <4>2, <2>3, <1>1 DEF HeapInv, FreeListSpellsQueue
        <5> QED BY <4>2, <5>1, <2>1 DEF HeapFree, HeapInv, HeapTypeOK
      <4> QED BY <4>1, <4>2, <2>1
    <3> QED BY <3>1, <3>2, <3>3, <3>4, <3>5 DEF FreeListSpellsQueue
  <2>7. NoFreePacketLost'
    <3> SUFFICES ASSUME NEW q \in Items, status'[q] = 0
                 PROVE  \E i \in 1 .. Len(fifo') : fifo'[i] = q
      BY DEF NoFreePacketLost
    <3>1. CASE q = p
      <4>1. n + 1 \in 1 .. Len(fifo')
        BY <2>1
      <4> QED BY <3>1, <4>1, <2>1
    <3>2. CASE q # p
      <4>1. status[q] = 0
        BY <3>2 DEF HeapFree, HeapInv, HeapTypeOK
      <4>2. next_alloc_item # NULL
        <5>1. 1 \in 1 .. n /\ fifo[1] \in Items
          BY <2>1, <1>1
        <5> QED BY <5>1, <1>5 DEF HeapInv, FreeListSpellsQueue, Items, NULL
      <4>3. PICK i \in 1 .. n : fifo[i] = q
        BY <4>1, <4>2 DEF HeapInv, NoFreePacketLost
      <4>4. i \in 1 .. Len(fifo') /\ fifo'[i] = q
        BY <4>3, <2>1
      <4> QED BY <4>4
    <3> QED BY <3>1, <3>2
  <2> QED BY <1>2, <1>3, <2>6, <2>7 DEF HeapInv
<1> QED BY <1>4, <1>5

\* A call that is refused, and a stuttering step, touch none of the list.
LEMMA RefusedPreserves ==
  ASSUME HeapInv, UNCHANGED <<links, fifo>>,
         result' \in Items \cup {NULL, FAILURE, SUCCESS}
  PROVE  HeapInv'
BY DEF HeapInv, HeapTypeOK, FreeListSpellsQueue, NoFreePacketLost,
       BalanceCountsHeld, held, links

LEMMA NextPreserves == HeapInv /\ [Next]_heapVars => HeapInv'
<1> SUFFICES ASSUME HeapInv, [Next]_heapVars PROVE HeapInv'
  OBVIOUS
<1>1. CASE HeapAlloc
  BY <1>1, AllocPreserves
<1>2. CASE HeapAllocNone
  BY <1>2, RefusedPreserves DEF HeapAllocNone
<1>3. ASSUME NEW p \in Items, HeapFree(p) PROVE HeapInv'
  BY <1>3, FreePreserves
<1>4. ASSUME NEW p \in Items \cup {NULL}, HeapFreeRefused(p) PROVE HeapInv'
  BY <1>4, RefusedPreserves DEF HeapFreeRefused
<1>5. CASE UNCHANGED heapVars
  BY <1>5, RefusedPreserves DEF heapVars, HeapInv, HeapTypeOK
<1> QED BY <1>1, <1>2, <1>3, <1>4, <1>5 DEF Next

-----------------------------------------------------------------------------
\* The list of free packets is sound in every reachable state, for a heap of
\* any size and any order of allocations, frees and double frees.
THEOREM HeapInvariant == Spec => []HeapInv
BY InitHolds, NextPreserves, PTL DEF Spec, Init

\* The pointers spell out the queue of the free packets.
THEOREM FreeListCorrect == Spec => []FreeListSpellsQueue
<1>1. HeapInv => FreeListSpellsQueue
  BY DEF HeapInv
<1> QED BY <1>1, HeapInvariant, PTL

\* No free packet is lost while the list has a head.
THEOREM NoFreePacketLostEver == Spec => []NoFreePacketLost
<1>1. HeapInv => NoFreePacketLost
  BY DEF HeapInv
<1> QED BY <1>1, HeapInvariant, PTL

\* stats_balance counts the packets in use.
THEOREM BalanceCorrect == Spec => []BalanceCountsHeld
<1>1. HeapInv => BalanceCountsHeld
  BY DEF HeapInv
<1> QED BY <1>1, HeapInvariant, PTL

\* No packet is handed out to a second caller.
THEOREM HandedOutOnce == Spec => NeverHandedOutTwice
<1>1. HeapInv /\ [Next]_heapVars => [HeapAlloc => status[next_alloc_item] = 0]_heapVars
  BY AllocTakesFirst
<1> QED BY <1>1, HeapInvariant, PTL DEF Spec, NeverHandedOutTwice

\* The linked list implements the abstract packet pool.
THEOREM ImplementsPool == Spec => PoolSpec
<1>1. Init => Pool!Init
  <2> SUFFICES ASSUME Init PROVE Pool!Init
    OBVIOUS
  <2>1. fifo \in Seq(Items) /\ fifo # << >>
    BY InitialQueue DEF Init
  <2>2. held = {} /\ result = SUCCESS
    BY DEF Init, HeapInit, held
  <2> QED BY <2>1, <2>2 DEF Pool!Init
<1>2. HeapInv /\ [Next]_heapVars => [Pool!Next]_(Pool!vars)
  <2> SUFFICES ASSUME HeapInv, [Next]_heapVars PROVE [Pool!Next]_(Pool!vars)
    OBVIOUS
  <2>1. CASE HeapAlloc
    <3>1. held' = held \cup {next_alloc_item}
      BY <2>1, AllocTakesFirst DEF HeapAlloc, MarkUsed, held, HeapInv, HeapTypeOK
    <3>2. Pool!Alloc
      BY <2>1, <3>1, AllocTakesFirst DEF HeapAlloc, Pool!Alloc
    <3> QED BY <3>2 DEF Pool!Next
  <2>2. CASE HeapAllocNone
    <3>1. fifo = << >>
      <4> SUFFICES ASSUME fifo # << >> PROVE FALSE
        OBVIOUS
      <4>1. fifo[1] \in Items
        BY DEF HeapInv, HeapTypeOK
      <4> QED BY <2>2, <4>1 DEF HeapInv, FreeListSpellsQueue, HeapAllocNone, Items, NULL
    <3>2. Pool!AllocNone
      BY <2>2, <3>1 DEF HeapAllocNone, Pool!AllocNone, links, held
    <3> QED BY <3>2 DEF Pool!Next
  <2>3. ASSUME NEW p \in Items, HeapFree(p) PROVE Pool!Next
    <3>1. p \in held /\ held' = held \ {p}
      BY <2>3 DEF HeapFree, InUse, held, HeapInv, HeapTypeOK
    <3>2. Pool!Free(p)
      BY <2>3, <3>1 DEF HeapFree, Pool!Free
    <3> QED BY <3>2 DEF Pool!Next
  <2>4. ASSUME NEW p \in Items \cup {NULL}, HeapFreeRefused(p) PROVE Pool!Next
    BY <2>4 DEF HeapFreeRefused, Pool!FreeRefused, Pool!Next, links, held
  <2>5. CASE UNCHANGED heapVars
    BY <2>5 DEF heapVars, links, held, Pool!vars
  <2> QED BY <2>1, <2>2, <2>3, <2>4, <2>5 DEF Next
<1> QED BY <1>1, <1>2, HeapInvariant, PTL DEF Spec, PoolSpec, Pool!Spec

-----------------------------------------------------------------------------
\* The arithmetic of the ring: g is its get index, p its put index.
Used(g, p) == IF p >= g THEN p - g ELSE p - g + ETH_RX_POOL_SIZE
Following(i) == IF i + 1 >= ETH_RX_POOL_SIZE THEN 0 ELSE i + 1

\* The packets between the indices lie in different slots, none of them in that of
\* the put index, which is the one behind them.
LEMMA SlotsOfRing ==
  ASSUME NEW g \in Slots, NEW p \in Slots
  PROVE  /\ Used(g, p) \in 0 .. ETH_RX_POOL_SIZE - 1
         /\ \A k \in 1 .. Used(g, p) : Around(g + k - 1) \in Slots \ {p}
         /\ Around(g + (Used(g, p) + 1) - 1) = p
         /\ \A j, k \in 1 .. ETH_RX_POOL_SIZE :
              Around(g + j - 1) = Around(g + k - 1) => j = k
BY RxSizeAssumption DEF Used, Around, Slots

\* A put into a ring that is not full makes it longer by one.
LEMMA PutGrows ==
  ASSUME NEW g \in Slots, NEW p \in Slots, Following(p) # g
  PROVE  Following(p) \in Slots /\ Used(g, Following(p)) = Used(g, p) + 1
BY RxSizeAssumption DEF Used, Following, Slots

\* A get from a ring that is not empty makes it shorter by its first packet.
LEMMA GetShrinks ==
  ASSUME NEW g \in Slots, NEW p \in Slots, p # g
  PROVE  /\ Following(g) \in Slots /\ Used(g, p) > 0
         /\ Used(Following(g), p) = Used(g, p) - 1
         /\ Around(g + 1 - 1) = g
         /\ \A k \in 1 .. Used(g, p) - 1 :
              Around(Following(g) + k - 1) = Around(g + (k + 1) - 1)
BY RxSizeAssumption DEF Used, Following, Around, Slots

-----------------------------------------------------------------------------
\* Every packet in use has exactly one owner, and what the owners hold adds up.
Places == {"test_alloc", "test_free", "open", "reserve", "reserve_failed"}

Handling ==
  /\ pc \in {"test_free", "read"} => result \in Items
  /\ pc = "read" => rxfc > 0
  /\ pc \in Places => rx_pool_get = 0 /\ rx_pool_put = 0

\* The list has been emptied only if empty frames have taken its packets.
DrainedByEmptyFrames ==
  fifo = << >> => Cardinality(skipped) >= NET_PKT_COUNT - RESERVED - ETH_RX_POOL_SIZE

RxInv ==
  /\ HeapInv /\ RxTypeOK
  /\ RingOwnsItsPackets /\ NoPacketLeaked
  /\ Handling
  /\ FrameCountHonest
  /\ Cardinality(reserved) <= RESERVED
  /\ DrainedByEmptyFrames /\ HaltTakesEmptyFrames

\* What an action that leaves the ring alone leaves of its packets.
LEMMA RingKept ==
  ASSUME UNCHANGED ring
  PROVE  RingLen' = RingLen /\ RingItems' = RingItems /\ \A k : RingAt(k)' = RingAt(k)
BY DEF ring, RingLen, RingItems, RingAt, Around

LEMMA RingIndices ==
  ASSUME RxTypeOK
  PROVE  /\ RingLen = Used(rx_pool_get, rx_pool_put)
         /\ RingLen \in 0 .. ETH_RX_POOL_SIZE - 1
         /\ \A k \in 1 .. RingLen : k \in 1 .. ETH_RX_POOL_SIZE
                                    /\ Around(rx_pool_get + k - 1) \in Slots
<1>1. RingLen = Used(rx_pool_get, rx_pool_put)
  BY DEF RingLen, Used
<1>2. rx_pool_get \in Slots /\ rx_pool_put \in Slots
  BY DEF RxTypeOK
<1>3. /\ Used(rx_pool_get, rx_pool_put) \in 0 .. ETH_RX_POOL_SIZE - 1
      /\ \A k \in 1 .. Used(rx_pool_get, rx_pool_put) :
           Around(rx_pool_get + k - 1) \in Slots \ {rx_pool_put}
  BY <1>2, SlotsOfRing
<1> QED BY <1>1, <1>3, RxSizeAssumption

\* drv_eth_rx_put appends the packet.
LEMMA PutAppends ==
  ASSUME RxTypeOK, ~RingFull, NEW x \in Items,
         rx_pool' = [rx_pool EXCEPT ![rx_pool_put] = x],
         rx_pool_put' = NextPut, rx_pool_get' = rx_pool_get
  PROVE  /\ RingLen' = RingLen + 1
         /\ \A k \in 1 .. RingLen : RingAt(k)' = RingAt(k)
         /\ \A k : k = RingLen + 1 => RingAt(k)' = x
         /\ RingItems' = RingItems \cup {x}
         /\ rx_pool_put' \in Slots
<1> DEFINE g == rx_pool_get
           p == rx_pool_put
<1>1. g \in Slots /\ p \in Slots /\ rx_pool \in [Slots -> Items \cup {NULL}]
  BY DEF RxTypeOK
<1>2. rx_pool_put' = Following(p) /\ Following(p) # g
  BY DEF RingFull, NextPut, Following
<1>3. Following(p) \in Slots /\ Used(g, Following(p)) = Used(g, p) + 1
  BY <1>1, <1>2, PutGrows
<1>4. RingLen' = RingLen + 1
  BY <1>2, <1>3 DEF RingLen, Used
<1>5. \A k \in 1 .. RingLen : Around(g + k - 1) \in Slots \ {p}
  BY <1>1, SlotsOfRing DEF RingLen, Used
<1>6. Around(g + (RingLen + 1) - 1) = p
  BY <1>1, SlotsOfRing DEF RingLen, Used
<1>7. \A k : RingAt(k)' = rx_pool'[Around(g + k - 1)]
  BY DEF RingAt, Around
<1>8. \A k \in 1 .. RingLen : RingAt(k)' = RingAt(k)
  BY <1>1, <1>5, <1>7 DEF RingAt
<1>9. \A k : k = RingLen + 1 => RingAt(k)' = x
  BY <1>1, <1>6, <1>7
<1>10. RingLen \in Nat
  BY RingIndices, RxSizeAssumption
<1>11. RingItems' = RingItems \cup {x}
  <2>1. RingItems' = {RingAt(k)' : k \in 1 .. RingLen + 1}
    BY <1>4 DEF RingItems
  <2>2. 1 .. RingLen + 1 = (1 .. RingLen) \cup {RingLen + 1}
    BY <1>10
  <2>3. {RingAt(k)' : k \in 1 .. RingLen + 1}
          = {RingAt(k)' : k \in 1 .. RingLen} \cup {x}
    BY <1>9, <2>2
  <2>4. {RingAt(k)' : k \in 1 .. RingLen} = {RingAt(k) : k \in 1 .. RingLen}
    BY <1>8
  <2> QED BY <2>1, <2>3, <2>4 DEF RingItems
<1> QED BY <1>2, <1>3, <1>4, <1>8, <1>9, <1>11

\* drv_eth_rx_get takes the first packet.
LEMMA GetTakesFirst ==
  ASSUME RxTypeOK, RingOwnsItsPackets, rx_pool_put # rx_pool_get,
         rx_pool' = rx_pool, rx_pool_put' = rx_pool_put, rx_pool_get' = NextGet
  PROVE  /\ RingLen > 0 /\ RingLen' = RingLen - 1
         /\ RingAt(1) = rx_pool[rx_pool_get]
         /\ \A k \in 1 .. RingLen - 1 : RingAt(k)' = RingAt(k + 1)
         /\ RingItems' = RingItems \ {rx_pool[rx_pool_get]}
         /\ rx_pool[rx_pool_get] \in RingItems
         /\ rx_pool_get' \in Slots
<1> DEFINE g == rx_pool_get
           p == rx_pool_put
<1>1. g \in Slots /\ p \in Slots /\ p # g
  BY DEF RxTypeOK
<1>2. rx_pool_get' = Following(g)
  BY DEF NextGet, Following
<1>3. /\ Following(g) \in Slots /\ Used(g, p) > 0
      /\ Used(Following(g), p) = Used(g, p) - 1
      /\ Around(g + 1 - 1) = g
      /\ \A k \in 1 .. Used(g, p) - 1 : Around(Following(g) + k - 1) = Around(g + (k + 1) - 1)
  BY <1>1, GetShrinks
<1>4. RingLen = Used(g, p) /\ RingLen' = RingLen - 1 /\ RingLen \in Nat
  BY <1>2, <1>3, RingIndices, RxSizeAssumption DEF RingLen, Used
<1>5. RingAt(1) = rx_pool[g]
  BY <1>3 DEF RingAt
<1>6. \A k \in 1 .. RingLen - 1 : RingAt(k)' = RingAt(k + 1)
  BY <1>2, <1>3, <1>4 DEF RingAt, Around
<1>7. RingItems' = {RingAt(k + 1) : k \in 1 .. RingLen - 1}
  <2>1. RingItems' = {RingAt(k)' : k \in 1 .. RingLen - 1}
    BY <1>4 DEF RingItems
  <2> QED BY <1>6, <2>1
<1>8. {RingAt(k + 1) : k \in 1 .. RingLen - 1} = {RingAt(k) : k \in 2 .. RingLen}
  <2>1. \A k \in 1 .. RingLen - 1 : k + 1 \in 2 .. RingLen
    BY <1>4
  <2>2. \A k \in 2 .. RingLen : k - 1 \in 1 .. RingLen - 1 /\ (k - 1) + 1 = k
    BY <1>4
  <2> QED BY <2>1, <2>2
<1>9. {RingAt(k) : k \in 2 .. RingLen} = RingItems \ {RingAt(1)}
  <2>1. 1 \in 1 .. RingLen /\ \A k \in 2 .. RingLen : k \in 1 .. RingLen /\ k # 1
    BY <1>3, <1>4
  <2>2. \A k \in 1 .. RingLen : k = 1 \/ k \in 2 .. RingLen
    BY <1>4
  <2> QED BY <2>1, <2>2 DEF RingOwnsItsPackets, RingItems
<1>10. RingAt(1) \in RingItems
  <2>1. 1 \in 1 .. RingLen
    BY <1>3, <1>4
  <2> QED BY <2>1 DEF RingItems
<1> QED BY <1>2, <1>3, <1>4, <1>5, <1>6, <1>7, <1>8, <1>9, <1>10

-----------------------------------------------------------------------------
\* The ring holds one packet less than it has slots.
LEMMA RingSmall ==
  ASSUME RxTypeOK
  PROVE  IsFiniteSet(RingItems) /\ Cardinality(RingItems) <= ETH_RX_POOL_SIZE - 1
<1> DEFINE f == [k \in 1 .. RingLen |-> RingAt(k)]
<1>1. RingLen \in 0 .. ETH_RX_POOL_SIZE - 1 /\ RingLen \in Nat
  BY RingIndices, RxSizeAssumption
<1>2. f \in Surjection(1 .. RingLen, RingItems)
  BY DEF Surjection, RingItems
<1>3. IsFiniteSet(1 .. RingLen) /\ Cardinality(1 .. RingLen) = RingLen
  BY <1>1, FS_Interval
<1>4. IsFiniteSet(RingItems) /\ Cardinality(RingItems) <= RingLen
  BY <1>2, <1>3, FS_Surjection
<1>5. Cardinality(RingItems) \in Nat
  BY <1>4, FS_CardinalityType
<1> QED BY <1>1, <1>4, <1>5, RxSizeAssumption

\* What the four owners hold together.
LEMMA CountOwners ==
  ASSUME NEW R, NEW S, NEW K, NEW H, NEW a \in Nat, NEW b \in Nat,
         IsFiniteSet(R), IsFiniteSet(S), IsFiniteSet(K), IsFiniteSet(H),
         Cardinality(R) <= a, Cardinality(S) <= b, Cardinality(H) <= 1
  PROVE  Cardinality(R \cup S \cup K \cup H) <= a + b + Cardinality(K) + 1
<1>1. \A A, B : IsFiniteSet(A) /\ IsFiniteSet(B) =>
        IsFiniteSet(A \cup B) /\ Cardinality(A \cup B) <= Cardinality(A) + Cardinality(B)
  <2> SUFFICES ASSUME NEW A, NEW B, IsFiniteSet(A), IsFiniteSet(B)
               PROVE  IsFiniteSet(A \cup B)
                      /\ Cardinality(A \cup B) <= Cardinality(A) + Cardinality(B)
    OBVIOUS
  <2>1. IsFiniteSet(A \cap B)
    BY FS_Subset
  <2>2. Cardinality(A) \in Nat /\ Cardinality(B) \in Nat /\ Cardinality(A \cap B) \in Nat
    BY <2>1, FS_CardinalityType
  <2>3. /\ IsFiniteSet(A \cup B)
        /\ Cardinality(A \cup B) = Cardinality(A) + Cardinality(B) - Cardinality(A \cap B)
    BY FS_Union, Zenon
  <2> QED BY <2>2, <2>3
<1>2. /\ IsFiniteSet(R \cup S) /\ IsFiniteSet(R \cup S \cup K)
      /\ IsFiniteSet(R \cup S \cup K \cup H)
  BY <1>1
<1>3. /\ Cardinality(R) \in Nat /\ Cardinality(S) \in Nat /\ Cardinality(K) \in Nat
      /\ Cardinality(H) \in Nat /\ Cardinality(R \cup S) \in Nat
      /\ Cardinality(R \cup S \cup K) \in Nat /\ Cardinality(R \cup S \cup K \cup H) \in Nat
  BY <1>2, FS_CardinalityType
<1>4. /\ Cardinality(R \cup S) <= Cardinality(R) + Cardinality(S)
      /\ Cardinality(R \cup S \cup K) <= Cardinality(R \cup S) + Cardinality(K)
      /\ Cardinality(R \cup S \cup K \cup H) <= Cardinality(R \cup S \cup K) + Cardinality(H)
  BY <1>1, <1>2
<1> QED BY <1>3, <1>4

\* An allocation that empties the list has left every packet in use.
LEMMA DrainTakesAll ==
  ASSUME HeapInv, HeapAlloc, fifo' = << >>
  PROVE  held' = Items
<1> DEFINE p == next_alloc_item
<1>1. fifo # << >> /\ p = Head(fifo) /\ p \in Items /\ fifo \in Seq(Items)
  BY AllocTakesFirst DEF HeapInv, HeapTypeOK
<1>2. Len(fifo) = 1 /\ fifo[1] = p
  <2>1. Tail(fifo) = << >> /\ Len(Tail(fifo)) = Len(fifo) - 1 /\ Len(fifo) \in Nat
    BY <1>1, HeadTailProperties, LenProperties DEF HeapAlloc
  <2>2. Len(Tail(fifo)) = 0
    BY <2>1, EmptySeq
  <2>3. Head(fifo) = fifo[1]
    BY <1>1
  <2> QED BY <1>1, <2>1, <2>2, <2>3
<1>3. \A q \in Items : status[q] = 0 => q = p
  BY <1>1, <1>2 DEF HeapInv, NoFreePacketLost, HeapAlloc
<1>4. \A q \in Items : status'[q] = 1
  BY <1>1, <1>3 DEF HeapAlloc, MarkUsed, HeapInv, HeapTypeOK
<1> QED BY <1>4 DEF held

\* An allocation marks a packet that nobody holds as used.
LEMMA AllocHolds ==
  ASSUME HeapInv, HeapAlloc
  PROVE  result' \in Items \ held /\ held' = held \cup {result'}
<1>1. next_alloc_item \in Items /\ status[next_alloc_item] = 0
  BY AllocTakesFirst
<1> QED BY <1>1 DEF HeapAlloc, MarkUsed, held, HeapInv, HeapTypeOK

LEMMA FreeReleases ==
  ASSUME HeapInv, NEW p \in Items, HeapFree(p)
  PROVE  held' = held \ {p} /\ (fifo # << >> => fifo' # << >>)
<1>1. held' = held \ {p}
  BY DEF HeapFree, held, HeapInv, HeapTypeOK
<1>2. fifo # << >> => fifo' # << >>
  BY DEF HeapFree, HeapInv, HeapTypeOK
<1> QED BY <1>1, <1>2

-----------------------------------------------------------------------------
\* The part of the invariant about the owners of the packets.
Ownership == RingOwnsItsPackets /\ NoPacketLeaked

\* Steps that touch neither the heap, nor the ring, nor who holds what.
LEMMA QuietKeeps ==
  ASSUME RxInv, UNCHANGED <<links, fifo, ring, reserved, skipped>>,
         result' \in Items \cup {NULL, FAILURE, SUCCESS}, InHand' = InHand
  PROVE  /\ HeapInv' /\ Ownership'
         /\ Cardinality(reserved') <= RESERVED
         /\ DrainedByEmptyFrames'
<1>1. HeapInv'
  BY RefusedPreserves DEF RxInv
<1>2. held' = held
  BY DEF held, links
<1>3. Ownership'
  BY <1>2, RingKept DEF RxInv, Ownership, RingOwnsItsPackets, NoPacketLeaked
<1> QED BY <1>1, <1>3 DEF RxInv, DrainedByEmptyFrames

\* An allocation, for the stack or for a frame.
LEMMA AllocKeeps ==
  ASSUME RxInv, HeapAlloc, UNCHANGED <<ring, skipped>>, InHand = {},
         \/ /\ reserved' = reserved \cup {result'} /\ InHand' = {}
            /\ Cardinality(reserved) < RESERVED
         \/ reserved' = reserved /\ InHand' = {result'}
  PROVE  /\ HeapInv' /\ Ownership'
         /\ Cardinality(reserved') <= RESERVED
         /\ DrainedByEmptyFrames'
<1>1. HeapInv'
  BY AllocPreserves DEF RxInv
<1>2. result' \in Items \ held /\ held' = held \cup {result'}
  BY AllocHolds DEF RxInv
<1>3. RingLen' = RingLen /\ RingItems' = RingItems /\ \A k : RingAt(k)' = RingAt(k)
  BY RingKept
<1>4. /\ \A j, k \in 1 .. RingLen : RingAt(j) = RingAt(k) => j = k
      /\ held = RingItems \cup reserved \cup skipped
      /\ RingItems \cap (reserved \cup skipped) = {}
  BY DEF RxInv, RingOwnsItsPackets, NoPacketLeaked
<1>5. Ownership'
  <2>1. RingItems' \subseteq held'
    BY <1>2, <1>3, <1>4
  <2>2. RingItems' \cap (reserved' \cup skipped') = {}
    BY <1>2, <1>3, <1>4
  <2>3. InHand' \cap (RingItems' \cup reserved' \cup skipped') = {}
    BY <1>2, <1>3, <1>4
  <2>4. held' = RingItems' \cup reserved' \cup skipped' \cup InHand'
    BY <1>2, <1>3, <1>4
  <2>5. \A j, k \in 1 .. RingLen' : RingAt(j)' = RingAt(k)' => j = k
    BY <1>3, <1>4
  <2> QED BY <2>1, <2>2, <2>3, <2>4, <2>5 DEF Ownership, RingOwnsItsPackets, NoPacketLeaked
<1>6. IsFiniteSet(reserved) /\ IsFiniteSet(skipped) /\ IsFiniteSet(reserved \cup {result'})
  BY ItemsFinite, FS_Subset, FS_AddElement DEF RxInv, RxTypeOK
<1>7. Cardinality(reserved') <= RESERVED
  <2>1. Cardinality(reserved) \in Nat /\ Cardinality(reserved) <= RESERVED
    BY <1>6, FS_CardinalityType DEF RxInv
  <2>2. Cardinality(reserved \cup {result'}) <= Cardinality(reserved) + 1
    BY <1>6, <2>1, FS_AddElement
  <2>3. Cardinality(reserved \cup {result'}) \in Nat
    BY <1>6, FS_CardinalityType
  <2>4. CASE reserved' = reserved
    BY <2>1, <2>4
  <2>5. CASE reserved' = reserved \cup {result'} /\ Cardinality(reserved) < RESERVED
    <3>1. Cardinality(reserved \cup {result'}) <= RESERVED
      BY <2>1, <2>2, <2>3, <2>5, RxSizeAssumption
    <3> QED BY <2>5, <3>1
  <2> QED BY <2>4, <2>5
<1>8. DrainedByEmptyFrames'
  <2> SUFFICES ASSUME fifo' = << >>
               PROVE  Cardinality(skipped) >= NET_PKT_COUNT - RESERVED - ETH_RX_POOL_SIZE
    BY DEF DrainedByEmptyFrames
  <2>1. PICK R, H : R = reserved' /\ H = InHand'
    OBVIOUS
  <2>2. Items = RingItems \cup R \cup skipped \cup H
    BY <1>3, <1>5, <2>1, DrainTakesAll DEF RxInv, Ownership, NoPacketLeaked
  <2>3. IsFiniteSet(R) /\ Cardinality(R) <= RESERVED
    BY <1>6, <1>7, <2>1
  <2>4. IsFiniteSet(H) /\ Cardinality(H) <= 1
    <3>1. H = {} \/ \E x : H = {x}
      BY <2>1
    <3>2. IsFiniteSet({}) /\ Cardinality({}) = 0
      BY FS_EmptySet, Zenon
    <3>3. \A x : IsFiniteSet({x}) /\ Cardinality({x}) = 1
      BY FS_Singleton, Zenon
    <3>4. CASE H = {}
      BY <3>2, <3>4
    <3>5. CASE \E x : H = {x}
      <4> PICK x : H = {x}
        BY <3>5
      <4>1. IsFiniteSet({x}) /\ Cardinality({x}) = 1
        BY <3>3, Zenon
      <4> QED BY <4>1
    <3> QED BY <3>1, <3>4, <3>5
  <2>5. IsFiniteSet(RingItems) /\ Cardinality(RingItems) <= ETH_RX_POOL_SIZE - 1
    BY RingSmall DEF RxInv
  <2>6. Cardinality(RingItems \cup R \cup skipped \cup H)
          <= ETH_RX_POOL_SIZE - 1 + RESERVED + Cardinality(skipped) + 1
    <3>1. ETH_RX_POOL_SIZE - 1 \in Nat /\ RESERVED \in Nat
      BY RxSizeAssumption
    <3> QED BY <1>6, <2>3, <2>4, <2>5, <3>1, CountOwners
  <2>7. Cardinality(Items) = NET_PKT_COUNT
    BY FS_Interval, PktCountAssumption DEF Items
  <2>8. Cardinality(skipped) \in Nat
    BY <1>6, FS_CardinalityType
  <2> QED BY <2>2, <2>6, <2>7, <2>8, RxSizeAssumption, PktCountAssumption
<1> QED BY <1>1, <1>5, <1>7, <1>8

\* A packet given back by the one who has it in hand.
LEMMA FreeKeeps ==
  ASSUME RxInv, InHand = {result}, HeapFree(result), InHand' = {},
         UNCHANGED <<ring, reserved, skipped>>
  PROVE  /\ HeapInv' /\ Ownership'
         /\ Cardinality(reserved') <= RESERVED
         /\ DrainedByEmptyFrames'
<1>1. result \in Items
  BY DEF RxInv, Handling, InHand
<1>2. HeapInv'
  BY <1>1, FreePreserves DEF RxInv
<1>3. held' = held \ {result} /\ (fifo # << >> => fifo' # << >>)
  BY <1>1, FreeReleases DEF RxInv
<1>4. RingLen' = RingLen /\ RingItems' = RingItems /\ \A k : RingAt(k)' = RingAt(k)
  BY RingKept
<1>5. Ownership'
  BY <1>3, <1>4 DEF RxInv, Ownership, RingOwnsItsPackets, NoPacketLeaked
<1> QED BY <1>2, <1>3, <1>5 DEF RxInv, DrainedByEmptyFrames

\* The packet of an empty frame: from the hand to the skipped ones.
LEMMA SkipKeeps ==
  ASSUME RxInv, InHand = {result}, InHand' = {}, skipped' = skipped \cup {result},
         UNCHANGED <<heapVars, ring, reserved>>
  PROVE  /\ HeapInv' /\ Ownership'
         /\ Cardinality(reserved') <= RESERVED
         /\ DrainedByEmptyFrames'
         /\ Cardinality(skipped') >= Cardinality(skipped)
<1>1. HeapInv'
  BY RefusedPreserves DEF RxInv, heapVars, HeapInv, HeapTypeOK
<1>2. held' = held
  BY DEF held, heapVars, links
<1>3. RingLen' = RingLen /\ RingItems' = RingItems /\ \A k : RingAt(k)' = RingAt(k)
  BY RingKept
<1>4. Ownership'
  BY <1>2, <1>3 DEF RxInv, Ownership, RingOwnsItsPackets, NoPacketLeaked
<1>5. result \in Items
  BY DEF RxInv, Handling, InHand
<1>6. IsFiniteSet(skipped \cup {result}) /\ skipped \in SUBSET (skipped \cup {result})
  BY <1>5, ItemsFinite, FS_Subset, FS_AddElement DEF RxInv, RxTypeOK
<1>7. IsFiniteSet(skipped)
  BY <1>6, FS_Subset
<1>8. /\ Cardinality(skipped) \in Nat /\ Cardinality(skipped \cup {result}) \in Nat
      /\ Cardinality(skipped) <= Cardinality(skipped \cup {result})
  BY <1>6, <1>7, FS_Subset, FS_CardinalityType
<1>9. DrainedByEmptyFrames'
  <2>1. fifo' = fifo
    BY DEF heapVars
  <2>2. fifo = << >> =>
          Cardinality(skipped \cup {result}) >= NET_PKT_COUNT - RESERVED - ETH_RX_POOL_SIZE
    BY <1>8, RxSizeAssumption, PktCountAssumption DEF RxInv, DrainedByEmptyFrames
  <2> QED BY <2>1, <2>2 DEF DrainedByEmptyFrames
<1> QED BY <1>1, <1>4, <1>8, <1>9 DEF RxInv

\* A frame put in the ring: from the hand to the end of the queue.
LEMMA PutKeeps ==
  ASSUME RxInv, RxPut
  PROVE  /\ HeapInv' /\ Ownership'
         /\ Cardinality(reserved') <= RESERVED
         /\ DrainedByEmptyFrames'
<1>1. HeapInv'
  BY RefusedPreserves DEF RxInv, RxPut, heapVars, HeapInv, HeapTypeOK
<1>2. held' = held
  BY DEF RxPut, held, heapVars, links
<1>3. InHand = {result} /\ InHand' = {} /\ result \in Items
  BY DEF RxPut, ReadFrame, Goto, InHand, RxInv, Handling
<1>4. /\ RingLen' = RingLen + 1
      /\ \A k \in 1 .. RingLen : RingAt(k)' = RingAt(k)
      /\ \A k : k = RingLen + 1 => RingAt(k)' = result
      /\ RingItems' = RingItems \cup {result}
  BY <1>3, PutAppends DEF RxInv, RxPut
<1>5. RingLen \in Nat
  BY RingIndices, RxSizeAssumption DEF RxInv
<1>6. /\ \A j, k \in 1 .. RingLen : RingAt(j) = RingAt(k) => j = k
      /\ \A k \in 1 .. RingLen : RingAt(k) # result
  BY <1>3 DEF RxInv, RingOwnsItsPackets, RingItems
<1>7. \A j, k \in 1 .. RingLen' : RingAt(j)' = RingAt(k)' => j = k
  <2>1. \A k \in 1 .. RingLen + 1 : k \in 1 .. RingLen \/ k = RingLen + 1
    BY <1>5
  <2> QED BY <1>4, <1>6, <2>1
<1>8. Ownership'
  <2>1. /\ RingItems \subseteq held /\ RingItems \cap (reserved \cup skipped) = {}
        /\ {result} \cap (RingItems \cup reserved \cup skipped) = {}
        /\ held = RingItems \cup reserved \cup skipped \cup {result}
    BY <1>3 DEF RxInv, RingOwnsItsPackets, NoPacketLeaked
  <2>2. reserved' = reserved /\ skipped' = skipped
    BY DEF RxPut, ReadFrame
  <2> QED BY <1>2, <1>3, <1>4, <1>7, <2>1, <2>2
          DEF Ownership, RingOwnsItsPackets, NoPacketLeaked
<1>9. reserved' = reserved /\ skipped' = skipped /\ fifo' = fifo
  BY DEF RxPut, ReadFrame, heapVars
<1> QED BY <1>1, <1>8, <1>9 DEF RxInv, DrainedByEmptyFrames

\* A frame taken out of the ring: its packet goes back to the heap.
LEMMA ProcessKeeps ==
  ASSUME RxInv, ProcessPacket
  PROVE  /\ HeapInv' /\ Ownership'
         /\ Cardinality(reserved') <= RESERVED
         /\ DrainedByEmptyFrames'
<1> DEFINE x == rx_pool[rx_pool_get]
<1>1. /\ RingLen > 0 /\ RingLen' = RingLen - 1
      /\ \A k \in 1 .. RingLen - 1 : RingAt(k)' = RingAt(k + 1)
      /\ RingItems' = RingItems \ {x}
      /\ x \in RingItems
  BY GetTakesFirst DEF RxInv, ProcessPacket
<1>2. x \in held /\ x \in Items
  BY <1>1 DEF RxInv, RingOwnsItsPackets, held
<1>3. HeapFree(x)
  BY DEF ProcessPacket
<1>4. HeapInv'
  BY <1>2, <1>3, FreePreserves DEF RxInv
<1>5. held' = held \ {x} /\ (fifo # << >> => fifo' # << >>)
  BY <1>2, <1>3, FreeReleases DEF RxInv
<1>6. InHand = {} /\ InHand' = {} /\ reserved' = reserved /\ skipped' = skipped
  BY DEF ProcessPacket, InHand
<1>7. RingLen \in Nat
  BY RingIndices, RxSizeAssumption DEF RxInv
<1>8. \A j, k \in 1 .. RingLen' : RingAt(j)' = RingAt(k)' => j = k
  <2>1. \A k \in 1 .. RingLen - 1 : k \in Nat /\ k + 1 \in 1 .. RingLen
    BY <1>7
  <2>2. \A j, k \in 1 .. RingLen : RingAt(j) = RingAt(k) => j = k
    BY DEF RxInv, RingOwnsItsPackets
  <2> SUFFICES ASSUME NEW j \in 1 .. RingLen - 1, NEW k \in 1 .. RingLen - 1,
                      RingAt(j)' = RingAt(k)'
               PROVE  j = k
    BY <1>1
  <2>3. RingAt(j + 1) = RingAt(k + 1)
    BY <1>1
  <2>4. j + 1 = k + 1
    BY <2>1, <2>2, <2>3
  <2> QED BY <2>1, <2>4
<1>9. Ownership'
  <2>1. /\ RingItems \cap (reserved \cup skipped) = {}
        /\ RingItems \subseteq held
        /\ held = RingItems \cup reserved \cup skipped
    BY <1>6 DEF RxInv, RingOwnsItsPackets, NoPacketLeaked
  <2> QED BY <1>1, <1>5, <1>6, <1>8, <2>1 DEF Ownership, RingOwnsItsPackets, NoPacketLeaked
<1> QED BY <1>4, <1>5, <1>6, <1>9 DEF RxInv, DrainedByEmptyFrames

-----------------------------------------------------------------------------
\* What every action keeps of the heap and of the owners of its packets.
OwnersKept == /\ HeapInv' /\ Ownership'
              /\ Cardinality(reserved') <= RESERVED
              /\ DrainedByEmptyFrames'

\* The actions that touch neither.
Quiet == \/ OpenChip \/ ReserveDone \/ InitFailed \/ ReadFrameCount \/ RxAssertFails
         \/ RxDone \/ PingWait \/ PingGiveUp \/ ProcessDone \/ Arrive \/ Spin
         \/ UNCHANGED vars

LEMMA QuietIsQuiet ==
  ASSUME RxInv, Quiet
  PROVE  /\ UNCHANGED <<links, fifo, ring, reserved, skipped>>
         /\ result' \in Items \cup {NULL, FAILURE, SUCCESS} /\ InHand' = InHand
<1> USE DEF heapVars, InHand, Goto
<1>1. result \in Items \cup {NULL, FAILURE, SUCCESS}
  BY DEF RxInv, HeapInv, HeapTypeOK
<1>2. CASE OpenChip
  BY <1>1, <1>2 DEF OpenChip, RxInv, Handling, Places, ring
<1>3. CASE ReserveDone
  BY <1>1, <1>3 DEF ReserveDone
<1>4. CASE InitFailed
  BY <1>1, <1>4 DEF InitFailed
<1>5. CASE ReadFrameCount
  BY <1>1, <1>5 DEF ReadFrameCount
<1>6. CASE RxAssertFails
  BY <1>6 DEF RxAssertFails, HeapAllocNone
<1>7. CASE RxDone
  BY <1>1, <1>7 DEF RxDone
<1>8. CASE PingWait \/ PingGiveUp
  BY <1>1, <1>8 DEF PingWait, PingGiveUp
<1>9. CASE ProcessDone
  BY <1>1, <1>9 DEF ProcessDone
<1>10. CASE Arrive
  BY <1>1, <1>10 DEF Arrive
<1>11. CASE Spin \/ UNCHANGED vars
  BY <1>1, <1>11 DEF Spin, vars
<1> QED BY <1>2, <1>3, <1>4, <1>5, <1>6, <1>7, <1>8, <1>9, <1>10, <1>11 DEF Quiet

LEMMA OwnersPreserved == RxInv /\ [RxNext]_vars => OwnersKept
<1> SUFFICES ASSUME RxInv, [RxNext]_vars PROVE OwnersKept
  OBVIOUS
<1>1. CASE Quiet
  BY <1>1, QuietIsQuiet, QuietKeeps DEF OwnersKept
<1>2. CASE HeapTestAlloc
  <2>1. /\ InHand = {} /\ InHand' = {result'} /\ reserved' = reserved
        /\ HeapAlloc /\ UNCHANGED <<ring, skipped>>
    BY <1>2 DEF HeapTestAlloc, Goto, InHand
  <2> QED BY <2>1, AllocKeeps DEF OwnersKept
<1>3. CASE HeapTestFree
  <2>1. /\ InHand = {result} /\ InHand' = {} /\ HeapFree(result)
        /\ UNCHANGED <<ring, reserved, skipped>>
    BY <1>3 DEF HeapTestFree, Goto, InHand
  <2> QED BY <2>1, FreeKeeps DEF OwnersKept
<1>4. CASE Reserve
  <2>1. /\ InHand = {} /\ InHand' = {} /\ reserved' = reserved \cup {result'}
        /\ Cardinality(reserved) < RESERVED
        /\ HeapAlloc /\ UNCHANGED <<ring, skipped>>
    BY <1>4 DEF Reserve, InHand
  <2> QED BY <2>1, AllocKeeps DEF OwnersKept
<1>5. CASE RxAlloc
  <2>1. /\ InHand = {} /\ InHand' = {result'} /\ reserved' = reserved
        /\ HeapAlloc /\ UNCHANGED <<ring, skipped>>
    BY <1>5 DEF RxAlloc, Goto, InHand
  <2> QED BY <2>1, AllocKeeps DEF OwnersKept
<1>6. CASE RxPut
  BY <1>6, PutKeeps DEF OwnersKept
<1>7. CASE RxOverflow
  <2>1. /\ InHand = {result} /\ InHand' = {} /\ HeapFree(result)
        /\ UNCHANGED <<ring, reserved, skipped>>
    BY <1>7 DEF RxOverflow, ReadFrame, Goto, InHand
  <2> QED BY <2>1, FreeKeeps DEF OwnersKept
<1>8. CASE RxSkip
  <2>1. /\ InHand = {result} /\ InHand' = {} /\ skipped' = skipped \cup {result}
        /\ UNCHANGED <<heapVars, ring, reserved>>
    BY <1>8 DEF RxSkip, ReadFrame, Goto, InHand
  <2> QED BY <2>1, SkipKeeps DEF OwnersKept
<1>9. CASE ProcessPacket
  BY <1>9, ProcessKeeps DEF OwnersKept
<1> QED BY <1>1, <1>2, <1>3, <1>4, <1>5, <1>6, <1>7, <1>8, <1>9
        DEF RxNext, Program, Setup, Receive, Process, Quiet

-----------------------------------------------------------------------------
\* What every action keeps of the rest: types, program counter, frame count.
ControlKept == RxTypeOK' /\ Handling' /\ FrameCountHonest' /\ HaltTakesEmptyFrames'

\* A frame leaves the chip: the count and the queue become shorter by one.
LEMMA ReadShortens ==
  ASSUME RxInv, ReadFrame
  PROVE  /\ chip' \in Seq(Frames) /\ rxfc' \in Nat
         /\ FrameCountHonest'
         /\ pc' = "rx" /\ Head(chip) \in Frames
<1>1. rxfc \in Nat /\ rxfc > 0 /\ rxfc <= Len(chip) /\ chip \in Seq(Frames)
  BY DEF RxInv, RxTypeOK, Handling, FrameCountHonest, ReadFrame, Goto
<1>2. chip # << >>
  BY <1>1, EmptySeq
<1>3. /\ Tail(chip) \in Seq(Frames) /\ Len(Tail(chip)) = Len(chip) - 1
      /\ Head(chip) \in Frames /\ Len(chip) \in Nat
  BY <1>1, <1>2, HeadTailProperties, LenProperties
<1>4. rxfc - 1 \in Nat /\ rxfc - 1 <= Len(Tail(chip))
  BY <1>1, <1>3
<1> QED BY <1>3, <1>4 DEF ReadFrame, Goto, FrameCountHonest

LEMMA ControlPreserved == RxInv /\ [RxNext]_vars /\ HeapInv' => ControlKept
<1> SUFFICES ASSUME RxInv, [RxNext]_vars, HeapInv' PROVE ControlKept
  OBVIOUS
<1> USE DEF Goto, ControlKept, RxTypeOK, Handling, FrameCountHonest,
            HaltTakesEmptyFrames, Places
<1>0. /\ HeapTypeOK' /\ RxTypeOK /\ Handling /\ FrameCountHonest /\ HaltTakesEmptyFrames
  BY DEF RxInv, HeapInv
<1>1. CASE HeapTestAlloc
  <2>1. result' \in Items
    BY <1>1, AllocHolds DEF HeapTestAlloc, RxInv
  <2> QED BY <1>0, <1>1, <2>1 DEF HeapTestAlloc, ring
<1>2. CASE HeapTestFree
  BY <1>0, <1>2 DEF HeapTestFree, ring
<1>3. CASE OpenChip
  BY <1>0, <1>3, RxSizeAssumption DEF OpenChip, heapVars, Slots
<1>4. CASE Reserve
  <2>1. result' \in Items
    BY <1>4, AllocHolds DEF Reserve, RxInv
  <2> QED BY <1>0, <1>4, <2>1 DEF Reserve, ring
<1>5. CASE ReserveDone \/ InitFailed
  BY <1>0, <1>5 DEF ReserveDone, InitFailed, ring, heapVars
<1>6. CASE ReadFrameCount
  <2>1. Len(chip) \in Nat
    BY <1>0, LenProperties
  <2> QED BY <1>0, <1>6, <2>1 DEF ReadFrameCount, ring, heapVars
<1>7. CASE RxAlloc
  <2>1. result' \in Items
    BY <1>7, AllocHolds DEF RxAlloc, RxInv
  <2> QED BY <1>0, <1>7, <2>1 DEF RxAlloc, ring
<1>8. CASE RxAssertFails
  <2>1. fifo = << >>
    <3>1. next_alloc_item = NULL
      BY <1>8 DEF RxAssertFails, HeapAllocNone
    <3>2. fifo # << >> => fifo[1] \in Items
      BY DEF RxInv, HeapInv, HeapTypeOK
    <3>3. next_alloc_item = IF fifo = << >> THEN NULL ELSE fifo[1]
      BY DEF RxInv, HeapInv, FreeListSpellsQueue
    <3>4. NULL \notin Items
      BY PktCountAssumption DEF Items, NULL
    <3> QED BY <3>1, <3>2, <3>3, <3>4
  <2>2. Cardinality(skipped) >= NET_PKT_COUNT - RESERVED - ETH_RX_POOL_SIZE
    BY <2>1 DEF RxInv, DrainedByEmptyFrames
  <2> QED BY <1>0, <1>8, <2>2 DEF RxAssertFails, ring
<1>9. CASE RxPut
  <2>1. chip' \in Seq(Frames) /\ rxfc' \in Nat /\ FrameCountHonest' /\ pc' = "rx"
        /\ Head(chip) \in Data \cup {EMPTY}
    BY <1>9, ReadShortens DEF RxPut, Frames
  <2>2. result \in Items
    BY <1>0, <1>9 DEF RxPut, ReadFrame
  <2>3. rx_pool_put' \in Slots /\ rx_pool' \in [Slots -> Items \cup {NULL}]
    BY <1>9, <2>2, PutAppends DEF RxPut, RxInv
  <2> QED BY <1>0, <1>9, <2>1, <2>2, <2>3 DEF RxPut, ReadFrame
<1>10. CASE RxOverflow
  <2>1. chip' \in Seq(Frames) /\ rxfc' \in Nat /\ FrameCountHonest' /\ pc' = "rx"
        /\ Head(chip) \in Data \cup {EMPTY}
    BY <1>10, ReadShortens DEF RxOverflow, Frames
  <2> QED BY <1>0, <1>10, <2>1 DEF RxOverflow, ReadFrame, ring
<1>11. CASE RxSkip
  <2>1. chip' \in Seq(Frames) /\ rxfc' \in Nat /\ FrameCountHonest' /\ pc' = "rx"
    BY <1>11, ReadShortens DEF RxSkip
  <2>2. result \in Items
    BY <1>0, <1>11 DEF RxSkip, ReadFrame
  <2> QED BY <1>0, <1>11, <2>1, <2>2 DEF RxSkip, ReadFrame, ring, heapVars
<1>12. CASE RxDone
  BY <1>0, <1>12 DEF RxDone, ring, heapVars
<1>13. CASE PingWait \/ PingGiveUp
  BY <1>0, <1>13 DEF PingWait, PingGiveUp, ring, heapVars
<1>14. CASE ProcessPacket
  <2>1. rx_pool_get' \in Slots /\ rx_pool[rx_pool_get] \in Items
    BY <1>14, GetTakesFirst DEF ProcessPacket, RxInv, RingOwnsItsPackets, held
  <2> QED BY <1>0, <1>14, <2>1 DEF ProcessPacket
<1>15. CASE ProcessDone
  BY <1>0, <1>15 DEF ProcessDone, ring, heapVars
<1>16. CASE Arrive
  <2>1. PICK f \in Frames : chip' = Append(chip, f)
    BY <1>16 DEF Arrive
  <2>2. /\ Append(chip, f) \in Seq(Frames) /\ Len(Append(chip, f)) = Len(chip) + 1
        /\ Len(chip) \in Nat
    BY <1>0, AppendProperties, LenProperties
  <2>3. rxfc <= Len(Append(chip, f))
    BY <1>0, <2>2
  <2> QED BY <1>0, <1>16, <2>1, <2>2, <2>3 DEF Arrive, ring, heapVars
<1>17. CASE Spin \/ UNCHANGED vars
  BY <1>0, <1>17 DEF Spin, vars, ring, heapVars
<1> HIDE DEF Goto, ControlKept, RxTypeOK, Handling, FrameCountHonest,
             HaltTakesEmptyFrames, Places
<1>18. CASE Setup
  BY <1>1, <1>2, <1>3, <1>4, <1>5, <1>18 DEF Setup
<1>19. CASE Receive
  BY <1>6, <1>7, <1>8, <1>9, <1>10, <1>11, <1>12, <1>19 DEF Receive
<1>20. CASE Process
  BY <1>13, <1>14, <1>15, <1>20 DEF Process
<1> QED BY <1>16, <1>17, <1>18, <1>19, <1>20 DEF RxNext, Program

LEMMA RxNextPreserves == RxInv /\ [RxNext]_vars => RxInv'
BY OwnersPreserved, ControlPreserved DEF OwnersKept, ControlKept, Ownership, RxInv

LEMMA RxInitHolds == RxInit => RxInv
<1> SUFFICES ASSUME RxInit PROVE RxInv
  OBVIOUS
<1>1. HeapInv /\ fifo # << >>
  BY InitHolds, InitialQueue DEF RxInit
<1>2. RingLen = 0 /\ RingItems = {}
  <2>1. RingLen = 0
    BY DEF RxInit, RingLen
  <2> QED BY <2>1 DEF RingItems
<1>3. held = {} /\ InHand = {}
  BY DEF RxInit, HeapInit, held, InHand
<1>4. RingOwnsItsPackets /\ NoPacketLeaked
  BY <1>2, <1>3 DEF RingOwnsItsPackets, NoPacketLeaked, RxInit
<1>5. RxTypeOK /\ FrameCountHonest
  <2>1. chip \in Seq(Frames) /\ Len(chip) = 0
    BY EmptySeq DEF RxInit
  <2>2. 0 \in Slots
    BY RxSizeAssumption DEF Slots
  <2> QED BY <1>1, <2>1, <2>2 DEF RxInit, RxTypeOK, FrameCountHonest, HeapInv
<1>6. Handling /\ HaltTakesEmptyFrames /\ DrainedByEmptyFrames
  BY <1>1 DEF RxInit, Handling, HaltTakesEmptyFrames, DrainedByEmptyFrames
<1>7. Cardinality(reserved) <= RESERVED
  BY FS_EmptySet, RxSizeAssumption DEF RxInit
<1> QED BY <1>1, <1>4, <1>5, <1>6, <1>7 DEF RxInv

-----------------------------------------------------------------------------
\* The invariant holds in every reachable state, whatever frames arrive and when.
THEOREM RxInvariant == RxSpec => []RxInv
BY RxInitHolds, RxNextPreserves, PTL DEF RxSpec

\* The variables of the receive path keep their types: among others no index of
\* the ring ever leaves it, and the frame count never becomes negative.
THEOREM RxTypes == RxSpec => []RxTypeOK
<1>1. RxInv => RxTypeOK
  BY DEF RxInv
<1> QED BY <1>1, RxInvariant, PTL

\* drv_eth_rx_put never stores a packet that the ring, the stack or drv_eth_rx
\* itself holds already, and drv_eth_rx_get never leaves one behind.
THEOREM RingOwnsEver == RxSpec => []RingOwnsItsPackets
<1>1. RxInv => RingOwnsItsPackets
  BY DEF RxInv
<1> QED BY <1>1, RxInvariant, PTL

\* Only the "continue" of an empty frame loses a packet, for heaps and rings of
\* any size.
THEOREM NothingElseLeaks == RxSpec => []NoPacketLeaked
<1>1. RxInv => NoPacketLeaked
  BY DEF RxInv
<1> QED BY <1>1, RxInvariant, PTL

\* The count drv_eth_rx has read stays true while frames arrive.
THEOREM CountHonestEver == RxSpec => []FrameCountHonest
<1>1. RxInv => FrameCountHonest
  BY DEF RxInv
<1> QED BY <1>1, RxInvariant, PTL

\* assert(pRxPacket) can fail only after as many empty frames as the heap has
\* packets beyond the ring and those of the stack.
THEOREM HaltNeedsEmptyFrames == RxSpec => []HaltTakesEmptyFrames
<1>1. RxInv => HaltTakesEmptyFrames
  BY DEF RxInv
<1> QED BY <1>1, RxInvariant, PTL

-----------------------------------------------------------------------------
\* The ring and its packets as the queue of RxQueue.
WaitingSpelt ==
  /\ RingLen \in 0 .. ETH_RX_POOL_SIZE - 1 /\ RingLen \in Nat
  /\ Waiting \in Seq(Frames) /\ Len(Waiting) = RingLen
  /\ \A k \in 1 .. RingLen : Waiting[k] = buf[RingAt(k)]

LEMMA WaitingIsSeq == RxInv => WaitingSpelt
<1> SUFFICES ASSUME RxInv PROVE WaitingSpelt
  OBVIOUS
<1>0. RingLen \in 0 .. ETH_RX_POOL_SIZE - 1
  BY RingIndices DEF RxInv
<1>1. RingLen \in Nat
  BY RingIndices, RxSizeAssumption DEF RxInv
<1>2. \A k \in 1 .. RingLen : RingAt(k) \in Items
  BY DEF RxInv, RingOwnsItsPackets, RingItems, held
<1>3. Waiting \in [1 .. RingLen -> Frames]
  BY <1>2 DEF Waiting, RxInv, RxTypeOK, Frames
<1>4. Waiting \in Seq(Frames)
  BY <1>1, <1>3, SeqDef
<1>5. Len(Waiting) = RingLen
  <2>1. DOMAIN Waiting = 1 .. RingLen /\ DOMAIN Waiting = 1 .. Len(Waiting)
    BY <1>3, <1>4, LenProperties
  <2>2. Len(Waiting) \in Nat
    BY <1>4, LenProperties
  <2> QED BY <1>1, <2>1, <2>2
<1> QED BY <1>0, <1>1, <1>4, <1>5 DEF Waiting, WaitingSpelt

LEMMA WaitingIsSeqNext == RxInv' => WaitingSpelt'
BY WaitingIsSeq, PTL

\* Contents of packets outside the ring may change.
LEMMA WaitingKept ==
  ASSUME UNCHANGED ring, \A k \in 1 .. RingLen : buf'[RingAt(k)] = buf[RingAt(k)]
  PROVE  Waiting' = Waiting
<1>1. RingLen' = RingLen /\ \A k : RingAt(k)' = RingAt(k)
  BY RingKept
<1>2. Waiting' = [k \in 1 .. RingLen' |-> buf'[RingAt(k)']]
  BY DEF Waiting
<1> QED BY <1>1, <1>2 DEF Waiting

LEMMA PutAccepts == ASSUME RxInv, RxInv', RxPut PROVE Queue!Accept
<1> DEFINE d == Head(chip)
<1>1. result \in Items /\ \A k \in 1 .. RingLen : RingAt(k) # result /\ RingAt(k) \in Items
  BY DEF RxInv, RxPut, ReadFrame, Goto, Handling, InHand, RingOwnsItsPackets, RingItems, held
<1>2. /\ RingLen' = RingLen + 1
      /\ \A k \in 1 .. RingLen : RingAt(k)' = RingAt(k)
      /\ \A k : k = RingLen + 1 => RingAt(k)' = result
  BY <1>1, PutAppends DEF RxInv, RxPut
<1>3. d \in Data /\ d \in Frames
  BY ReadShortens DEF RxPut, Frames
<1>4. buf' = [buf EXCEPT ![result] = d] /\ buf \in [Items -> Frames]
  BY DEF RxPut, RxInv, RxTypeOK, Frames
<1>5. /\ RingLen \in Nat /\ Waiting \in Seq(Frames) /\ Len(Waiting) = RingLen
      /\ \A k \in 1 .. RingLen : Waiting[k] = buf[RingAt(k)]
  BY WaitingIsSeq DEF WaitingSpelt
<1>6. PICK W : W = Waiting'
  OBVIOUS
<1>7. PICK n : n = RingLen'
  OBVIOUS
<1>8. n = RingLen + 1 /\ n \in Nat
  BY <1>2, <1>5, <1>7
<1>9. /\ W \in Seq(Frames) /\ Len(W) = n
      /\ \A k \in 1 .. n : W[k] = buf'[RingAt(k)']
  BY <1>6, <1>7, WaitingIsSeqNext DEF WaitingSpelt
<1>10. /\ Append(Waiting, d) \in Seq(Frames) /\ Len(Append(Waiting, d)) = n
       /\ \A k \in 1 .. RingLen : Append(Waiting, d)[k] = Waiting[k]
       /\ Append(Waiting, d)[n] = d
  BY <1>3, <1>5, <1>8, AppendProperties
<1>11. \A k \in 1 .. n : W[k] = Append(Waiting, d)[k]
  <2> SUFFICES ASSUME NEW k \in 1 .. n PROVE W[k] = Append(Waiting, d)[k]
    OBVIOUS
  <2>1. CASE k = n
    <3>1. RingAt(k)' = result
      BY <1>2, <1>8, <2>1
    <3>2. buf'[result] = d
      BY <1>1, <1>4
    <3> QED BY <1>9, <1>10, <2>1, <3>1, <3>2
  <2>2. CASE k # n
    <3>1. k \in 1 .. RingLen
      BY <1>5, <1>8, <2>2
    <3>2. buf'[RingAt(k)] = buf[RingAt(k)]
      BY <1>1, <1>4, <3>1
    <3> QED BY <1>2, <1>5, <1>9, <1>10, <3>1, <3>2
  <2> QED BY <2>1, <2>2
<1>12. W = Append(Waiting, d)
  BY <1>9, <1>10, <1>11, SeqEqual
<1>13. RingLen < ETH_RX_POOL_SIZE - 1
  <2>1. n \in 0 .. ETH_RX_POOL_SIZE - 1
    BY <1>7, WaitingIsSeqNext DEF WaitingSpelt
  <2> QED BY <1>5, <1>8, <2>1, RxSizeAssumption
<1>14. out' = out
  BY DEF RxPut, ReadFrame
<1> QED BY <1>3, <1>5, <1>6, <1>12, <1>13, <1>14 DEF Queue!Accept

LEMMA ProcessDelivers == ASSUME RxInv, RxInv', ProcessPacket PROVE Queue!Deliver
<1>1. /\ RingLen > 0 /\ RingLen' = RingLen - 1
      /\ RingAt(1) = rx_pool[rx_pool_get]
      /\ \A k \in 1 .. RingLen - 1 : RingAt(k)' = RingAt(k + 1)
  BY GetTakesFirst DEF RxInv, ProcessPacket
<1>2. /\ RingLen \in Nat /\ Waiting \in Seq(Frames) /\ Len(Waiting) = RingLen
      /\ \A k \in 1 .. RingLen : Waiting[k] = buf[RingAt(k)]
  BY WaitingIsSeq DEF WaitingSpelt
<1>3. Waiting # << >>
  BY <1>1, <1>2, EmptySeq
<1>4. /\ Tail(Waiting) \in Seq(Frames) /\ Len(Tail(Waiting)) = RingLen - 1
      /\ \A k \in 1 .. RingLen - 1 : Tail(Waiting)[k] = Waiting[k + 1]
  BY <1>2, <1>3, HeadTailProperties
<1>5. Head(Waiting) = buf[rx_pool[rx_pool_get]]
  <2>1. Head(Waiting) = Waiting[1]
    BY <1>2, <1>3
  <2>2. 1 \in 1 .. RingLen
    BY <1>1, <1>2
  <2> QED BY <1>1, <1>2, <2>1, <2>2
<1>6. PICK W : W = Waiting'
  OBVIOUS
<1>7. PICK n : n = RingLen'
  OBVIOUS
<1>8. n = RingLen - 1 /\ n \in Nat
  BY <1>1, <1>2, <1>7
<1>9. /\ W \in Seq(Frames) /\ Len(W) = n
      /\ \A k \in 1 .. n : W[k] = buf'[RingAt(k)']
  BY <1>6, <1>7, WaitingIsSeqNext DEF WaitingSpelt
<1>10. \A k \in 1 .. n : W[k] = Tail(Waiting)[k]
  <2> SUFFICES ASSUME NEW k \in 1 .. n PROVE W[k] = Tail(Waiting)[k]
    OBVIOUS
  <2>1. k \in 1 .. RingLen - 1 /\ k + 1 \in 1 .. RingLen
    BY <1>2, <1>8
  <2>2. buf' = buf
    BY DEF ProcessPacket
  <2> QED BY <1>1, <1>2, <1>4, <1>9, <2>1, <2>2
<1>11. W = Tail(Waiting)
  BY <1>4, <1>8, <1>9, <1>10, SeqEqual
<1> QED BY <1>3, <1>5, <1>6, <1>11 DEF Queue!Deliver, ProcessPacket

LEMMA StepIsQueueStep ==
  RxInv /\ RxInv' /\ [RxNext]_vars => [Queue!Next]_(Queue!vars)
<1> SUFFICES ASSUME RxInv, RxInv', [RxNext]_vars PROVE [Queue!Next]_(Queue!vars)
  OBVIOUS
<1>1. ASSUME UNCHANGED <<ring, buf, out>> PROVE UNCHANGED Queue!vars
  BY <1>1, WaitingKept DEF Queue!vars
<1>2. CASE Quiet
  <2>1. UNCHANGED ring
    BY <1>2, QuietIsQuiet
  <2>2. UNCHANGED <<buf, out>>
    BY <1>2 DEF Quiet, OpenChip, ReserveDone, InitFailed, ReadFrameCount, RxAssertFails,
                RxDone, PingWait, PingGiveUp, ProcessDone, Arrive, Spin, vars
  <2> QED BY <1>1, <2>1, <2>2
<1>3. CASE HeapTestAlloc \/ HeapTestFree \/ Reserve \/ RxAlloc \/ RxSkip
  BY <1>1, <1>3 DEF HeapTestAlloc, HeapTestFree, Reserve, RxAlloc, RxSkip, ReadFrame
<1>4. CASE RxOverflow
  <2>1. \A k \in 1 .. RingLen : RingAt(k) # result
    BY <1>4 DEF RxInv, RxOverflow, ReadFrame, Goto, InHand, RingOwnsItsPackets, RingItems
  <2>2. \A k \in 1 .. RingLen : buf'[RingAt(k)] = buf[RingAt(k)]
    <3>1. buf' = [buf EXCEPT ![result] = Head(chip)] /\ buf \in [Items -> Data \cup {EMPTY}]
      BY <1>4 DEF RxOverflow, RxInv, RxTypeOK
    <3>2. \A k \in 1 .. RingLen : RingAt(k) \in Items
      BY DEF RxInv, RingOwnsItsPackets, RingItems, held
    <3> QED BY <2>1, <3>1, <3>2
  <2>3. UNCHANGED ring /\ out' = out
    BY <1>4 DEF RxOverflow, ReadFrame
  <2> QED BY <2>2, <2>3, WaitingKept DEF Queue!vars
<1>5. CASE RxPut
  BY <1>5, PutAccepts DEF Queue!Next
<1>6. CASE ProcessPacket
  BY <1>6, ProcessDelivers DEF Queue!Next
<1> QED BY <1>2, <1>3, <1>4, <1>5, <1>6
        DEF RxNext, Program, Setup, Receive, Process, Quiet

\* The ring of pointers, its two indices and the contents of the packets together
\* implement a bounded queue of frames, for heaps and rings of any size.
THEOREM RingImplementsQueue == RxSpec => RxQueueSpec
<1>1. RxInit => Queue!Init
  <2> SUFFICES ASSUME RxInit PROVE Waiting = << >>
    BY DEF Queue!Init
  <2>1. RingLen = 0
    BY DEF RxInit, RingLen
  <2>2. Waiting \in Seq(Frames) /\ Len(Waiting) = 0
    BY <2>1, RxInitHolds, WaitingIsSeq DEF WaitingSpelt
  <2> QED BY <2>2, EmptySeq
<1> QED BY <1>1, StepIsQueueStep, RxInvariant, PTL DEF RxSpec, RxQueueSpec, Queue!Spec

-----------------------------------------------------------------------------
(***************************************************************************)
(* The ping: the requests of local_net_arp_timeout_check, for every width  *)
(* of the counter, timeout and number of tries that ArpAssumption allows.  *)
(***************************************************************************)
\* More than T whole units of m are more than T * m.
LEMMA WholeUnits ==
  ASSUME NEW x \in Nat, NEW m \in Nat \ {0}, NEW T \in Nat, x \div m > T
  PROVE  x > T * m
<1>1. PICK q : q = x \div m
  OBVIOUS
<1>2. q \in Int /\ m * q <= x
  BY <1>1
<1>3. q >= T + 1
  BY <1>1, <1>2
<1>4. m * q >= m * (T + 1)
  BY <1>2, <1>3
<1> QED BY <1>2, <1>4

LEMMA MinusInRange ==
  ASSUME NEW a \in 0 .. WORD - 1, NEW b \in 0 .. WORD - 1
  PROVE  /\ Minus(a, b) \in 0 .. WORD - 1
         /\ Succ(a) \in 0 .. WORD - 1
         /\ Minus(Succ(a), b) <= Minus(a, b) + 1
BY ArpAssumption DEF Minus, Succ

-----------------------------------------------------------------------------
\* In the loop the timer was started with the last request: the counter is not further
\* from it than the time since.
TimerInv ==
  ping = "loop" => since = CAP \/ Minus(now, NetArpWaitTimerStart) <= since

LEMMA TypesKept == PingTypeOK /\ [PingNext]_pingVars => PingTypeOK'
<1> SUFFICES ASSUME PingTypeOK, [PingNext]_pingVars PROVE PingTypeOK'
  OBVIOUS
<1> USE DEF PingTypeOK
<1>1. 1 \in 0 .. ARP_TIMEOUT_COUNT - 1 /\ 0 \in 0 .. MAX_GAP /\ 0 \in 0 .. CAP
      /\ 1 \in 0 .. ARP_TIMEOUT_COUNT /\ clobbered \cup Written \subseteq Fields
  BY ArpAssumption DEF Written
<1>2. CASE PingSend
  <2>1. /\ ping' = "loop" /\ net_state' = "CONTINUE" /\ NetArpWaitPacketIP' \in {0, 1}
        /\ NetArpWaitTry' = 1 /\ NetArpWaitTimerStart' = now /\ now' = now
        /\ clobbered' = clobbered \cup Written
        /\ requests' = 1 /\ since' = 0 /\ gap' = 0
        /\ pings < MAX_PINGS /\ pings' = pings + 1
    BY <1>2 DEF PingSend
  <2>2. pings' \in 0 .. MAX_PINGS
    BY <2>1, ArpAssumption
  <2> QED BY <1>1, <2>1, <2>2
<1>3. CASE PollNothing
  BY <1>1, <1>3 DEF PollNothing, state
<1>4. CASE PollRetry
  <2>1. /\ NetArpWaitTry' = NetArpWaitTry + 1 /\ ~(NetArpWaitTry + 1 >= ARP_TIMEOUT_COUNT)
        /\ NetArpWaitTimerStart' = now /\ clobbered' = clobbered \cup Written
        /\ requests' = IF requests < ARP_TIMEOUT_COUNT THEN requests + 1 ELSE requests
        /\ since' = 0 /\ gap' = 0
        /\ UNCHANGED <<ping, net_state, NetArpWaitPacketIP, now, pings>>
    BY <1>4 DEF PollRetry, local_net_arp_request, Exhausted, NextTry
  <2>2. NetArpWaitTry' \in 0 .. ARP_TIMEOUT_COUNT - 1
    BY <2>1, ArpAssumption
  <2>3. requests' \in 0 .. ARP_TIMEOUT_COUNT
    BY <2>1, ArpAssumption
  <2> QED BY <1>1, <2>1, <2>2, <2>3
<1>5. CASE PollGiveUp
  <2>1. 0 \in 0 .. ARP_TIMEOUT_COUNT - 1
    BY ArpAssumption
  <2> QED BY <1>1, <1>5, <2>1 DEF PollGiveUp
<1>6. CASE Leave
  BY <1>6 DEF Leave, state
<1>7. CASE Tick
  <2>1. /\ now' = Succ(now) /\ UNCHANGED <<ping, state, clobbered, requests, pings>>
        /\ ping = "loop" => gap < MAX_GAP
        /\ \/ since' = (IF since < CAP THEN since + 1 ELSE since) /\ gap' = gap + 1 /\ ping = "loop"
           \/ UNCHANGED <<since, gap>>
    BY <1>7 DEF Tick
  <2>2. now' \in 0 .. WORD - 1
    BY <2>1, MinusInRange
  <2>3. since' \in 0 .. CAP /\ gap' \in 0 .. MAX_GAP
    BY <2>1, ArpAssumption
  <2> QED BY <2>1, <2>2, <2>3 DEF state
<1>8. CASE UNCHANGED pingVars
  BY <1>8 DEF pingVars, state
<1> QED BY <1>2, <1>3, <1>4, <1>5, <1>6, <1>7, <1>8 DEF PingNext, Poll

LEMMA TimerKept == PingTypeOK /\ TimerInv /\ [PingNext]_pingVars => TimerInv'
<1> SUFFICES ASSUME PingTypeOK, TimerInv, [PingNext]_pingVars, ping' = "loop"
             PROVE  (since = CAP \/ Minus(now, NetArpWaitTimerStart) <= since)'
  BY DEF TimerInv
<1>1. CASE PingSend \/ PollRetry
  <2>1. NetArpWaitTimerStart' = now /\ now' = now /\ since' = 0
    BY <1>1 DEF PingSend, PollRetry, local_net_arp_request
  <2>2. Minus(now, now) = 0
    BY ArpAssumption DEF PingTypeOK, Minus
  <2> QED BY <2>1, <2>2 DEF Minus
<1>2. CASE Tick
  <2>1. /\ ping = "loop" /\ now' = Succ(now) /\ NetArpWaitTimerStart' = NetArpWaitTimerStart
        /\ since' = IF since < CAP THEN since + 1 ELSE since
    BY <1>2 DEF Tick, state
  <2> DEFINE old == Minus(now, NetArpWaitTimerStart)
             new == Minus(Succ(now), NetArpWaitTimerStart)
  <2>2. old \in Nat /\ new \in Int /\ new <= old + 1
    BY MinusInRange, ArpAssumption DEF PingTypeOK
  <2>3. since = CAP \/ old <= since
    BY <2>1 DEF TimerInv
  <2>4. Minus(now, NetArpWaitTimerStart)' = new
    BY <2>1 DEF Minus
  <2> HIDE DEF old, new
  <2>5. PICK s : s = since'
    OBVIOUS
  <2>6. s = CAP \/ new <= s
    BY <2>1, <2>2, <2>3, <2>5, ArpAssumption DEF PingTypeOK
  <2> QED BY <2>4, <2>5, <2>6
<1>3. CASE PollNothing \/ PollGiveUp
  <2>1. ping = "loop" /\ UNCHANGED <<now, NetArpWaitTimerStart, since>>
    BY <1>3 DEF PollNothing, PollGiveUp, state
  <2> QED BY <2>1 DEF TimerInv, Minus
<1>4. CASE Leave
  BY <1>4 DEF Leave
<1>5. CASE UNCHANGED pingVars
  <2>1. ping = "loop" /\ UNCHANGED <<now, NetArpWaitTimerStart, since>>
    BY <1>5 DEF pingVars, state
  <2> QED BY <2>1 DEF TimerInv, Minus
<1> QED BY <1>1, <1>2, <1>3, <1>4, <1>5 DEF PingNext, Poll

\* The counters of the ping keep their ranges: the tries never pass their limit (net.c),
\* and the timer's start is a value of the counter.
THEOREM ArpTypes == PingSpec => []PingTypeOK
<1>1. PingInit => PingTypeOK
  BY ArpAssumption DEF PingInit, PingTypeOK
<1> QED BY <1>1, TypesKept, PTL DEF PingSpec

\* Two ARP requests of a ping are a whole timeout apart, wherever the counter stands and
\* wraps (net.c: local_net_arp_timeout_check).
THEOREM RequestsSpacedEver == PingSpec => RequestsSpaced
<1>1. PingInit => TimerInv
  BY DEF PingInit, TimerInv
<1>2. PingSpec => []TimerInv
  BY <1>1, ArpTypes, TimerKept, PTL DEF PingSpec
<1>3. PingTypeOK /\ TimerInv /\ [PingNext]_pingVars
        => [requests' > requests /\ requests' > 1 => since > ARP_TIMEOUT * MS]_pingVars
  <2> SUFFICES ASSUME PingTypeOK, TimerInv, PingNext, requests' > requests, requests' > 1
               PROVE  since > ARP_TIMEOUT * MS
    OBVIOUS
  <2>1. CASE PollRetry
    <3> DEFINE elapsed == Minus(now, NetArpWaitTimerStart)
    <3>1. elapsed \in Nat /\ elapsed \div MS > ARP_TIMEOUT /\ ping = "loop"
      BY <2>1, MinusInRange DEF PollRetry, TimedOut, PingTypeOK
    <3> HIDE DEF elapsed
    <3>2. elapsed > ARP_TIMEOUT * MS
      BY <3>1, WholeUnits, ArpAssumption
    <3>3. since = CAP \/ elapsed <= since
      BY <3>1 DEF TimerInv, elapsed
    <3>4. PICK limit \in Int : limit = ARP_TIMEOUT * MS
      BY ArpAssumption
    <3>5. (ARP_TIMEOUT + 1) * MS = limit + MS
      BY <3>4, ArpAssumption
    <3>6. CAP > limit
      BY <3>5, ArpAssumption
    <3> QED BY <3>1, <3>2, <3>3, <3>4, <3>6, ArpAssumption DEF PingTypeOK
  <2>2. CASE PingSend
    BY <2>2 DEF PingSend
  <2>3. CASE PollNothing \/ PollGiveUp \/ Leave \/ Tick
    <3>1. requests' = requests
      BY <2>3 DEF PollNothing, PollGiveUp, Leave, Tick
    <3> QED BY <3>1 DEF PingTypeOK
  <2> QED BY <2>1, <2>2, <2>3 DEF PingNext, Poll
<1> QED BY <1>2, <1>3, ArpTypes, PTL DEF PingSpec, RequestsSpaced
=============================================================================
