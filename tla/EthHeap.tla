------------------------------ MODULE EthHeap -------------------------------
(***************************************************************************)
(* The packet heap of the Ethernet driver (src/drv/drv_eth.c): an array of *)
(* NET_PKT_COUNT descriptors, one per 2 KB packet, chained into a list of  *)
(* free packets.  A packet is taken from next_alloc_item and given back    *)
(* behind next_free_item.  A packet is named by the index of its           *)
(* descriptor; an address inside packet i stands for i, as the division by *)
(* NET_PKT_MAX_SIZE in drv_eth_heap_free makes of it.                      *)
(*                                                                         *)
(* The counters stats_alloc and stats_free are only printed: they are left *)
(* out, their difference stats_balance is kept.                            *)
(***************************************************************************)
EXTENDS Integers, Sequences, FiniteSets

CONSTANT NET_PKT_COUNT          \* descriptors in the heap

ASSUME PktCountAssumption == NET_PKT_COUNT \in Nat \ {0}

Items == 0 .. NET_PKT_COUNT - 1

\* Returned pointers and codes.  They are numbers that are no index.
NULL    == -1
FAILURE == -2
SUCCESS == -3

VARIABLES next,             \* list[i].next
          status,           \* list[i].status
          next_alloc_item,
          next_free_item,
          stats_balance,
          result,           \* what the last call returned
          fifo              \* auxiliary: the packets in the order in which the
                            \* list should hand them out

links    == <<next, status, next_alloc_item, next_free_item, stats_balance>>
heapVars == <<links, result, fifo>>

held == {i \in Items : status[i] = 1}

-----------------------------------------------------------------------------
\* Faulty variants of definitions below, by which it is checked that the
\* properties can fail: an allocation forgets the status, a free does not look at
\* it, a freed descriptor keeps its old link.
NotMarked             == status
InRangeOnly(p)        == p \in Items
KeepOldLink(p)        == [next EXCEPT ![next_free_item] = p]

-----------------------------------------------------------------------------
\* drv_eth_heap_init: the descriptors are chained in the order of the array.
InitialLink(i) == IF i = NET_PKT_COUNT - 1 THEN NULL ELSE i + 1

HeapInit ==
  /\ next = [i \in Items |-> InitialLink(i)]
  /\ status = [i \in Items |-> 0]
  /\ next_alloc_item = 0
  /\ next_free_item = NET_PKT_COUNT - 1
  /\ stats_balance = 0
  /\ result = SUCCESS
  /\ fifo = [i \in 1 .. NET_PKT_COUNT |-> i - 1]

MarkUsed == [status EXCEPT ![next_alloc_item] = 1]

\* drv_eth_heap_alloc when the list has a head ...
HeapAlloc ==
  /\ next_alloc_item # NULL
  /\ result' = next_alloc_item
  /\ status' = MarkUsed
  /\ next_alloc_item' = next[next_alloc_item]
  /\ stats_balance' = stats_balance + 1
  /\ fifo' = Tail(fifo)
  /\ UNCHANGED <<next, next_free_item>>

\* ... and when it has none ("network heap is full").
HeapAllocNone ==
  /\ next_alloc_item = NULL
  /\ result' = NULL
  /\ UNCHANGED <<links, fifo>>

\* What drv_eth_heap_free checks: the address is in the storage and its packet in
\* use.
InUse(p) == p \in Items /\ status[p] # 0

\* The two writes to next in drv_eth_heap_free, in their order: the freed
\* descriptor ends the list, then the last one points to it.  When both are the
\* same descriptor, the second write wins and the descriptor points to itself.
LinkFreed(p) == [[next EXCEPT ![p] = NULL] EXCEPT ![next_free_item] = p]

\* drv_eth_heap_free of an address inside packet p.
HeapFree(p) ==
  /\ InUse(p)
  /\ next' = LinkFreed(p)
  /\ status' = [status EXCEPT ![p] = 0]
  /\ next_free_item' = p
  /\ stats_balance' = stats_balance - 1
  /\ result' = SUCCESS
  /\ fifo' = IF fifo = << >> THEN fifo ELSE Append(fifo, p)
  /\ UNCHANGED next_alloc_item

\* drv_eth_heap_free of an address outside the storage, or of a packet that is
\* not in use ("double free operation: blocked").
HeapFreeRefused(p) ==
  /\ ~InUse(p)
  /\ result' = FAILURE
  /\ UNCHANGED <<links, fifo>>

-----------------------------------------------------------------------------
\* The heap by itself: any caller, any sequence of calls, any argument.
Init == HeapInit

Next == \/ HeapAlloc
        \/ HeapAllocNone
        \/ \E p \in Items : HeapFree(p)
        \/ \E p \in Items \cup {NULL} : HeapFreeRefused(p)

Spec == Init /\ [][Next]_heapVars

-----------------------------------------------------------------------------
HeapTypeOK ==
  /\ next \in [Items -> Items \cup {NULL}]
  /\ status \in [Items -> {0, 1}]
  /\ next_alloc_item \in Items \cup {NULL}
  /\ next_free_item \in Items
  /\ stats_balance \in Int
  /\ result \in Items \cup {NULL, FAILURE, SUCCESS}
  /\ fifo \in Seq(Items)

\* The pointers spell out the queue: the head is its first packet, every link
\* leads to the packet behind, the free pointer is on its last packet, which
\* ends the list, and no packet is on the list twice or while it is in use.
FreeListSpellsQueue ==
  /\ next_alloc_item = IF fifo = << >> THEN NULL ELSE fifo[1]
  /\ fifo # << >> => /\ next_free_item = fifo[Len(fifo)]
                     /\ next[next_free_item] = NULL
  /\ \A i \in 1 .. Len(fifo) - 1 : next[fifo[i]] = fifo[i + 1]
  /\ \A i, j \in 1 .. Len(fifo) : fifo[i] = fifo[j] => i = j
  /\ \A i \in 1 .. Len(fifo) : status[fifo[i]] = 0

\* While the list has a head, every packet that is not in use is on the list:
\* none is lost by any order of allocations and frees.
NoFreePacketLost ==
  next_alloc_item # NULL =>
    \A p \in Items : status[p] = 0 => \E i \in 1 .. Len(fifo) : fifo[i] = p

\* stats_balance is the number of packets in use.
BalanceCountsHeld == stats_balance = Cardinality(held)

\* A packet is handed out only while nobody holds it, whatever was freed, or
\* freed twice, before.
NeverHandedOutTwice == [][HeapAlloc => status[next_alloc_item] = 0]_heapVars

\* The list implements the abstract pool.
Pool == INSTANCE PacketPool WITH queue <- fifo
PoolSpec == Pool!Spec
=============================================================================
