------------------------------ MODULE SysHeap -------------------------------
(***************************************************************************)
(* The system heap (src/sys/heap/sys_heap.c): the storage is cut into      *)
(* blocks, kept in address order in a circular doubly linked list that     *)
(* starts with the block of the header.  The descriptors of the other      *)
(* blocks come from a fixed array, chained into a list of spare ones.      *)
(*                                                                         *)
(* Block HEAD is hp->current_block; block n > 0 is descriptor n of the     *)
(* array.  Descriptor 0 of the array only holds the head of the list of    *)
(* spare descriptors: the field spare.  Addresses and sizes are numbers;   *)
(* a size is a word of WORD values, as the U32 of the code.                *)
(***************************************************************************)
EXTENDS Integers, FiniteSets

CONSTANTS blocks_count,     \* descriptors in the array
          storage,          \* address of the storage
          storage_size,     \* its length
          alignment,        \* a power of two
          WORD,             \* 2^32
          Sizes             \* sizes that are asked for: at least a byte, as all
                            \* callers do, and none that wraps in ROUND_UP

ASSUME SizeAssumption ==
  /\ blocks_count \in Nat \ {0}
  /\ storage \in Nat \ {0}
  /\ alignment \in Nat \ {0}
  /\ storage_size \in Nat \ {0} /\ storage_size % alignment = 0
  /\ WORD % alignment = 0 /\ storage + storage_size < WORD
  /\ WORD \in Nat /\ Sizes \subseteq 1 .. WORD - alignment

HEAD    == 0
Blocks  == 0 .. blocks_count - 1
NULL    == 0                \* as an address
NONE    == -1               \* as a pointer to a block
SUCCESS == -1
FAILURE == -2

VARIABLES heap,             \* the blocks: a record of the fields of HEAPBLOCK,
                            \* each a function of the block, and of spare
          result            \* what the last call returned

vars == <<heap, result>>

-----------------------------------------------------------------------------
\* Faulty variants of definitions below, by which it is checked that the
\* properties can fail: a search that wants more room than it needs, a
\* merge that goes past the end of the storage, a merge that loses the descriptor, a free that never merges with the block in front.
FitsWithSlack(b, size) == ~heap.used[b] /\ heap.size[b] > size
AbsorbLosesDescriptor(h, b, n) ==
  [h EXCEPT !.next[b] = h.next[n],
            !.size[b] = @ + h.size[n],
            !.prev[h.next[n]] = b]
NextMergesHead(h, b) == ~h.used[h.next[b]]
PrevNeverMerges(h, b) == FALSE

-----------------------------------------------------------------------------
\* ROUND_UP of sys_utils.h: (v + b - 1) & ~(b - 1) in 32 bits.
ROUND_UP(v) == LET w == (v + alignment - 1) % WORD IN w - (w % alignment)

\* sys_heap_init: the whole storage is one free block, all descriptors are spare.
InitialHeap ==
  [next   |-> [b \in Blocks |-> IF b = HEAD THEN HEAD
                                ELSE IF b = blocks_count - 1 THEN NONE ELSE b + 1],
   prev   |-> [b \in Blocks |-> IF b = HEAD THEN HEAD ELSE NONE],
   buffer |-> [b \in Blocks |-> IF b = HEAD THEN storage ELSE NULL],
   size   |-> [b \in Blocks |-> IF b = HEAD THEN storage_size ELSE 0],
   used   |-> [b \in Blocks |-> FALSE],
   spare  |-> IF blocks_count = 1 THEN NONE ELSE 1]

\* The loops of the code follow next_block from a block on, until they are back
\* where they began, at the end of the chain, or at a block in stop.  The blocks
\* they meet are the least set that holds the first one and, with every block
\* that is not in stop, the next one.
FollowsNext(next, from, stop, S) ==
  /\ from \in Blocks => from \in S
  /\ \A b \in S \ stop : next[b] \in Blocks => next[b] \in S

Met(next, from, stop) ==
  {b \in Blocks : \A S \in SUBSET Blocks : FollowsNext(next, from, stop, S) => b \in S}

InList(h)     == Met(h.next, HEAD, {})
SpareChain(h) == Met(h.next, h.spare, {})

\* The block at which the loop stops: the first of the list that is in wanted;
\* the set is empty if there is none.
First(h, wanted) == Met(h.next, HEAD, wanted) \cap wanted

-----------------------------------------------------------------------------
Fits(b, size) == ~heap.used[b] /\ heap.size[b] >= size

FirstFit(size) == First(heap, {b \in Blocks : Fits(b, size)})

\* The rest of a block that is larger than the request becomes a block of its own.
Split(h, b, size) ==
  LET new_block == h.spare  next_block == h.next[b] IN
  [next   |-> [h.next EXCEPT ![new_block] = next_block, ![b] = new_block],
   prev   |-> [h.prev EXCEPT ![new_block] = b, ![next_block] = new_block],
   buffer |-> [h.buffer EXCEPT ![new_block] = h.buffer[b] + size],
   size   |-> [h.size EXCEPT ![new_block] = h.size[b] - size, ![b] = size],
   used   |-> [h.used EXCEPT ![new_block] = FALSE, ![b] = TRUE],
   spare  |-> h.next[new_block]]

\* sys_heap_alloc: the first block b that fits is taken whole, ...
AllocExact(b, size) ==
  /\ heap.size[b] = size
  /\ heap' = [heap EXCEPT !.used[b] = TRUE]
  /\ result' = heap.buffer[b]

\* ... or split, ...
AllocSplit(b, size) ==
  /\ heap.size[b] # size
  /\ heap.spare # NONE
  /\ heap' = Split(heap, b, size)
  /\ result' = heap.buffer[b]

\* ... or returned as it is and left free, when no descriptor is left for the
\* rest of it ("no blocks").
AllocNoBlocks(b, size) ==
  /\ heap.size[b] # size
  /\ heap.spare = NONE
  /\ result' = heap.buffer[b]
  /\ UNCHANGED heap

\* There is "no mem" when no block fits.
AllocNoMem(size) ==
  /\ FirstFit(size) = {}
  /\ result' = NULL
  /\ UNCHANGED heap

sys_heap_alloc(size) ==
  LET rounded == ROUND_UP(size)
  IN  \/ \E b \in FirstFit(rounded) : \/ AllocExact(b, rounded)
                                      \/ AllocSplit(b, rounded)
                                      \/ AllocNoBlocks(b, rounded)
      \/ AllocNoMem(rounded)

-----------------------------------------------------------------------------
\* Block n, which follows b, becomes part of b; its descriptor is spare again.
\* The code leaves the other fields of a spare descriptor as they are and Split
\* sets all of them before they are read; here they are cleared, to be equal.
Absorb(h, b, n) ==
  [next   |-> [h.next EXCEPT ![b] = h.next[n], ![n] = h.spare],
   prev   |-> [h.prev EXCEPT ![h.next[n]] = b, ![n] = NONE],
   buffer |-> [h.buffer EXCEPT ![n] = NULL],
   size   |-> [h.size EXCEPT ![b] = @ + h.size[n], ![n] = 0],
   used   |-> [h.used EXCEPT ![n] = FALSE],
   spare  |-> n]

NextMerges(h, b) == ~h.used[h.next[b]] /\ h.next[b] # HEAD
PrevMerges(h, b) == ~h.used[h.prev[b]] /\ b # HEAD

\* The freed block takes in the free block behind it, then the free block before
\* it takes in the freed one.
MergeNext(h, b) == IF NextMerges(h, b) THEN Absorb(h, b, h.next[b]) ELSE h
MergePrev(h, b) == IF PrevMerges(h, b) THEN Absorb(h, h.prev[b], b)
                   ELSE [h EXCEPT !.used[b] = FALSE]

\* sys_heap_free: the first block b that starts at ptr is released, ...
FreeBlock(b) ==
  /\ heap.used[b]
  /\ heap' = MergePrev(MergeNext(heap, b), b)
  /\ result' = SUCCESS

\* ... one that is free already is left alone, with SUCCESS.
FreeTwice(b) ==
  /\ ~heap.used[b]
  /\ result' = SUCCESS
  /\ UNCHANGED heap

BlockAt(ptr) == First(heap, {b \in Blocks : heap.buffer[b] = ptr})

\* Any other pointer is refused.
FreeUnknown(ptr) ==
  /\ ptr = NULL \/ BlockAt(ptr) = {}
  /\ result' = FAILURE
  /\ UNCHANGED heap

sys_heap_free(ptr) ==
  \/ ptr # NULL /\ \E b \in BlockAt(ptr) : FreeBlock(b) \/ FreeTwice(b)
  \/ FreeUnknown(ptr)

Init == heap = InitialHeap /\ result = SUCCESS

\* Any pointer may be freed: one that was returned, one freed before, any other.
Pointers == {NULL} \cup (storage .. storage + storage_size)

Next == \/ \E size \in Sizes : sys_heap_alloc(size)
        \/ \E ptr \in Pointers : sys_heap_free(ptr)

Spec == Init /\ [][Next]_vars

-----------------------------------------------------------------------------
\* Walking the list visits the storage from its first to its last address: each
\* block starts where the one before it ends, and the last ends the storage.
BlocksTileStorage ==
  /\ heap.buffer[HEAD] = storage
  /\ \A b \in InList(heap) :
       LET end == heap.buffer[b] + heap.size[b] IN
       IF heap.next[b] = HEAD THEN end = storage + storage_size
       ELSE heap.buffer[heap.next[b]] = end

\* The two directions of the list agree.
BackLinksAgree == \A b \in InList(heap) : heap.prev[heap.next[b]] = b

\* A descriptor is in the list of blocks or on the list of spare ones, never in
\* both, and none is lost.
DescriptorsConserved ==
  /\ InList(heap) \cap SpareChain(heap) = {}
  /\ InList(heap) \cup SpareChain(heap) = Blocks

\* No two free blocks are neighbours: a free merges all it can.
FreeBlocksMerged ==
  \A b \in InList(heap) :
    heap.next[b] # HEAD => heap.used[b] \/ heap.used[heap.next[b]]

\* A block that is handed out is aligned as the cache line asks for.
BlocksAligned == \A b \in InList(heap) : heap.buffer[b] % alignment = storage % alignment

\* The three together, after any sequence of splits and merges.
HeapIntact == BlocksTileStorage /\ BackLinksAgree /\ BlocksAligned

\* Who gets a pointer owns the block behind it: a request is answered with NULL or
\* with a block that is marked, starts there and is as large as was asked for.
CallerOwnsBlock ==
  [][\A size \in Sizes : sys_heap_alloc(size) =>
       \/ result' = NULL
       \/ \E b \in InList(heap') : /\ heap'.buffer[b] = result'
                                   /\ heap'.used[b]
                                   /\ heap'.size[b] >= size]_vars

\* The heap implements the lowest-fit allocator, as long as a descriptor is left
\* whenever one is needed.
Allocations == {[addr |-> heap.buffer[b], len |-> heap.size[b]] :
                  b \in {x \in InList(heap) : heap.used[x]}}
Allocator == INSTANCE LowestFit WITH
               inUse <- Allocations, Start <- storage, End <- storage + storage_size,
               Lengths <- {ROUND_UP(s) : s \in Sizes}
AllocatorSpec == Allocator!Spec
=============================================================================
