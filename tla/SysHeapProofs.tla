--------------------------- MODULE SysHeapProofs ----------------------------
(***************************************************************************)
(* Proofs about the system heap: what the list of blocks is for every      *)
(* number of descriptors, every storage, every alignment and every         *)
(* sequence of calls, and that the heap implements LowestFit.              *)
(***************************************************************************)
EXTENDS SysHeap, TLAPS, FiniteSetTheorems, WellFoundedInduction

-----------------------------------------------------------------------------
(***************************************************************************)
(* Arithmetic of the alignment.                                            *)
(***************************************************************************)
LEMMA Multiple == \A a \in Int, n \in Nat \ {0} : a % n = 0 => \E q \in Int : a = n * q
OBVIOUS

LEMMA Remainder ==
  \A q, r \in Int, n \in Nat \ {0} : 0 <= r /\ r < n => (n * q + r) % n = r
OBVIOUS

LEMMA RemainderRange == \A a \in Int, n \in Nat \ {0} : a % n \in 0 .. n - 1
OBVIOUS

LEMMA MinusRemainder == \A a \in Int, n \in Nat \ {0} : (a - (a % n)) % n = 0
OBVIOUS

LEMMA Distributive == \A a, b, n \in Int : n * a + n * b = n * (a + b)
OBVIOUS

LEMMA Division ==
  ASSUME NEW a \in Int, NEW n \in Nat \ {0}
  PROVE  \E q, r \in Int : r = a % n /\ 0 <= r /\ r < n /\ a = n * q + r
<1>1. PICK r \in Int : r = a % n
  BY ONLY RemainderRange, a \in Int, n \in Nat \ {0}
<1>2. 0 <= r /\ r < n
  BY ONLY <1>1, RemainderRange, a \in Int, n \in Nat \ {0}
<1>3. PICK q \in Int : a - r = n * q
  <2>1. (a - r) % n = 0
    BY ONLY <1>1, MinusRemainder, a \in Int, n \in Nat \ {0}
  <2>2. a - r \in Int
    BY ONLY a \in Int, r \in Int
  <2>. QED  BY ONLY <2>1, <2>2, Multiple, n \in Nat \ {0}
<1>4. a = n * q + r
  <2>1. n * q \in Int
    BY ONLY n \in Nat \ {0}, q \in Int
  <2>. QED  BY ONLY <1>3, <2>1, a \in Int, r \in Int
<1>. QED  BY ONLY <1>1, <1>2, <1>4, r \in Int, q \in Int

\* A multiple of the alignment leaves the remainder of an address as it is.
LEMMA PlusMultiple ==
  ASSUME NEW a \in Int, NEW b \in Int, NEW n \in Nat \ {0}, b % n = 0
  PROVE  (a + b) % n = a % n
<1>1. PICK q \in Int, r \in Int : r = a % n /\ 0 <= r /\ r < n /\ a = n * q + r
  BY ONLY Division, a \in Int, n \in Nat \ {0}
<1>2. PICK p \in Int : b = n * p
  BY ONLY Multiple, b \in Int, n \in Nat \ {0}, b % n = 0
<1>3. a + b = n * (q + p) + r
  <2>1. n * q \in Int /\ n * p \in Int
    BY ONLY n \in Nat \ {0}, q \in Int, p \in Int
  <2>2. a + b = (n * q + n * p) + r
    BY ONLY <1>1, <1>2, <2>1, r \in Int
  <2>. QED  BY ONLY <2>2, Distributive, q \in Int, p \in Int, n \in Nat \ {0}
<1>4. (n * (q + p) + r) % n = r
  <2>1. q + p \in Int
    BY ONLY q \in Int, p \in Int
  <2>. QED  BY ONLY <1>1, <2>1, Remainder, r \in Int, n \in Nat \ {0}
<1>. QED  BY ONLY <1>1, <1>3, <1>4

LEMMA MinusMultiple ==
  ASSUME NEW a \in Int, NEW b \in Int, NEW n \in Nat \ {0}, b % n = 0
  PROVE  (a - b) % n = a % n
<1>1. PICK c \in Int : c = a - b
  OBVIOUS
<1>2. (c + b) % n = c % n
  BY ONLY PlusMultiple, c \in Int, b \in Int, n \in Nat \ {0}, b % n = 0
<1>3. c + b = a
  BY ONLY <1>1, a \in Int, b \in Int, c \in Int
<1>. QED  BY ONLY <1>1, <1>2, <1>3

LEMMA SmallRemainder ==
  ASSUME NEW a \in Nat, NEW n \in Nat \ {0}, a < n
  PROVE  a % n = a
<1>1. (n * 0 + a) % n = a
  BY ONLY Remainder, 0 \in Int, a \in Int, n \in Nat \ {0}, 0 <= a, a < n
<1>2. n * 0 + a = a
  OBVIOUS
<1>. QED  BY ONLY <1>1, <1>2

LEMMA PositiveMultiple ==
  ASSUME NEW a \in Nat, NEW n \in Nat \ {0}, a >= n
  PROVE  a - (a % n) \in Nat /\ a - (a % n) > 0
BY RemainderRange

\* What is asked for rounds up to a positive multiple of the alignment.
LEMMA RoundUp ==
  ASSUME NEW v \in Sizes
  PROVE  /\ ROUND_UP(v) \in Nat /\ ROUND_UP(v) > 0 /\ ROUND_UP(v) >= v
         /\ ROUND_UP(v) % alignment = 0
<1>1. PICK w \in Nat : w = v + alignment - 1 /\ w >= alignment /\ w < WORD
  BY SizeAssumption
<1>2. alignment \in Nat \ {0} /\ WORD \in Nat \ {0}
  BY <1>1, SizeAssumption
<1>3. w % WORD = w
  BY ONLY <1>1, <1>2, SmallRemainder, w \in Nat
<1>4. ROUND_UP(v) = w - (w % alignment)
  BY ONLY <1>1, <1>3 DEF ROUND_UP
<1>5. (w - (w % alignment)) % alignment = 0
  BY ONLY <1>2, MinusRemainder, w \in Int
<1>6. w - (w % alignment) \in Nat /\ w - (w % alignment) > 0
  BY ONLY <1>1, <1>2, PositiveMultiple, w \in Nat
<1>7. w - (w % alignment) >= v
  <2>1. v \in Int
    BY SizeAssumption
  <2>2. PICK c \in Int : c = w % alignment /\ c <= alignment - 1
    BY ONLY <1>2, RemainderRange, w \in Int
  <2>. QED  BY ONLY <1>1, <1>2, <2>1, <2>2, w \in Int
<1>. QED  BY ONLY <1>4, <1>5, <1>6, <1>7

\* Two addresses with the same remainder are a multiple of the alignment apart.
LEMMA SameRemainder ==
  ASSUME NEW a \in Int, NEW b \in Int, NEW n \in Nat \ {0}, a % n = b % n
  PROVE  \E q \in Int : a - b = n * q
<1>1. PICK q1 \in Int, r1 \in Int : r1 = a % n /\ a = n * q1 + r1
  BY ONLY Division, a \in Int, n \in Nat \ {0}
<1>2. PICK q2 \in Int, r2 \in Int : r2 = b % n /\ b = n * q2 + r2
  BY ONLY Division, b \in Int, n \in Nat \ {0}
<1>3. r1 = r2
  BY ONLY <1>1, <1>2, a % n = b % n
<1>4. n * q1 \in Int /\ n * q2 \in Int
  BY ONLY n \in Nat \ {0}, q1 \in Int, q2 \in Int
<1>5. a - b = n * q1 - n * q2
  BY ONLY <1>1, <1>2, <1>3, <1>4, r1 \in Int
<1>6. n * q1 - n * q2 = n * (q1 - q2)
  BY ONLY n \in Nat \ {0}, q1 \in Int, q2 \in Int
<1>7. q1 - q2 \in Int
  BY ONLY q1 \in Int, q2 \in Int
<1>. QED  BY ONLY <1>5, <1>6, <1>7

LEMMA FewerMultiples ==
  ASSUME NEW q \in Int, NEW m \in Nat, NEW n \in Nat \ {0}, 0 <= n * q, n * q < n * m
  PROVE  q \in 0 .. m - 1
<1>1. q >= 0
  <2>1. q < 0 => n * q < 0
    BY ONLY q \in Int, n \in Nat \ {0}
  <2>. QED  BY <2>1
<1>2. q < m
  <2>1. q >= m => n * q >= n * m
    BY ONLY q \in Int, m \in Nat, n \in Nat \ {0}
  <2>. QED  BY <2>1
<1>. QED  BY <1>1, <1>2

\* A set of numbers that is not empty has a least one.
LEMMA LeastNumber ==
  ASSUME NEW S \in SUBSET Nat, S # {}
  PROVE  \E x \in S : \A y \in S : x <= y
<1>1. IsWellFoundedOn({p \in Nat \X Nat : p[1] < p[2]}, Nat)
  BY NatLessThanWellFounded DEF OpToRel
<1>2. PICK x \in S : \A y \in S : ~(<<y, x>> \in {p \in Nat \X Nat : p[1] < p[2]})
  BY ONLY <1>1, WFMin, S \subseteq Nat, S # {}
<1>3. \A y \in S : ~(y < x)
  BY <1>2
<1>. QED  BY <1>3

-----------------------------------------------------------------------------
(***************************************************************************)
(* Following next_block.                                                   *)
(***************************************************************************)

\* The blocks that are met do hold the next one of each.
LEMMA MetFollows ==
  ASSUME NEW next, NEW from, NEW stop
  PROVE  /\ Met(next, from, stop) \in SUBSET Blocks
         /\ FollowsNext(next, from, stop, Met(next, from, stop))
BY DEF Met, FollowsNext

\* They are the least such set.
LEMMA MetLeast ==
  ASSUME NEW next, NEW from, NEW stop, NEW S \in SUBSET Blocks,
         FollowsNext(next, from, stop, S)
  PROVE  Met(next, from, stop) \subseteq S
BY DEF Met

\* A walk that stops meets only blocks that a walk that goes on meets too.
LEMMA MetStopped ==
  ASSUME NEW next, NEW from, NEW stop
  PROVE  Met(next, from, stop) \subseteq Met(next, from, {})
<1>1. FollowsNext(next, from, {}, Met(next, from, {}))
  BY MetFollows
<1>2. FollowsNext(next, from, stop, Met(next, from, {}))
  BY <1>1 DEF FollowsNext
<1>. QED  BY <1>2, MetFollows, MetLeast

\* A walk that met no block at which it stops has met them all.
LEMMA MetToTheEnd ==
  ASSUME NEW next, NEW from, NEW stop, Met(next, from, stop) \cap stop = {}
  PROVE  Met(next, from, {}) \subseteq Met(next, from, stop)
<1>1. FollowsNext(next, from, stop, Met(next, from, stop))
  BY MetFollows
<1>2. FollowsNext(next, from, {}, Met(next, from, stop))
  BY <1>1 DEF FollowsNext
<1>. QED  BY <1>2, MetFollows, MetLeast

-----------------------------------------------------------------------------
(***************************************************************************)
(* What the two operations write.                                          *)
(***************************************************************************)
HeapType == [next   : [Blocks -> Blocks \cup {NONE}],
             prev   : [Blocks -> Blocks \cup {NONE}],
             buffer : [Blocks -> Nat],
             size   : [Blocks -> Nat],
             used   : [Blocks -> BOOLEAN],
             spare  : Blocks \cup {NONE}]

\* The fields of g are those of h after block b was split at size, with s for
\* the rest, ...
IsSplit(h, b, s, size, g) ==
  /\ g \in HeapType
  /\ g.spare = h.next[s]
  /\ \A x \in Blocks :
       /\ g.next[x] = IF x = b THEN s ELSE IF x = s THEN h.next[b] ELSE h.next[x]
       /\ g.prev[x] = IF x = h.next[b] THEN s ELSE IF x = s THEN b ELSE h.prev[x]
       /\ g.buffer[x] = IF x = s THEN h.buffer[b] + size ELSE h.buffer[x]
       /\ g.size[x] = IF x = b THEN size
                      ELSE IF x = s THEN h.size[b] - size ELSE h.size[x]
       /\ g.used[x] <=> IF x = b THEN TRUE ELSE IF x = s THEN FALSE ELSE h.used[x]

\* ... or after block n became part of block b.
IsAbsorbed(h, b, n, g) ==
  /\ g \in HeapType
  /\ g.spare = n
  /\ \A x \in Blocks :
       /\ g.next[x] = IF x = n THEN h.spare ELSE IF x = b THEN h.next[n] ELSE h.next[x]
       /\ g.prev[x] = IF x = n THEN NONE ELSE IF x = h.next[n] THEN b ELSE h.prev[x]
       /\ g.buffer[x] = IF x = n THEN NULL ELSE h.buffer[x]
       /\ g.size[x] = IF x = n THEN 0
                      ELSE IF x = b THEN h.size[b] + h.size[n] ELSE h.size[x]
       /\ g.used[x] <=> IF x = n THEN FALSE ELSE h.used[x]

LEMMA SplitFields ==
  ASSUME NEW h \in HeapType, NEW b \in Blocks, NEW size \in Nat,
         h.spare \in Blocks, h.next[b] \in Blocks, size <= h.size[b]
  PROVE  IsSplit(h, b, h.spare, size, Split(h, b, size))
<1>. DEFINE s      == h.spare
            next   == [h.next EXCEPT ![s] = h.next[b], ![b] = s]
            prev   == [h.prev EXCEPT ![s] = b, ![h.next[b]] = s]
            buffer == [h.buffer EXCEPT ![s] = h.buffer[b] + size]
            sizes  == [h.size EXCEPT ![s] = h.size[b] - size, ![b] = size]
            used   == [h.used EXCEPT ![s] = FALSE, ![b] = TRUE]
            spare  == h.next[s]
            g      == Split(h, b, size)
<1>1. h.next \in [Blocks -> Blocks \cup {NONE}] /\ h.prev \in [Blocks -> Blocks \cup {NONE}]
  BY DEF HeapType
<1>2. h.buffer \in [Blocks -> Nat] /\ h.size \in [Blocks -> Nat] /\ h.used \in [Blocks -> BOOLEAN]
  BY DEF HeapType
<1>3. h.size[b] - size \in Nat /\ h.buffer[b] + size \in Nat
  BY <1>2
<1>4. /\ next \in [Blocks -> Blocks \cup {NONE}]
      /\ prev \in [Blocks -> Blocks \cup {NONE}]
      /\ spare \in Blocks \cup {NONE}
      /\ \A x \in Blocks :
           /\ next[x] = IF x = b THEN s ELSE IF x = s THEN h.next[b] ELSE h.next[x]
           /\ prev[x] = IF x = h.next[b] THEN s ELSE IF x = s THEN b ELSE h.prev[x]
  BY <1>1
<1>5. /\ buffer \in [Blocks -> Nat]
      /\ sizes \in [Blocks -> Nat]
      /\ \A x \in Blocks :
           /\ buffer[x] = IF x = s THEN h.buffer[b] + size ELSE h.buffer[x]
           /\ sizes[x] = IF x = b THEN size
                         ELSE IF x = s THEN h.size[b] - size ELSE h.size[x]
  BY <1>2, <1>3
<1>6. /\ used \in [Blocks -> BOOLEAN]
      /\ \A x \in Blocks : used[x] <=> IF x = b THEN TRUE ELSE IF x = s THEN FALSE ELSE h.used[x]
  BY <1>2
<1>7. g = [next |-> next, prev |-> prev, buffer |-> buffer, size |-> sizes, used |-> used,
           spare |-> spare]
  BY DEF Split
<1>8. spare = h.next[s]
  OBVIOUS
<1>. HIDE DEF g, s, next, prev, buffer, sizes, used, spare
<1>9. g \in HeapType
  BY <1>4, <1>5, <1>6, <1>7 DEF HeapType
<1>10. /\ g.next = next /\ g.prev = prev /\ g.buffer = buffer /\ g.size = sizes
       /\ g.used = used /\ g.spare = spare
  BY <1>7
<1>11. IsSplit(h, b, s, size, g)
  BY <1>4, <1>5, <1>6, <1>8, <1>9, <1>10 DEF IsSplit
<1>. QED  BY <1>11 DEF g, s

LEMMA AbsorbFields ==
  ASSUME NEW h \in HeapType, NEW b \in Blocks, NEW n \in Blocks, b # n,
         h.next[n] \in Blocks
  PROVE  IsAbsorbed(h, b, n, Absorb(h, b, n))
BY DEF HeapType, Absorb, NULL, IsAbsorbed

-----------------------------------------------------------------------------
(***************************************************************************)
(* The inductive invariant, of the heap h with the blocks L in its list    *)
(* and the descriptors C on its chain of spare ones.                       *)
(***************************************************************************)
End(h, b) == h.buffer[b] + h.size[b]

Linked(h, L) ==
  \A b \in L :
    /\ h.next[b] \in L /\ h.prev[b] \in L
    /\ h.prev[h.next[b]] = b /\ h.next[h.prev[b]] = b

Tiled(h, L) ==
  /\ h.buffer[HEAD] = storage
  /\ \A b \in L :
       /\ storage <= h.buffer[b] /\ End(h, b) <= storage + storage_size
       /\ h.size[b] > 0
       /\ h.next[b] = HEAD => End(h, b) = storage + storage_size
       /\ h.next[b] # HEAD => h.buffer[h.next[b]] = End(h, b)

Apart(h, L) ==
  \A a, b \in L : a # b => End(h, a) <= h.buffer[b] \/ End(h, b) <= h.buffer[a]

Aligned(h, L) ==
  \A b \in L : h.size[b] % alignment = 0 /\ h.buffer[b] % alignment = storage % alignment

Spared(h, L, C) ==
  /\ L \cap C = {} /\ L \cup C = Blocks
  /\ \A a \in C : h.next[a] \in Blocks => h.next[a] # h.spare
  /\ \A a, b \in C : a # b /\ h.next[a] \in Blocks => h.next[a] # h.next[b]

Intact(h, L, C) == /\ Linked(h, L)
                   /\ Tiled(h, L)
                   /\ Apart(h, L)
                   /\ Aligned(h, L)
                   /\ Spared(h, L, C)

Merged(h, L) == \A b \in L : h.next[b] # HEAD => h.used[b] \/ h.used[h.next[b]]

Sound(h) == /\ h \in HeapType
            /\ Intact(h, InList(h), SpareChain(h))
            /\ Merged(h, InList(h))

HeapInv == Sound(heap)

\* The blocks of the list that are handed out.
Taken(h) == {x \in InList(h) : h.used[x]}

-----------------------------------------------------------------------------
(***************************************************************************)
(* The list of blocks and the chain of spare descriptors, before and after *)
(* the two operations.                                                     *)
(***************************************************************************)
LEMMA ListFollows ==
  ASSUME NEW h
  PROVE  /\ HEAD \in Blocks /\ HEAD \in InList(h)
         /\ InList(h) \in SUBSET Blocks
         /\ \A b \in InList(h) : h.next[b] \in Blocks => h.next[b] \in InList(h)
<1>1. HEAD \in Blocks
  BY SizeAssumption DEF HEAD, Blocks
<1>. QED  BY <1>1, MetFollows DEF InList, FollowsNext

LEMMA ListLeast ==
  ASSUME NEW h, NEW S \in SUBSET Blocks, HEAD \in S,
         \A b \in S : h.next[b] \in Blocks => h.next[b] \in S
  PROVE  InList(h) \subseteq S
<1>1. FollowsNext(h.next, HEAD, {}, S)
  BY DEF FollowsNext
<1>. QED  BY <1>1, MetLeast DEF InList

LEMMA ChainFollows ==
  ASSUME NEW h
  PROVE  /\ h.spare \in Blocks => h.spare \in SpareChain(h)
         /\ SpareChain(h) \in SUBSET Blocks
         /\ \A b \in SpareChain(h) : h.next[b] \in Blocks => h.next[b] \in SpareChain(h)
BY MetFollows DEF SpareChain, FollowsNext

LEMMA ChainLeast ==
  ASSUME NEW h, NEW S \in SUBSET Blocks, h.spare \in Blocks => h.spare \in S,
         \A b \in S : h.next[b] \in Blocks => h.next[b] \in S
  PROVE  SpareChain(h) \subseteq S
<1>1. FollowsNext(h.next, h.spare, {}, S)
  BY DEF FollowsNext
<1>. QED  BY <1>1, MetLeast DEF SpareChain

\* A split puts the descriptor it takes from the chain into the list.
LEMMA SplitList ==
  ASSUME NEW h, NEW g, NEW b \in InList(h), NEW s \in SpareChain(h), NEW size,
         Linked(h, InList(h)), InList(h) \cap SpareChain(h) = {},
         IsSplit(h, b, s, size, g)
  PROVE  InList(g) = InList(h) \cup {s}
<1>. DEFINE L == InList(h)
<1>1. /\ b \in Blocks /\ s \in Blocks /\ s \notin L /\ s # b
      /\ L \in SUBSET Blocks /\ HEAD \in L
      /\ \A x \in L : h.next[x] \in L
  BY ListFollows, ChainFollows DEF Linked
<1>2. \A x \in Blocks : g.next[x] = IF x = b THEN s ELSE IF x = s THEN h.next[b] ELSE h.next[x]
  BY DEF IsSplit
<1>3. InList(g) \subseteq L \cup {s}
  <2>. DEFINE S == L \cup {s}
  <2>1. \A x \in S : g.next[x] \in S
    BY <1>1, <1>2
  <2>2. S \in SUBSET Blocks /\ HEAD \in S
    BY <1>1
  <2>. HIDE DEF S
  <2>3. InList(g) \subseteq S
    BY <2>1, <2>2, ListLeast
  <2>. QED  BY <2>3 DEF S
<1>. DEFINE T == InList(g) \cap L
<1>4. /\ HEAD \in InList(g) /\ InList(g) \in SUBSET Blocks
      /\ \A x \in InList(g) : g.next[x] \in Blocks => g.next[x] \in InList(g)
  BY ListFollows
<1>5. ASSUME NEW x \in T  PROVE h.next[x] \in T
  <2>1. h.next[x] \in L /\ h.next[x] \in Blocks
    BY <1>1
  <2>2. CASE x = b
    <3>1. s \in InList(g)
      BY <1>1, <1>2, <1>4, <2>2
    <3>2. g.next[s] = h.next[b]
      BY <1>1, <1>2
    <3>. QED  BY <1>4, <2>1, <2>2, <3>1, <3>2
  <2>3. CASE x # b
    <3>1. g.next[x] = h.next[x]
      BY <1>1, <1>2, <2>3
    <3>. QED  BY <1>4, <2>1, <3>1
  <2>. QED  BY <2>2, <2>3
<1>6. L \subseteq T
  BY <1>1, <1>4, <1>5, ListLeast
<1>7. s \in InList(g)
  <2>1. b \in InList(g)
    BY <1>6
  <2>. QED  BY <1>1, <1>2, <1>4, <2>1
<1>. QED  BY <1>3, <1>6, <1>7

\* It takes the first one, and loses none of the others.
LEMMA SplitChain ==
  ASSUME NEW h, NEW g, NEW b \in InList(h), NEW size, h.spare \in Blocks,
         Spared(h, InList(h), SpareChain(h)),
         IsSplit(h, b, h.spare, size, g)
  PROVE  SpareChain(g) = SpareChain(h) \ {h.spare}
<1>. DEFINE C == SpareChain(h)
            s == h.spare
<1>1. /\ b \in Blocks /\ b \notin C /\ s \in C /\ C \in SUBSET Blocks
      /\ \A x \in C : h.next[x] \in Blocks => h.next[x] \in C
      /\ \A x \in C : h.next[x] # s
  BY ListFollows, ChainFollows DEF Spared
<1>2. /\ g.spare = h.next[s]
      /\ \A x \in C \ {s} : g.next[x] = h.next[x]
  BY <1>1 DEF IsSplit
<1>3. SpareChain(g) \subseteq C \ {s}
  <2>1. \A x \in C \ {s} : g.next[x] \in Blocks => g.next[x] \in C \ {s}
    BY <1>1, <1>2
  <2>2. g.spare \in Blocks => g.spare \in C \ {s}
    BY <1>1, <1>2
  <2>. QED  BY <1>1, <2>1, <2>2, ChainLeast
<1>. DEFINE T == SpareChain(g) \cup {s}
<1>4. /\ g.spare \in Blocks => g.spare \in SpareChain(g)
      /\ SpareChain(g) \in SUBSET Blocks
      /\ \A x \in SpareChain(g) : g.next[x] \in Blocks => g.next[x] \in SpareChain(g)
  BY ChainFollows
<1>5. \A x \in T : h.next[x] \in Blocks => h.next[x] \in T
  BY <1>2, <1>3, <1>4
<1>6. T \in SUBSET Blocks /\ (h.spare \in Blocks => h.spare \in T)
  BY <1>1, <1>4
<1>. HIDE DEF T
<1>7. C \subseteq T
  BY <1>5, <1>6, ChainLeast
<1>. USE DEF T
<1>. QED  BY <1>3, <1>7

-----------------------------------------------------------------------------
(***************************************************************************)
(* A split keeps the heap intact.                                          *)
(***************************************************************************)
LEMMA FieldTypes ==
  ASSUME NEW h \in HeapType
  PROVE  /\ h.spare \in Blocks \cup {NONE}
         /\ \A x \in Blocks : /\ h.next[x] \in Blocks \cup {NONE}
                              /\ h.buffer[x] \in Nat /\ h.size[x] \in Nat
                              /\ h.used[x] \in BOOLEAN
BY DEF HeapType

LEMMA SplitLinked ==
  ASSUME NEW h, NEW g, NEW L \in SUBSET Blocks, NEW b \in L, NEW s \in Blocks \ L, NEW size,
         Linked(h, L), IsSplit(h, b, s, size, g)
  PROVE  Linked(g, L \cup {s})
<1>. DEFINE n == h.next[b]
<1>1. /\ n \in L /\ b # s /\ n # s
      /\ \A x \in L : x \in Blocks /\ h.next[x] \in L /\ h.prev[x] \in L
      /\ \A x \in L : h.prev[h.next[x]] = x /\ h.next[h.prev[x]] = x
  BY DEF Linked
<1>2. \A x \in Blocks :
        /\ g.next[x] = IF x = b THEN s ELSE IF x = s THEN n ELSE h.next[x]
        /\ g.prev[x] = IF x = n THEN s ELSE IF x = s THEN b ELSE h.prev[x]
  BY DEF IsSplit
<1>3. g.next[b] = s /\ g.prev[s] = b /\ g.next[s] = n /\ g.prev[n] = s
  BY <1>1, <1>2
<1>4. ASSUME NEW x \in L, x # b
      PROVE  g.next[x] \in L /\ g.prev[g.next[x]] = x
  <2>1. g.next[x] = h.next[x] /\ h.next[x] \in L /\ h.next[x] # n
    BY <1>1, <1>2, <1>4
  <2>. QED  BY <1>1, <1>2, <2>1
<1>5. ASSUME NEW x \in L, x # n
      PROVE  g.prev[x] \in L /\ g.next[g.prev[x]] = x
  <2>1. g.prev[x] = h.prev[x] /\ h.prev[x] \in L /\ h.prev[x] # b
    BY <1>1, <1>2, <1>5
  <2>. QED  BY <1>1, <1>2, <2>1
<1>. HIDE DEF n
<1>. QED  BY <1>1, <1>3, <1>4, <1>5 DEF Linked

LEMMA SplitTiled ==
  ASSUME NEW h \in HeapType, NEW g, NEW L \in SUBSET Blocks, HEAD \in L,
         NEW b \in L, NEW s \in Blocks \ L,
         NEW size \in Nat, 0 < size, size < h.size[b],
         Linked(h, L), Tiled(h, L), IsSplit(h, b, s, size, g)
  PROVE  Tiled(g, L \cup {s})
<1>1. /\ b # s /\ s # HEAD /\ h.buffer[HEAD] = storage
      /\ storage \in Nat /\ storage_size \in Nat
      /\ \A x \in L : /\ x \in Blocks /\ x # s /\ h.next[x] \in L
                      /\ h.buffer[x] \in Nat /\ h.size[x] \in Nat
  BY FieldTypes, SizeAssumption DEF Linked, Tiled
<1>2. \A x \in Blocks :
        /\ g.next[x] = IF x = b THEN s ELSE IF x = s THEN h.next[b] ELSE h.next[x]
        /\ g.buffer[x] = IF x = s THEN h.buffer[b] + size ELSE h.buffer[x]
        /\ g.size[x] = IF x = b THEN size ELSE IF x = s THEN h.size[b] - size ELSE h.size[x]
  BY DEF IsSplit
<1>3. \A x \in L :
        /\ storage <= h.buffer[x] /\ h.buffer[x] + h.size[x] <= storage + storage_size
        /\ h.size[x] > 0
        /\ h.next[x] = HEAD => h.buffer[x] + h.size[x] = storage + storage_size
        /\ h.next[x] # HEAD => h.buffer[h.next[x]] = h.buffer[x] + h.size[x]
  BY DEF Tiled, End
<1>4. g.buffer[HEAD] = storage
  BY <1>1, <1>2, HEAD \in L
<1>. DEFINE P(x) == /\ storage <= g.buffer[x]
                    /\ g.buffer[x] + g.size[x] <= storage + storage_size
                    /\ g.size[x] > 0
                    /\ g.next[x] = HEAD => g.buffer[x] + g.size[x] = storage + storage_size
                    /\ g.next[x] # HEAD => g.buffer[g.next[x]] = g.buffer[x] + g.size[x]
<1>5. P(b)
  BY <1>1, <1>2, <1>3
<1>6. P(s)
  <2>1. /\ g.next[s] = h.next[b] /\ h.next[b] \in L
        /\ g.buffer[s] = h.buffer[b] + size /\ g.size[s] = h.size[b] - size
    BY <1>1, <1>2
  <2>2. g.next[s] # HEAD => g.buffer[g.next[s]] = h.buffer[b] + h.size[b]
    BY <1>1, <1>2, <1>3, <2>1
  <2>3. g.buffer[s] + g.size[s] = h.buffer[b] + h.size[b]
    BY <1>1, <2>1
  <2>. QED  BY <1>1, <1>3, <2>1, <2>2, <2>3
<1>7. ASSUME NEW x \in L, x # b  PROVE P(x)
  <2>1. g.next[x] = h.next[x] /\ g.buffer[x] = h.buffer[x] /\ g.size[x] = h.size[x]
    BY <1>1, <1>2, <1>7
  <2>2. g.buffer[h.next[x]] = h.buffer[h.next[x]]
    BY <1>1, <1>2
  <2>. QED  BY <1>3, <2>1, <2>2
<1>. HIDE DEF P
<1>8. \A x \in L \cup {s} : P(x)
  BY <1>5, <1>6, <1>7
<1>. QED  BY <1>4, <1>8 DEF Tiled, End, P

LEMMA SplitApart ==
  ASSUME NEW h \in HeapType, NEW g, NEW L \in SUBSET Blocks, NEW b \in L, NEW s \in Blocks \ L,
         NEW size \in Nat, 0 < size, size < h.size[b],
         Apart(h, L), IsSplit(h, b, s, size, g)
  PROVE  Apart(g, L \cup {s})
<1>1. /\ b # s
      /\ \A x \in L : x \in Blocks /\ x # s /\ h.buffer[x] \in Nat /\ h.size[x] \in Nat
  BY FieldTypes
<1>2. /\ End(g, b) = h.buffer[b] + size /\ g.buffer[b] = h.buffer[b]
      /\ g.buffer[s] = h.buffer[b] + size /\ End(g, s) = End(h, b)
      /\ \A x \in L \ {b} : g.buffer[x] = h.buffer[x] /\ End(g, x) = End(h, x)
  BY <1>1 DEF IsSplit, End
<1>3. \A x \in L \ {b} : End(h, x) <= h.buffer[b] \/ End(h, b) <= h.buffer[x]
  BY DEF Apart
<1>4. \A x, y \in L \ {b} : x # y => End(h, x) <= h.buffer[y] \/ End(h, y) <= h.buffer[x]
  BY DEF Apart
<1>5. \A x \in L : End(h, x) = h.buffer[x] + h.size[x]
  BY DEF End
<1>6. SUFFICES ASSUME NEW x \in L \cup {s}, NEW y \in L \cup {s}, x # y
               PROVE  End(g, x) <= g.buffer[y] \/ End(g, y) <= g.buffer[x]
  BY DEF Apart
<1>7. CASE x \in L \ {b} /\ y \in L \ {b}
  BY <1>2, <1>4, <1>6, <1>7
<1>8. CASE x \in L \ {b} /\ y \in {b, s}
  BY <1>1, <1>2, <1>3, <1>5, <1>8
<1>9. CASE x \in {b, s} /\ y \in L \ {b}
  BY <1>1, <1>2, <1>3, <1>5, <1>9
<1>10. CASE x \in {b, s} /\ y \in {b, s}
  BY <1>1, <1>2, <1>6, <1>10
<1>. QED  BY <1>7, <1>8, <1>9, <1>10

LEMMA SplitAligned ==
  ASSUME NEW h \in HeapType, NEW g, NEW L \in SUBSET Blocks, NEW b \in L, NEW s \in Blocks \ L,
         NEW size \in Nat, size % alignment = 0,
         Aligned(h, L), IsSplit(h, b, s, size, g)
  PROVE  Aligned(g, L \cup {s})
<1>0. size \in Int /\ alignment \in Nat \ {0}
  BY SizeAssumption
<1>1. /\ b # s
      /\ \A x \in L : x \in Blocks /\ x # s /\ h.buffer[x] \in Nat /\ h.size[x] \in Nat
  BY FieldTypes
<1>2. \A x \in L : h.size[x] % alignment = 0 /\ h.buffer[x] % alignment = storage % alignment
  BY DEF Aligned
<1>3. (h.buffer[b] + size) % alignment = storage % alignment
  <2>1. PICK a \in Int : a = h.buffer[b]
    BY <1>1
  <2>2. (a + size) % alignment = a % alignment
    BY ONLY <1>0, a \in Int, size % alignment = 0, PlusMultiple
  <2>. QED  BY ONLY <1>2, <2>1, <2>2, b \in L
<1>4. (h.size[b] - size) % alignment = 0
  <2>1. PICK a \in Int : a = h.size[b]
    BY <1>1
  <2>2. (a - size) % alignment = a % alignment
    BY ONLY <1>0, a \in Int, size % alignment = 0, MinusMultiple
  <2>. QED  BY ONLY <1>2, <2>1, <2>2, b \in L
<1>5. /\ g.buffer[s] = h.buffer[b] + size /\ g.size[s] = h.size[b] - size
      /\ g.buffer[b] = h.buffer[b] /\ g.size[b] = size
      /\ \A x \in L \ {b} : g.buffer[x] = h.buffer[x] /\ g.size[x] = h.size[x]
  BY <1>1 DEF IsSplit
<1>6. \A x \in L \ {b} : g.size[x] % alignment = 0 /\ g.buffer[x] % alignment = storage % alignment
  BY ONLY <1>2, <1>5
<1>7. \A x \in {b, s} : g.size[x] % alignment = 0 /\ g.buffer[x] % alignment = storage % alignment
  BY ONLY <1>2, <1>3, <1>4, <1>5, size % alignment = 0, b \in L
<1>. QED  BY <1>6, <1>7 DEF Aligned

LEMMA SplitSpared ==
  ASSUME NEW h, NEW g, NEW L \in SUBSET Blocks, NEW C \in SUBSET Blocks,
         NEW b \in L, NEW s \in C, NEW size,
         Spared(h, L, C), IsSplit(h, b, s, size, g)
  PROVE  Spared(g, L \cup {s}, C \ {s})
<1>1. g.spare = h.next[s] /\ \A x \in C \ {s} : g.next[x] = h.next[x]
  BY DEF IsSplit, Spared
<1>2. \A x, y \in C : x # y /\ h.next[x] \in Blocks => h.next[x] # h.next[y]
  BY DEF Spared
<1>. QED  BY <1>1, <1>2 DEF Spared

LEMMA SplitIntact ==
  ASSUME NEW h \in HeapType, NEW g, NEW b \in InList(h), h.spare \in Blocks,
         NEW size \in Nat, 0 < size, size < h.size[b], size % alignment = 0,
         Intact(h, InList(h), SpareChain(h)), IsSplit(h, b, h.spare, size, g)
  PROVE  /\ InList(g) = InList(h) \cup {h.spare}
         /\ Intact(g, InList(g), SpareChain(g))
<1>. DEFINE L == InList(h)
            C == SpareChain(h)
            s == h.spare
<1>1. Linked(h, L) /\ Tiled(h, L) /\ Apart(h, L) /\ Aligned(h, L) /\ Spared(h, L, C)
  BY DEF Intact
<1>2. /\ L \in SUBSET Blocks /\ HEAD \in L
      /\ C \in SUBSET Blocks /\ s \in C
  BY ListFollows, ChainFollows
<1>3. L \cap C = {}
  BY <1>1 DEF Spared
<1>4. InList(g) = L \cup {s}
  BY <1>1, <1>2, <1>3, SplitList
<1>5. SpareChain(g) = C \ {s}
  BY <1>1, SplitChain
<1>6. s \in Blocks \ L
  BY <1>2, <1>3
<1>. HIDE DEF L, C, s
<1>7. b \in L /\ IsSplit(h, b, s, size, g)
  BY DEF L, s
<1>8. Linked(g, L \cup {s})
  BY ONLY <1>1, <1>2, <1>6, <1>7, SplitLinked
<1>9. Tiled(g, L \cup {s})
  BY <1>1, <1>2, <1>6, <1>7, SplitTiled
<1>10. Apart(g, L \cup {s})
  BY <1>1, <1>2, <1>6, <1>7, SplitApart
<1>11. Aligned(g, L \cup {s})
  BY <1>1, <1>2, <1>6, <1>7, SplitAligned
<1>12. Spared(g, L \cup {s}, C \ {s})
  BY ONLY <1>1, <1>2, <1>7, SplitSpared
<1>. QED  BY <1>4, <1>5, <1>8, <1>9, <1>10, <1>11, <1>12 DEF Intact, s, L

-----------------------------------------------------------------------------
(***************************************************************************)
(* So does a merge.                                                        *)
(***************************************************************************)

\* A block and the block behind it are two blocks, and so are that one and the
\* block behind it.
LEMMA Neighbours ==
  ASSUME NEW h \in HeapType, NEW L \in SUBSET Blocks, NEW b \in L, h.next[b] # HEAD,
         Linked(h, L), Tiled(h, L)
  PROVE  /\ h.next[b] \in L /\ h.next[b] # b
         /\ h.next[h.next[b]] \in L /\ h.next[h.next[b]] # h.next[b]
         /\ h.buffer[h.next[b]] = h.buffer[b] + h.size[b]
<1>1. \A x \in L : /\ x \in Blocks /\ h.next[x] \in L
                   /\ h.buffer[x] \in Nat /\ h.size[x] \in Nat /\ h.size[x] > 0
                   /\ h.next[x] # HEAD => h.buffer[h.next[x]] = h.buffer[x] + h.size[x]
  BY FieldTypes DEF Linked, Tiled, End
<1>2. \A x \in L : h.next[x] # HEAD => h.next[x] # x
  BY <1>1
<1>. QED  BY <1>1, <1>2

\* The block that was absorbed leaves the list; nothing else does.
LEMMA AbsorbList ==
  ASSUME NEW h, NEW g, NEW b \in InList(h), NEW n, n = h.next[b], n # HEAD, n # b,
         h.next[n] # n, Linked(h, InList(h)), IsAbsorbed(h, b, n, g)
  PROVE  InList(g) = InList(h) \ {n}
<1>. DEFINE L == InList(h)
<1>1. /\ b \in Blocks /\ n \in L /\ h.next[n] \in L
      /\ L \in SUBSET Blocks /\ HEAD \in L
      /\ \A x \in L : h.next[x] \in L /\ (h.next[x] = n => x = b)
  BY ListFollows DEF Linked
<1>2. \A x \in Blocks : g.next[x] = IF x = n THEN h.spare ELSE IF x = b THEN h.next[n] ELSE h.next[x]
  BY DEF IsAbsorbed
<1>3. InList(g) \subseteq L \ {n}
  <2>. DEFINE S == L \ {n}
  <2>1. \A x \in S : g.next[x] \in S
    BY <1>1, <1>2
  <2>2. S \in SUBSET Blocks /\ HEAD \in S
    BY <1>1
  <2>. HIDE DEF S
  <2>3. InList(g) \subseteq S
    BY <2>1, <2>2, ListLeast
  <2>. QED  BY <2>3 DEF S
<1>4. /\ HEAD \in InList(g)
      /\ \A x \in InList(g) : g.next[x] \in Blocks => g.next[x] \in InList(g)
  BY ListFollows
<1>. DEFINE T == InList(g) \cup {x \in {n} : b \in InList(g)}
<1>5. ASSUME NEW x \in T  PROVE h.next[x] \in T
  <2>1. CASE x = n
    <3>1. b \in InList(g) /\ g.next[b] = h.next[n]
      BY <1>1, <1>2, <1>3, <2>1
    <3>. QED  BY <1>1, <1>4, <2>1, <3>1
  <2>2. CASE x = b /\ x # n
    BY <2>2
  <2>3. CASE x # b /\ x # n
    <3>1. x \in InList(g) /\ x \in L /\ g.next[x] = h.next[x]
      BY <1>1, <1>2, <1>3, <2>3
    <3>. QED  BY <1>1, <1>4, <3>1
  <2>. QED  BY <2>1, <2>2, <2>3
<1>6. T \in SUBSET Blocks /\ HEAD \in T
  BY <1>1, <1>3, <1>4
<1>. HIDE DEF T
<1>7. L \subseteq T
  BY <1>5, <1>6, ListLeast
<1>. QED  BY <1>3, <1>7 DEF T

\* Its descriptor is the first spare one.
LEMMA AbsorbChain ==
  ASSUME NEW h, NEW g, NEW b \in InList(h), NEW n \in InList(h),
         h.spare \in Blocks \cup {NONE},
         Spared(h, InList(h), SpareChain(h)), IsAbsorbed(h, b, n, g)
  PROVE  SpareChain(g) = SpareChain(h) \cup {n}
<1>. DEFINE C == SpareChain(h)
<1>1. /\ b \in Blocks /\ n \in Blocks /\ b \notin C /\ n \notin C /\ C \in SUBSET Blocks
      /\ h.spare \in Blocks => h.spare \in C
      /\ \A x \in C : h.next[x] \in Blocks => h.next[x] \in C
  BY ListFollows, ChainFollows DEF Spared
<1>2. /\ g.spare = n /\ g.next[n] = h.spare
      /\ \A x \in C : g.next[x] = h.next[x]
  BY <1>1 DEF IsAbsorbed
<1>3. SpareChain(g) \subseteq C \cup {n}
  <2>. DEFINE S == C \cup {n}
  <2>1. \A x \in S : g.next[x] \in Blocks => g.next[x] \in S
    BY <1>1, <1>2
  <2>2. S \in SUBSET Blocks /\ g.spare \in S
    BY <1>1, <1>2
  <2>. HIDE DEF S
  <2>3. SpareChain(g) \subseteq S
    BY <2>1, <2>2, ChainLeast
  <2>. QED  BY <2>3 DEF S
<1>4. /\ n \in SpareChain(g) /\ SpareChain(g) \in SUBSET Blocks
      /\ \A x \in SpareChain(g) : g.next[x] \in Blocks => g.next[x] \in SpareChain(g)
  BY <1>1, <1>2, ChainFollows
<1>. DEFINE T == SpareChain(g) \cap C
<1>5. \A x \in T : h.next[x] \in Blocks => h.next[x] \in T
  BY <1>1, <1>2, <1>4
<1>6. T \in SUBSET Blocks /\ (h.spare \in Blocks => h.spare \in T)
  BY <1>1, <1>2, <1>4
<1>. HIDE DEF T
<1>7. C \subseteq T
  BY <1>5, <1>6, ChainLeast
<1>. QED  BY <1>3, <1>4, <1>7 DEF T

LEMMA AbsorbLinked ==
  ASSUME NEW h, NEW g, NEW L \in SUBSET Blocks, NEW b \in L, NEW n, n = h.next[b],
         n # b, h.next[n] # n, Linked(h, L), IsAbsorbed(h, b, n, g)
  PROVE  Linked(g, L \ {n})
<1>. DEFINE m == h.next[n]
<1>1. /\ n \in L /\ m \in L
      /\ \A x \in L : x \in Blocks /\ h.next[x] \in L /\ h.prev[x] \in L
      /\ \A x \in L : h.prev[h.next[x]] = x /\ h.next[h.prev[x]] = x
  BY DEF Linked
<1>2. \A x \in Blocks :
        /\ g.next[x] = IF x = n THEN h.spare ELSE IF x = b THEN m ELSE h.next[x]
        /\ g.prev[x] = IF x = n THEN NONE ELSE IF x = m THEN b ELSE h.prev[x]
  BY DEF IsAbsorbed
<1>3. g.next[b] = m /\ g.prev[m] = b
  BY <1>1, <1>2
<1>4. ASSUME NEW x \in L \ {n}, x # b
      PROVE  g.next[x] \in L \ {n} /\ g.prev[g.next[x]] = x
  <2>1. g.next[x] = h.next[x] /\ h.next[x] \in L \ {n} /\ h.next[x] # m
    BY <1>1, <1>2, <1>4
  <2>. QED  BY <1>1, <1>2, <2>1
<1>5. ASSUME NEW x \in L \ {n}, x # m
      PROVE  g.prev[x] \in L \ {n} /\ g.next[g.prev[x]] = x
  <2>1. g.prev[x] = h.prev[x] /\ h.prev[x] \in L \ {n} /\ h.prev[x] # b
    BY <1>1, <1>2, <1>5
  <2>. QED  BY <1>1, <1>2, <2>1
<1>. HIDE DEF m
<1>6. m # n
  BY DEF m
<1>. QED  BY <1>1, <1>3, <1>4, <1>5, <1>6 DEF Linked

LEMMA AbsorbTiled ==
  ASSUME NEW h \in HeapType, NEW g, NEW L \in SUBSET Blocks, HEAD \in L,
         NEW b \in L, NEW n, n = h.next[b], n # HEAD,
         Linked(h, L), Tiled(h, L), IsAbsorbed(h, b, n, g)
  PROVE  Tiled(g, L \ {n})
<1>1. /\ n \in L /\ n # b /\ h.next[n] \in L /\ h.next[n] # n
      /\ h.buffer[n] = h.buffer[b] + h.size[b]
  BY Neighbours
<1>2. /\ h.buffer[HEAD] = storage /\ storage \in Nat /\ storage_size \in Nat
      /\ \A x \in L : /\ x \in Blocks /\ h.next[x] \in L /\ (h.next[x] = n => x = b)
                      /\ h.buffer[x] \in Nat /\ h.size[x] \in Nat
  BY FieldTypes, SizeAssumption DEF Linked, Tiled
<1>3. /\ g.next[b] = h.next[n] /\ g.size[b] = h.size[b] + h.size[n]
      /\ \A x \in L \ {n} : /\ g.buffer[x] = h.buffer[x]
                            /\ x # b => g.next[x] = h.next[x] /\ g.size[x] = h.size[x]
  BY <1>1, <1>2 DEF IsAbsorbed
<1>4. \A x \in L :
        /\ storage <= h.buffer[x] /\ h.buffer[x] + h.size[x] <= storage + storage_size
        /\ h.size[x] > 0
        /\ h.next[x] = HEAD => h.buffer[x] + h.size[x] = storage + storage_size
        /\ h.next[x] # HEAD => h.buffer[h.next[x]] = h.buffer[x] + h.size[x]
  BY DEF Tiled, End
<1>. DEFINE P(x) == /\ storage <= g.buffer[x]
                    /\ g.buffer[x] + g.size[x] <= storage + storage_size
                    /\ g.size[x] > 0
                    /\ g.next[x] = HEAD => g.buffer[x] + g.size[x] = storage + storage_size
                    /\ g.next[x] # HEAD => g.buffer[g.next[x]] = g.buffer[x] + g.size[x]
<1>5. P(b)
  <2>1. g.buffer[b] = h.buffer[b] /\ g.buffer[h.next[n]] = h.buffer[h.next[n]]
    BY <1>1, <1>3
  <2>2. h.buffer[n] + h.size[n] = h.buffer[b] + (h.size[b] + h.size[n])
    BY <1>1, <1>2
  <2>3. h.size[b] + h.size[n] > 0
    BY <1>1, <1>2, <1>4
  <2>. QED  BY <1>1, <1>3, <1>4, <2>1, <2>2, <2>3
<1>6. ASSUME NEW x \in L \ {n}, x # b  PROVE P(x)
  <2>1. h.next[x] \in L \ {n}
    BY <1>2, <1>6
  <2>. QED  BY <1>3, <1>4, <1>6, <2>1
<1>7. g.buffer[HEAD] = storage
  BY <1>2, <1>3, HEAD \in L, n # HEAD
<1>. HIDE DEF P
<1>8. \A x \in L \ {n} : P(x)
  BY <1>5, <1>6
<1>. QED  BY <1>7, <1>8 DEF Tiled, End, P

LEMMA AbsorbApart ==
  ASSUME NEW h \in HeapType, NEW g, NEW L \in SUBSET Blocks,
         NEW b \in L, NEW n, n = h.next[b], n # HEAD,
         Linked(h, L), Tiled(h, L), Apart(h, L), IsAbsorbed(h, b, n, g)
  PROVE  Apart(g, L \ {n})
<1>1. /\ n \in L /\ n # b /\ h.buffer[n] = End(h, b)
  BY Neighbours DEF End
<1>2. \A x \in L : /\ x \in Blocks /\ h.buffer[x] \in Nat /\ h.size[x] \in Nat /\ h.size[x] > 0
                   /\ End(h, x) = h.buffer[x] + h.size[x]
  BY FieldTypes DEF Tiled, End
<1>3. /\ g.buffer[b] = h.buffer[b] /\ End(g, b) = End(h, n)
      /\ \A x \in L \ {b, n} : g.buffer[x] = h.buffer[x] /\ End(g, x) = End(h, x)
  <2>1. End(g, b) = h.buffer[b] + (h.size[b] + h.size[n])
    BY <1>1, <1>2 DEF IsAbsorbed, End
  <2>2. End(g, b) = End(h, n)
    BY <1>1, <1>2, <2>1
  <2>. QED  BY <1>1, <1>2, <2>2 DEF IsAbsorbed, End
<1>4. \A x, y \in L : x # y => End(h, x) <= h.buffer[y] \/ End(h, y) <= h.buffer[x]
  BY DEF Apart
<1>5. ASSUME NEW x \in L \ {b, n}
      PROVE  End(h, x) <= h.buffer[b] \/ End(h, n) <= h.buffer[x]
  <2>1. End(h, x) <= h.buffer[b] \/ End(h, b) <= h.buffer[x]
    BY <1>4
  <2>2. End(h, x) <= h.buffer[n] \/ End(h, n) <= h.buffer[x]
    BY <1>1, <1>4
  <2>. QED  BY <1>1, <1>2, <2>1, <2>2
<1>6. SUFFICES ASSUME NEW x \in L \ {n}, NEW y \in L \ {n}, x # y
               PROVE  End(g, x) <= g.buffer[y] \/ End(g, y) <= g.buffer[x]
  BY DEF Apart
<1>7. CASE x # b /\ y # b
  BY <1>3, <1>4, <1>6, <1>7
<1>8. CASE x # b /\ y = b
  BY <1>3, <1>5, <1>8
<1>9. CASE x = b
  BY <1>3, <1>5, <1>6, <1>9
<1>. QED  BY <1>7, <1>8, <1>9

LEMMA AbsorbAligned ==
  ASSUME NEW h \in HeapType, NEW g, NEW L \in SUBSET Blocks, NEW b \in L, NEW n \in L, n # b,
         Aligned(h, L), IsAbsorbed(h, b, n, g)
  PROVE  Aligned(g, L \ {n})
<1>1. \A x \in L : h.size[x] % alignment = 0 /\ h.buffer[x] % alignment = storage % alignment
  BY DEF Aligned
<1>2. (h.size[b] + h.size[n]) % alignment = 0
  <2>1. PICK c \in Int, d \in Int : c = h.size[b] /\ d = h.size[n]
    BY FieldTypes
  <2>2. c % alignment = 0 /\ d % alignment = 0
    BY ONLY <1>1, <2>1, b \in L, n \in L
  <2>3. alignment \in Nat \ {0}
    BY SizeAssumption
  <2>4. (c + d) % alignment = c % alignment
    BY ONLY <2>2, <2>3, c \in Int, d \in Int, PlusMultiple
  <2>. QED  BY ONLY <2>1, <2>2, <2>4
<1>3. /\ g.buffer[b] = h.buffer[b] /\ g.size[b] = h.size[b] + h.size[n]
      /\ \A x \in L \ {b, n} : g.buffer[x] = h.buffer[x] /\ g.size[x] = h.size[x]
  BY DEF IsAbsorbed
<1>4. \A x \in L \ {b, n} : g.size[x] % alignment = 0 /\ g.buffer[x] % alignment = storage % alignment
  BY ONLY <1>1, <1>3
<1>5. g.size[b] % alignment = 0 /\ g.buffer[b] % alignment = storage % alignment
  BY ONLY <1>1, <1>2, <1>3, b \in L
<1>. QED  BY <1>4, <1>5 DEF Aligned

LEMMA AbsorbSpared ==
  ASSUME NEW h \in HeapType, NEW g, NEW L \in SUBSET Blocks, NEW C \in SUBSET Blocks,
         NEW b \in L, NEW n \in L, h.spare \in Blocks => h.spare \in C,
         \A x \in C : h.next[x] \in Blocks => h.next[x] \in C,
         Spared(h, L, C), IsAbsorbed(h, b, n, g)
  PROVE  Spared(g, L \ {n}, C \cup {n})
<1>1. n \notin C /\ b \notin C
  BY DEF Spared
<1>2. g.spare = n /\ g.next[n] = h.spare /\ \A x \in C : g.next[x] = h.next[x]
  BY <1>1 DEF IsAbsorbed
<1>3. /\ \A x \in C : h.next[x] \in Blocks => h.next[x] # h.spare
      /\ \A x, y \in C : x # y /\ h.next[x] \in Blocks => h.next[x] # h.next[y]
  BY DEF Spared
<1>4. (L \ {n}) \cap (C \cup {n}) = {} /\ (L \ {n}) \cup (C \cup {n}) = Blocks
  BY DEF Spared
<1>5. \A x \in C \cup {n} : g.next[x] \in Blocks => g.next[x] # n
  BY <1>1, <1>2
<1>6. \A x, y \in C \cup {n} : x # y /\ g.next[x] \in Blocks => g.next[x] # g.next[y]
  BY <1>2, <1>3
<1>. QED  BY <1>2, <1>4, <1>5, <1>6 DEF Spared

LEMMA AbsorbIntact ==
  ASSUME NEW h \in HeapType, NEW g, NEW b \in InList(h), NEW n, n = h.next[b], n # HEAD,
         Intact(h, InList(h), SpareChain(h)), IsAbsorbed(h, b, n, g)
  PROVE  /\ InList(g) = InList(h) \ {n}
         /\ Intact(g, InList(g), SpareChain(g))
<1>. DEFINE L == InList(h)
            C == SpareChain(h)
<1>1. Linked(h, L) /\ Tiled(h, L) /\ Apart(h, L) /\ Aligned(h, L) /\ Spared(h, L, C)
  BY DEF Intact
<1>2. /\ L \in SUBSET Blocks /\ HEAD \in L /\ C \in SUBSET Blocks
      /\ h.spare \in Blocks => h.spare \in C
      /\ \A x \in C : h.next[x] \in Blocks => h.next[x] \in C
      /\ h.spare \in Blocks \cup {NONE}
  BY ListFollows, ChainFollows, FieldTypes
<1>3. n \in L /\ n # b /\ h.next[n] # n
  BY <1>1, <1>2, Neighbours
<1>4. InList(g) = L \ {n}
  BY <1>1, <1>3, AbsorbList
<1>5. SpareChain(g) = C \cup {n}
  BY <1>1, <1>2, <1>3, AbsorbChain
<1>. HIDE DEF L, C
<1>6. b \in L
  BY DEF L
<1>7. Linked(g, L \ {n})
  BY <1>1, <1>2, <1>3, <1>6, AbsorbLinked
<1>8. Tiled(g, L \ {n})
  BY <1>1, <1>2, <1>6, AbsorbTiled
<1>9. Apart(g, L \ {n})
  BY <1>1, <1>2, <1>6, AbsorbApart
<1>10. Aligned(g, L \ {n})
  BY <1>1, <1>2, <1>3, <1>6, AbsorbAligned
<1>11. Spared(g, L \ {n}, C \cup {n})
  BY <1>1, <1>2, <1>3, <1>6, AbsorbSpared
<1>. QED  BY <1>4, <1>5, <1>7, <1>8, <1>9, <1>10, <1>11 DEF Intact, L

-----------------------------------------------------------------------------
(***************************************************************************)
(* Where a walk along the list stops.                                      *)
(***************************************************************************)

\* The blocks of the list start within the storage, each at an address of its own.
LEMMA Placed ==
  ASSUME NEW h \in HeapType, Intact(h, InList(h), SpareChain(h))
  PROVE  /\ InList(h) \in SUBSET Blocks /\ HEAD \in InList(h)
         /\ h.buffer[HEAD] = storage /\ storage \in Nat \ {0} /\ storage_size \in Nat \ {0}
         /\ \A x \in InList(h) :
              /\ h.next[x] \in InList(h) /\ h.prev[x] \in InList(h)
              /\ h.buffer[x] \in Nat /\ h.size[x] \in Nat /\ h.size[x] > 0
              /\ storage <= h.buffer[x] /\ End(h, x) <= storage + storage_size
              /\ End(h, x) = h.buffer[x] + h.size[x]
              /\ h.next[x] = HEAD => End(h, x) = storage + storage_size
              /\ h.next[x] # HEAD => h.buffer[h.next[x]] = End(h, x)
         /\ \A x, y \in InList(h) :
              x # y => End(h, x) <= h.buffer[y] \/ End(h, y) <= h.buffer[x]
BY ListFollows, FieldTypes, SizeAssumption DEF Intact, Linked, Tiled, Apart, End

\* A walk stops at the lowest block of those that are wanted, ...
LEMMA FirstIsLowest ==
  ASSUME NEW h \in HeapType, Intact(h, InList(h), SpareChain(h)),
         NEW wanted, NEW b \in First(h, wanted)
  PROVE  /\ b \in InList(h) /\ b \in wanted
         /\ \A x \in InList(h) : x \in wanted => h.buffer[b] <= h.buffer[x]
<1>1. b \in InList(h) /\ b \in wanted /\ b \in Met(h.next, HEAD, wanted)
  BY MetStopped DEF First, InList
<1>2. SUFFICES ASSUME NEW x \in InList(h), x \in wanted, h.buffer[x] < h.buffer[b]
               PROVE  FALSE
  BY <1>1, Placed
<1>. DEFINE S == {y \in InList(h) : h.buffer[y] <= h.buffer[x]}
<1>3. S \in SUBSET Blocks /\ HEAD \in S
  BY Placed
<1>4. ASSUME NEW y \in S, y \notin wanted
      PROVE  h.next[y] \in S
  <2>1. y # x /\ y \in InList(h) /\ h.buffer[y] <= h.buffer[x] /\ h.next[y] \in InList(h)
    BY <1>2, <1>4, Placed
  <2>2. End(h, y) <= h.buffer[x]
    BY <2>1, Placed
  <2>3. h.buffer[h.next[y]] <= h.buffer[x]
    BY <2>1, <2>2, Placed
  <2>. QED  BY <2>1, <2>3
<1>5. b \notin S
  BY <1>1, <1>2, Placed
<1>. HIDE DEF S
<1>6. FollowsNext(h.next, HEAD, wanted, S)
  BY <1>3, <1>4 DEF FollowsNext
<1>. QED  BY <1>1, <1>3, <1>5, <1>6, MetLeast

\* ... and goes on to the end if there is none.
LEMMA FirstIsNone ==
  ASSUME NEW h, NEW wanted, First(h, wanted) = {}
  PROVE  InList(h) \cap wanted = {}
BY MetToTheEnd DEF First, InList

\* Every address of the storage is in a block of the list.
LEMMA StorageCovered ==
  ASSUME NEW h \in HeapType, Intact(h, InList(h), SpareChain(h)),
         NEW a \in Nat, storage <= a, a < storage + storage_size
  PROVE  \E x \in InList(h) : h.buffer[x] <= a /\ a < End(h, x)
<1>1. SUFFICES ASSUME \A x \in InList(h) : h.buffer[x] <= a => End(h, x) <= a
               PROVE  FALSE
  BY Placed
<1>. DEFINE S == {y \in InList(h) : h.buffer[y] <= a}
<1>2. S \in SUBSET Blocks /\ HEAD \in S
  BY Placed
<1>3. \A y \in S : h.next[y] \in S
  BY <1>1, Placed
<1>4. h.prev[HEAD] \in InList(h) /\ h.next[h.prev[HEAD]] = HEAD
  BY Placed DEF Intact, Linked
<1>5. h.prev[HEAD] \notin S
  <2>1. End(h, h.prev[HEAD]) = storage + storage_size
    BY <1>4, Placed
  <2>. QED  BY <1>1, <2>1, Placed
<1>. HIDE DEF S
<1>. QED  BY <1>2, <1>3, <1>4, <1>5, ListLeast

-----------------------------------------------------------------------------
(***************************************************************************)
(* The heap after sys_heap_init.                                           *)
(***************************************************************************)
LEMMA InitialFields ==
  LET h == InitialHeap IN
  /\ h \in HeapType
  /\ h.spare = IF blocks_count = 1 THEN NONE ELSE 1
  /\ \A x \in Blocks : x # HEAD => h.next[x] = IF x = blocks_count - 1 THEN NONE ELSE x + 1
  /\ h.next[HEAD] = HEAD /\ h.prev[HEAD] = HEAD
  /\ h.buffer[HEAD] = storage /\ h.size[HEAD] = storage_size /\ ~h.used[HEAD]
BY SizeAssumption DEF InitialHeap, HeapType, Blocks, HEAD, NONE, NULL

\* All descriptors but that of the first block are spare.
LEMMA InitialChain == SpareChain(InitialHeap) = 1 .. blocks_count - 1
<1>. DEFINE h == InitialHeap
            C == SpareChain(h)
            S == 1 .. blocks_count - 1
<1>1. /\ h.spare = IF blocks_count = 1 THEN NONE ELSE 1
      /\ \A x \in S : h.next[x] = IF x = blocks_count - 1 THEN NONE ELSE x + 1
  BY InitialFields DEF Blocks, HEAD
<1>2. S \in SUBSET Blocks /\ NONE \notin Blocks
  BY DEF Blocks, NONE
<1>3. blocks_count \in Nat \ {0}
  BY SizeAssumption
<1>4. /\ h.spare \in Blocks => h.spare \in S
      /\ \A x \in S : h.next[x] \in Blocks => h.next[x] \in S
  BY <1>1, <1>2, <1>3
<1>5. /\ h.spare \in Blocks => h.spare \in C
      /\ \A x \in C : h.next[x] \in Blocks => h.next[x] \in C
  BY ChainFollows
<1>6. ASSUME S \ C # {}
      PROVE  FALSE
  <2>1. S \ C \in SUBSET Nat
    OBVIOUS
  <2>. HIDE DEF h, C, S
  <2>2. PICK x \in S \ C : \A y \in S \ C : x <= y
    BY <1>6, <2>1, LeastNumber
  <2>. USE DEF S
  <2>3. CASE x = 1
    BY <1>1, <1>2, <1>3, <1>5, <2>2, <2>3
  <2>4. CASE x # 1
    <3>1. x - 1 \in S /\ x - 1 \in C
      BY <1>3, <2>2, <2>4
    <3>2. h.next[x - 1] = x
      BY <1>1, <1>3, <2>2, <3>1
    <3>. QED  BY <1>2, <1>5, <2>2, <3>1, <3>2
  <2>. QED  BY <2>3, <2>4
<1>. HIDE DEF h, C, S
<1>7. C \subseteq S
  BY <1>2, <1>4, ChainLeast DEF C
<1>. QED  BY <1>6, <1>7 DEF h, C, S

LEMMA InitialList == InList(InitialHeap) = {HEAD}
<1>1. InitialHeap.next[HEAD] = HEAD
  BY InitialFields
<1>2. {HEAD} \in SUBSET Blocks
  BY ListFollows
<1>3. InList(InitialHeap) \subseteq {HEAD}
  BY <1>1, <1>2, ListLeast
<1>. QED  BY <1>3, ListFollows

LEMMA InitialSound == Sound(InitialHeap)
<1>. DEFINE h == InitialHeap
            C == 1 .. blocks_count - 1
<1>1. /\ h \in HeapType /\ h.next[HEAD] = HEAD /\ h.prev[HEAD] = HEAD
      /\ h.buffer[HEAD] = storage /\ h.size[HEAD] = storage_size
      /\ h.spare = IF blocks_count = 1 THEN NONE ELSE 1
      /\ \A x \in C : h.next[x] = IF x = blocks_count - 1 THEN NONE ELSE x + 1
  BY InitialFields DEF Blocks, HEAD
<1>. HIDE DEF h
<1>2. Linked(h, {HEAD}) /\ Merged(h, {HEAD}) /\ Apart(h, {HEAD})
  BY <1>1 DEF Linked, Merged, Apart
<1>3. Tiled(h, {HEAD})
  BY <1>1, SizeAssumption DEF Tiled, End
<1>4. Aligned(h, {HEAD})
  BY <1>1, SizeAssumption DEF Aligned
<1>5. Spared(h, {HEAD}, C)
  <2>1. {HEAD} \cap C = {} /\ {HEAD} \cup C = Blocks
    BY SizeAssumption DEF HEAD, Blocks
  <2>2. \A a \in C : h.next[a] \in Blocks => h.next[a] # h.spare
    BY <1>1, SizeAssumption DEF Blocks, NONE
  <2>3. \A a, b \in C : a # b /\ h.next[a] \in Blocks => h.next[a] # h.next[b]
    BY <1>1, SizeAssumption DEF Blocks, NONE
  <2>. QED  BY <2>1, <2>2, <2>3 DEF Spared
<1>. QED  BY <1>1, <1>2, <1>3, <1>4, <1>5, InitialChain, InitialList DEF Sound, Intact, h

-----------------------------------------------------------------------------
(***************************************************************************)
(* The two calls keep the heap sound.                                      *)
(***************************************************************************)

\* Marking a block changes nothing but the mark.
LEMMA Marking ==
  ASSUME NEW h \in HeapType, NEW b \in Blocks, NEW mark \in BOOLEAN,
         Intact(h, InList(h), SpareChain(h))
  PROVE  LET g == [h EXCEPT !.used[b] = mark]
         IN  /\ g \in HeapType /\ Intact(g, InList(g), SpareChain(g))
             /\ InList(g) = InList(h) /\ g.next = h.next
             /\ g.buffer = h.buffer /\ g.size = h.size
             /\ \A x \in Blocks : g.used[x] <=> IF x = b THEN mark ELSE h.used[x]
<1>. DEFINE g == [h EXCEPT !.used[b] = mark]
<1>1. /\ g \in HeapType
      /\ g.next = h.next /\ g.prev = h.prev /\ g.buffer = h.buffer /\ g.size = h.size
      /\ g.spare = h.spare
      /\ \A x \in Blocks : g.used[x] <=> IF x = b THEN mark ELSE h.used[x]
  BY DEF HeapType
<1>. HIDE DEF g
<1>2. InList(g) = InList(h) /\ SpareChain(g) = SpareChain(h)
  BY <1>1 DEF InList, SpareChain
<1>3. Intact(g, InList(h), SpareChain(h))
  BY <1>1 DEF Intact, Linked, Tiled, Apart, Aligned, Spared, End
<1>. QED  BY <1>1, <1>2, <1>3 DEF g

\* A request that finds a block of its size marks it.
LEMMA ExactSound ==
  ASSUME NEW h, Sound(h), NEW b \in InList(h)
  PROVE  LET g == [h EXCEPT !.used[b] = TRUE]
         IN  /\ Sound(g)
             /\ Taken(g) = Taken(h) \cup {b}
             /\ g.buffer = h.buffer /\ g.size = h.size
<1>. DEFINE g == [h EXCEPT !.used[b] = TRUE]
<1>1. b \in Blocks /\ InList(h) \in SUBSET Blocks
  BY ListFollows
<1>2. /\ g \in HeapType /\ Intact(g, InList(g), SpareChain(g))
      /\ InList(g) = InList(h) /\ g.next = h.next /\ g.buffer = h.buffer /\ g.size = h.size
      /\ \A x \in Blocks : g.used[x] <=> IF x = b THEN TRUE ELSE h.used[x]
  BY <1>1, Marking DEF Sound
<1>. HIDE DEF g
<1>3. \A x \in InList(h) : h.next[x] \in Blocks
  BY <1>1 DEF Sound, Intact, Linked
<1>4. Merged(g, InList(g))
  BY <1>1, <1>2, <1>3 DEF Sound, Merged
<1>5. Taken(g) = Taken(h) \cup {b}
  BY <1>1, <1>2 DEF Taken
<1>. QED  BY <1>2, <1>4, <1>5 DEF Sound, g

\* One that finds a larger block takes the front of it.
LEMMA SplitSound ==
  ASSUME NEW h, Sound(h), NEW b \in InList(h), ~h.used[b], h.spare \in Blocks,
         NEW size \in Nat, 0 < size, size < h.size[b], size % alignment = 0
  PROVE  LET g == Split(h, b, size)
         IN  /\ Sound(g)
             /\ Taken(g) = Taken(h) \cup {b}
             /\ g.buffer[b] = h.buffer[b] /\ g.size[b] = size
             /\ \A x \in Taken(h) : g.buffer[x] = h.buffer[x] /\ g.size[x] = h.size[x]
<1>. DEFINE g == Split(h, b, size)
            s == h.spare
            L == InList(h)
<1>1. /\ h \in HeapType /\ Intact(h, L, SpareChain(h)) /\ Merged(h, L)
      /\ L \in SUBSET Blocks /\ b \in Blocks
  BY ListFollows DEF Sound
<1>2. \A x \in L : h.next[x] \in L /\ h.prev[x] \in L /\ h.prev[h.next[x]] = x
  BY <1>1 DEF Intact, Linked
<1>3. IsSplit(h, b, s, size, g)
  BY <1>1, <1>2, SplitFields, FieldTypes
<1>4. InList(g) = L \cup {s} /\ Intact(g, InList(g), SpareChain(g))
  BY <1>1, <1>3, SplitIntact
<1>5. s \notin L
  BY <1>1, ChainFollows DEF Intact, Spared
<1>. HIDE DEF g, s, L
<1>6. /\ s \in Blocks /\ s # b /\ h.next[b] # s
      /\ g.next[b] = s /\ g.next[s] = h.next[b]
      /\ g.used[b] /\ ~g.used[s] /\ g.buffer[b] = h.buffer[b] /\ g.size[b] = size
      /\ \A x \in L : /\ x # b => g.next[x] = h.next[x] /\ (g.used[x] <=> h.used[x])
                      /\ x # b => g.buffer[x] = h.buffer[x] /\ g.size[x] = h.size[x]
  BY <1>1, <1>2, <1>3, <1>5, b \in L DEF IsSplit, s, L
<1>7. \A x \in L : h.next[x] # HEAD => h.used[x] \/ h.used[h.next[x]]
  BY <1>1 DEF Merged
<1>8. \A x \in L \cup {s} : g.next[x] # HEAD => g.used[x] \/ g.used[g.next[x]]
  <2>1. ASSUME NEW x \in L, x # b, g.next[x] # HEAD
        PROVE  g.used[x] \/ g.used[g.next[x]]
    BY <1>2, <1>6, <1>7, <2>1
  <2>2. g.next[s] # HEAD => g.used[g.next[s]]
    BY <1>2, <1>6, <1>7, ~h.used[b], b \in InList(h) DEF L
  <2>. QED  BY <1>6, <2>1, <2>2
<1>9. g \in HeapType
  BY <1>3 DEF IsSplit
<1>10. Taken(g) = Taken(h) \cup {b} /\ b \notin Taken(h)
  BY <1>4, <1>5, <1>6, b \in InList(h) DEF Taken, L
<1>11. \A x \in Taken(h) : g.buffer[x] = h.buffer[x] /\ g.size[x] = h.size[x]
  BY <1>6, <1>10 DEF Taken, L
<1>12. Sound(g)
  BY <1>4, <1>8, <1>9 DEF Sound, Merged
<1>. QED  BY <1>6, <1>10, <1>11, <1>12 DEF g

\* A block that is released takes in the free block behind it, if there is one;
\* afterwards the block behind it is in use.
LEMMA MergeNextSound ==
  ASSUME NEW h, Sound(h), NEW b \in Taken(h)
  PROVE  LET g == MergeNext(h, b)
         IN  /\ Sound(g)
             /\ g.next[b] # HEAD => g.used[g.next[b]]
             /\ Taken(g) = Taken(h)
             /\ g.buffer[b] = h.buffer[b]
             /\ \A x \in Taken(h) \ {b} : g.buffer[x] = h.buffer[x] /\ g.size[x] = h.size[x]
<1>. DEFINE g == MergeNext(h, b)
            n == h.next[b]
            L == InList(h)
<1>1. /\ h \in HeapType /\ Intact(h, L, SpareChain(h)) /\ Merged(h, L)
      /\ L \in SUBSET Blocks /\ b \in L /\ h.used[b]
  BY ListFollows DEF Sound, Taken
<1>2. CASE ~NextMerges(h, b)
  <2>1. g = h
    BY <1>2 DEF MergeNext
  <2>2. n # HEAD => h.used[n]
    BY <1>2 DEF NextMerges
  <2>. QED  BY <2>1, <2>2
<1>3. CASE NextMerges(h, b)
  <2>1. /\ g = Absorb(h, b, n) /\ ~h.used[n] /\ n # HEAD
    BY <1>3 DEF MergeNext, NextMerges
  <2>2. n \in L /\ n # b /\ h.next[n] \in L /\ h.next[n] # n
    BY <1>1, <2>1, Neighbours DEF Intact
  <2>3. IsAbsorbed(h, b, n, g)
    BY <1>1, <2>1, <2>2, AbsorbFields
  <2>4. InList(g) = L \ {n} /\ Intact(g, InList(g), SpareChain(g))
    BY <1>1, <2>1, <2>3, AbsorbIntact
  <2>. HIDE DEF g, n, L
  <2>5. /\ g.next[b] = h.next[n] /\ g.buffer[b] = h.buffer[b]
        /\ \A x \in L \ {n} : (g.used[x] <=> h.used[x]) /\ g.buffer[x] = h.buffer[x]
        /\ \A x \in L \ {b, n} : g.next[x] = h.next[x] /\ g.size[x] = h.size[x]
    BY <1>1, <2>2, <2>3 DEF IsAbsorbed
  <2>6. \A x \in L : h.next[x] # HEAD => h.used[x] \/ h.used[h.next[x]]
    BY <1>1 DEF Merged
  <2>7. \A x \in L \ {b} : h.next[x] \in L /\ h.next[x] # n
    BY <1>1, <2>2 DEF Intact, Linked, n
  <2>8. g.next[b] # HEAD => g.used[g.next[b]]
    BY <2>1, <2>2, <2>5, <2>6
  <2>9. \A x \in L \ {n} : g.next[x] # HEAD => g.used[x] \/ g.used[g.next[x]]
    BY <1>1, <2>2, <2>5, <2>6, <2>7
  <2>10. g \in HeapType
    BY <2>3 DEF IsAbsorbed
  <2>11. Sound(g)
    BY <2>4, <2>9, <2>10 DEF Sound, Merged
  <2>12. Taken(g) = Taken(h)
    BY <2>1, <2>4, <2>5 DEF Taken, L
  <2>13. \A x \in Taken(h) \ {b} : g.buffer[x] = h.buffer[x] /\ g.size[x] = h.size[x]
    BY <2>1, <2>5 DEF Taken, L
  <2>. QED  BY <2>5, <2>8, <2>11, <2>12, <2>13 DEF g
<1>. QED  BY <1>2, <1>3

\* Then it becomes part of the free block before it, or is free itself.
LEMMA MergePrevSound ==
  ASSUME NEW h, Sound(h), NEW b \in Taken(h), h.next[b] # HEAD => h.used[h.next[b]]
  PROVE  LET g == MergePrev(h, b)
         IN  /\ Sound(g)
             /\ Taken(g) = Taken(h) \ {b}
             /\ \A x \in Taken(h) \ {b} : g.buffer[x] = h.buffer[x] /\ g.size[x] = h.size[x]
<1>. DEFINE g == MergePrev(h, b)
            p == h.prev[b]
            L == InList(h)
<1>1. /\ h \in HeapType /\ Intact(h, L, SpareChain(h)) /\ Merged(h, L)
      /\ L \in SUBSET Blocks /\ b \in L /\ h.used[b] /\ b \in Blocks
  BY ListFollows DEF Sound, Taken
<1>2. /\ p \in L /\ h.next[p] = b
      /\ \A x \in L : h.next[x] \in L /\ h.prev[h.next[x]] = x
  BY <1>1 DEF Intact, Linked
<1>3. \A x \in L : h.next[x] # HEAD => h.used[x] \/ h.used[h.next[x]]
  BY <1>1 DEF Merged
<1>4. CASE ~PrevMerges(h, b)
  <2>1. g = [h EXCEPT !.used[b] = FALSE]
    BY <1>4 DEF MergePrev
  <2>2. /\ g \in HeapType /\ Intact(g, InList(g), SpareChain(g))
        /\ InList(g) = L /\ g.next = h.next /\ g.buffer = h.buffer /\ g.size = h.size
        /\ \A x \in Blocks : g.used[x] <=> IF x = b THEN FALSE ELSE h.used[x]
    <3>. HIDE DEF g
    <3>. QED  BY ONLY <1>1, <2>1, Marking, FALSE \in BOOLEAN
  <2>3. b # HEAD => h.used[p]
    BY <1>4 DEF PrevMerges
  <2>. HIDE DEF g, p, L
  <2>4. ASSUME NEW x \in L, g.next[x] # HEAD
        PROVE  g.used[x] \/ g.used[g.next[x]]
    <3>1. g.next[x] = h.next[x] /\ h.next[x] \in Blocks /\ x \in Blocks /\ h.next[x] \in L
      BY <1>1, <1>2, <2>2
    <3>2. h.next[x] # x
      BY <1>1, <2>4, <3>1, Neighbours DEF Intact
    <3>3. CASE x = b
      <4>1. h.used[h.next[x]] /\ h.next[x] # b
        BY <2>4, <3>1, <3>2, <3>3
      <4>. QED  BY <2>2, <3>1, <4>1
    <3>4. CASE h.next[x] = b
      <4>1. x = p
        BY <1>2, <3>4 DEF p
      <4>2. h.used[x] /\ x # b
        BY <2>3, <2>4, <3>1, <3>2, <3>4, <4>1
      <4>. QED  BY <2>2, <3>1, <4>2
    <3>5. CASE x # b /\ h.next[x] # b
      BY <1>3, <2>2, <2>4, <3>1, <3>5
    <3>. QED  BY <3>3, <3>4, <3>5
  <2>5. Sound(g)
    BY <2>2, <2>4 DEF Sound, Merged
  <2>6. Taken(g) = Taken(h) \ {b}
    BY <1>1, <2>2 DEF Taken, L
  <2>. QED  BY <2>2, <2>5, <2>6 DEF g
<1>5. CASE PrevMerges(h, b)
  <2>1. /\ g = Absorb(h, p, b) /\ ~h.used[p] /\ b # HEAD
    BY <1>5 DEF MergePrev, PrevMerges
  <2>2. p # b /\ h.next[b] \in L /\ h.next[b] # b
    BY <1>1, <1>2, <2>1, Neighbours DEF Intact
  <2>3. IsAbsorbed(h, p, b, g)
    BY <1>1, <1>2, <2>1, <2>2, AbsorbFields
  <2>4. InList(g) = L \ {b} /\ Intact(g, InList(g), SpareChain(g))
    BY <1>1, <1>2, <2>1, <2>3, AbsorbIntact
  <2>. HIDE DEF g, p, L
  <2>5. /\ g.next[p] = h.next[b]
        /\ \A x \in L \ {b} : (g.used[x] <=> h.used[x]) /\ g.buffer[x] = h.buffer[x]
        /\ \A x \in L \ {b, p} : g.next[x] = h.next[x] /\ g.size[x] = h.size[x]
    BY <1>1, <1>2, <2>2, <2>3 DEF IsAbsorbed
  <2>6. \A x \in L \ {p} : h.next[x] # b
    BY <1>2 DEF p
  <2>7. \A x \in L \ {b} : g.next[x] # HEAD => g.used[x] \/ g.used[g.next[x]]
    BY <1>2, <1>3, <2>2, <2>5, <2>6
  <2>8. g \in HeapType
    BY <2>3 DEF IsAbsorbed
  <2>9. Sound(g)
    BY <2>4, <2>7, <2>8 DEF Sound, Merged
  <2>10. Taken(g) = Taken(h) \ {b}
    BY <2>4, <2>5 DEF Taken, L
  <2>11. \A x \in Taken(h) \ {b} : g.buffer[x] = h.buffer[x] /\ g.size[x] = h.size[x]
    BY <2>1, <2>5 DEF Taken, L
  <2>. QED  BY <2>9, <2>10, <2>11 DEF g
<1>. QED  BY <1>4, <1>5

\* The block a request is served from: it is free, large enough, and no such
\* block is lower.
LEMMA FitFacts ==
  ASSUME Sound(heap), NEW size, NEW b \in FirstFit(size)
  PROVE  /\ b \in InList(heap) /\ b \in Blocks
         /\ ~heap.used[b] /\ heap.size[b] >= size
         /\ heap.buffer[b] \in Nat /\ heap.size[b] \in Nat
         /\ \A x \in InList(heap) :
              ~heap.used[x] /\ heap.size[x] >= size => heap.buffer[b] <= heap.buffer[x]
<1>1. heap \in HeapType /\ Intact(heap, InList(heap), SpareChain(heap))
  BY DEF Sound
<1>. DEFINE wanted == {x \in Blocks : Fits(x, size)}
<1>2. b \in First(heap, wanted)
  BY DEF FirstFit
<1>3. /\ b \in InList(heap) /\ b \in wanted
      /\ \A x \in InList(heap) : x \in wanted => heap.buffer[b] <= heap.buffer[x]
  BY <1>1, <1>2, FirstIsLowest
<1>4. InList(heap) \in SUBSET Blocks
  BY ListFollows
<1>. QED  BY <1>1, <1>3, <1>4, Placed DEF Fits

LEMMA SplitStep ==
  ASSUME Sound(heap), NEW size \in Nat, size > 0, size % alignment = 0,
         NEW b \in FirstFit(size), AllocSplit(b, size)
  PROVE  /\ Sound(heap')
         /\ Taken(heap') = Taken(heap) \cup {b}
         /\ heap'.buffer[b] = heap.buffer[b] /\ heap'.size[b] = size
         /\ \A x \in Taken(heap) :
              heap'.buffer[x] = heap.buffer[x] /\ heap'.size[x] = heap.size[x]
<1>1. /\ heap' = Split(heap, b, size) /\ heap.spare # NONE /\ heap.size[b] # size
  BY DEF AllocSplit
<1>2. heap.spare \in Blocks
  BY <1>1, FieldTypes DEF Sound
<1>3. b \in InList(heap) /\ ~heap.used[b] /\ size < heap.size[b]
  BY <1>1, FitFacts
<1>. QED  BY <1>1, <1>2, <1>3, SplitSound

LEMMA ExactStep ==
  ASSUME Sound(heap), NEW size \in Nat, NEW b \in FirstFit(size), AllocExact(b, size)
  PROVE  /\ Sound(heap')
         /\ Taken(heap') = Taken(heap) \cup {b}
         /\ heap'.buffer = heap.buffer /\ heap'.size = heap.size /\ heap.size[b] = size
<1>1. b \in InList(heap)
  BY FitFacts
<1>2. heap' = [heap EXCEPT !.used[b] = TRUE] /\ heap.size[b] = size
  BY DEF AllocExact
<1>. QED  BY <1>1, <1>2, ExactSound

LEMMA FreeStep ==
  ASSUME Sound(heap), NEW b \in InList(heap), FreeBlock(b)
  PROVE  /\ Sound(heap') /\ b \in Taken(heap)
         /\ Taken(heap') = Taken(heap) \ {b}
         /\ \A x \in Taken(heap) \ {b} :
              heap'.buffer[x] = heap.buffer[x] /\ heap'.size[x] = heap.size[x]
<1>. DEFINE h == MergeNext(heap, b)
<1>1. b \in Taken(heap)
  BY DEF FreeBlock, Taken
<1>2. /\ Sound(h) /\ Taken(h) = Taken(heap)
      /\ h.next[b] # HEAD => h.used[h.next[b]]
      /\ \A x \in Taken(heap) \ {b} : h.buffer[x] = heap.buffer[x] /\ h.size[x] = heap.size[x]
  BY <1>1, MergeNextSound
<1>3. heap' = MergePrev(h, b)
  BY DEF FreeBlock
<1>. HIDE DEF h
<1>4. /\ Sound(heap') /\ Taken(heap') = Taken(h) \ {b}
      /\ \A x \in Taken(h) \ {b} : heap'.buffer[x] = h.buffer[x] /\ heap'.size[x] = h.size[x]
  BY <1>1, <1>2, <1>3, MergePrevSound
<1>. QED  BY <1>1, <1>2, <1>4

\* The block that a pointer names is in the list.
LEMMA BlockFacts ==
  ASSUME NEW ptr, NEW b \in BlockAt(ptr)
  PROVE  b \in InList(heap)
BY MetStopped DEF BlockAt, First, InList

\* What the heap promises inside: the invariant of every call.
LEMMA HeapInvStep == HeapInv /\ [Next]_vars => HeapInv'
<1>. SUFFICES ASSUME Sound(heap), [Next]_vars
              PROVE  Sound(heap')
  BY DEF HeapInv
<1>1. ASSUME NEW size \in Sizes, sys_heap_alloc(size)
      PROVE  Sound(heap')
  <2>. DEFINE r == ROUND_UP(size)
  <2>1. r \in Nat /\ r > 0 /\ r % alignment = 0
    BY RoundUp
  <2>2. \/ \E b \in FirstFit(r) : AllocExact(b, r) \/ AllocSplit(b, r) \/ AllocNoBlocks(b, r)
        \/ AllocNoMem(r)
    BY <1>1 DEF sys_heap_alloc
  <2>. HIDE DEF r
  <2>3. ASSUME NEW b \in FirstFit(r), AllocExact(b, r)  PROVE Sound(heap')
    BY <2>1, <2>3, ExactStep
  <2>4. ASSUME NEW b \in FirstFit(r), AllocSplit(b, r)  PROVE Sound(heap')
    BY <2>1, <2>4, SplitStep
  <2>5. ASSUME NEW b \in FirstFit(r), AllocNoBlocks(b, r)  PROVE Sound(heap')
    BY <2>5 DEF AllocNoBlocks
  <2>6. ASSUME AllocNoMem(r)  PROVE Sound(heap')
    BY <2>6 DEF AllocNoMem
  <2>. QED  BY <2>2, <2>3, <2>4, <2>5, <2>6
<1>2. ASSUME NEW ptr \in Pointers, sys_heap_free(ptr)
      PROVE  Sound(heap')
  <2>1. ASSUME NEW b \in BlockAt(ptr), FreeBlock(b)  PROVE Sound(heap')
    BY <2>1, BlockFacts, FreeStep
  <2>2. ASSUME NEW b \in BlockAt(ptr), FreeTwice(b)  PROVE Sound(heap')
    BY <2>2 DEF FreeTwice
  <2>3. ASSUME FreeUnknown(ptr)  PROVE Sound(heap')
    BY <2>3 DEF FreeUnknown
  <2>. QED  BY <1>2, <2>1, <2>2, <2>3 DEF sys_heap_free
<1>3. ASSUME UNCHANGED vars  PROVE Sound(heap')
  BY <1>3 DEF vars
<1>. QED  BY <1>1, <1>2, <1>3 DEF Next

LEMMA HeapInvariant == Spec => []HeapInv
<1>1. Init => HeapInv
  BY InitialSound DEF Init, HeapInv
<1>. QED  BY <1>1, HeapInvStep, PTL DEF Spec

\* Whatever is allocated and released in whatever order, the list walks the
\* storage from end to end in both directions and every block is aligned: the
\* merges and splits of sys_heap_alloc and sys_heap_free lose no byte of it.
THEOREM HeapStaysIntact == Spec => []HeapIntact
<1>1. HeapInv => HeapIntact
  BY Zenon DEF HeapInv, Sound, Intact, Linked, Tiled, Aligned, End, HeapIntact,
               BlocksTileStorage, BackLinksAgree, BlocksAligned
<1>. QED  BY <1>1, HeapInvariant, PTL

\* No descriptor is lost and none is in use twice, after any number of calls.
THEOREM NoDescriptorLost == Spec => []DescriptorsConserved
<1>1. HeapInv => DescriptorsConserved
  BY DEF HeapInv, Sound, Intact, Spared, DescriptorsConserved
<1>. QED  BY <1>1, HeapInvariant, PTL

\* Two free blocks are never neighbours: what is free and adjacent is one block
\* again as soon as sys_heap_free returns.
THEOREM NoFragmentLeft == Spec => []FreeBlocksMerged
<1>1. HeapInv => FreeBlocksMerged
  BY DEF HeapInv, Sound, Merged, FreeBlocksMerged
<1>. QED  BY <1>1, HeapInvariant, PTL

-----------------------------------------------------------------------------
(***************************************************************************)
(* The allocator the heap implements, as long as no request finds the      *)
(* chain of spare descriptors empty.                                       *)
(***************************************************************************)
NoBlocks(size) == \E b \in FirstFit(size) : AllocNoBlocks(b, size)

DescriptorsLast == [][\A size \in Sizes : ~NoBlocks(ROUND_UP(size))]_vars

Allocation(h, b) == [addr |-> h.buffer[b], len |-> h.size[b]]

LEMMA AllocationsTaken == Allocations = {Allocation(heap, b) : b \in Taken(heap)}
BY DEF Allocations, Allocation, Taken

\* A piece of the storage that no allocation covers lies in one free block: what
\* is behind that block is in use.
LEMMA GapFits ==
  ASSUME Sound(heap), NEW len \in Nat, len > 0, NEW a \in Allocator!Gaps(len)
  PROVE  \E y \in InList(heap) :
           ~heap.used[y] /\ heap.size[y] >= len /\ heap.buffer[y] <= a
<1>1. heap \in HeapType /\ Intact(heap, InList(heap), SpareChain(heap))
  BY DEF Sound
<1>2. /\ a \in Nat /\ storage <= a /\ a + len <= storage + storage_size
      /\ \A t \in Allocations : a + len <= t.addr \/ t.addr + t.len <= a
  BY SizeAssumption DEF Allocator!Gaps, Allocator!Free, Allocator!Disjoint
<1>3. \A x \in Taken(heap) : a + len <= heap.buffer[x] \/ End(heap, x) <= a
  <2>1. \A x \in Taken(heap) : Allocation(heap, x) \in Allocations
    BY AllocationsTaken
  <2>2. \A x \in Taken(heap) :
          /\ Allocation(heap, x).addr = heap.buffer[x] /\ Allocation(heap, x).len = heap.size[x]
    BY DEF Allocation
  <2>. QED  BY <1>2, <2>1, <2>2 DEF End
<1>4. storage \in Nat /\ storage_size \in Nat
  BY SizeAssumption
<1>5. a < storage + storage_size
  BY <1>2, <1>4
<1>6. PICK y \in InList(heap) : heap.buffer[y] <= a /\ a < End(heap, y)
  BY <1>1, <1>2, <1>5, StorageCovered
<1>7. ~heap.used[y]
  BY <1>1, <1>2, <1>3, <1>6, Placed DEF Taken
<1>8. a + len <= End(heap, y)
  <2>1. CASE heap.next[y] = HEAD
    BY <1>1, <1>2, <2>1, Placed
  <2>2. CASE heap.next[y] # HEAD
    <3>1. heap.next[y] \in Taken(heap)
      BY <1>1, <1>7, <2>2, Placed DEF Sound, Merged, Taken
    <3>2. heap.buffer[heap.next[y]] = End(heap, y) /\ heap.next[y] \in InList(heap)
      BY <1>1, <2>2, Placed
    <3>3. End(heap, heap.next[y]) > a
      BY <1>1, <1>2, <1>6, <3>2, Placed
    <3>. QED  BY <1>1, <1>2, <1>3, <3>1, <3>2, <3>3, Placed
  <2>. QED  BY <2>1, <2>2
<1>. QED  BY <1>1, <1>2, <1>6, <1>7, <1>8, Placed

\* The first block that fits starts the lowest piece of that length, ...
LEMMA FitIsLowestGap ==
  ASSUME Sound(heap), NEW len \in Nat, len > 0, NEW b \in FirstFit(len)
  PROVE  /\ heap.buffer[b] \in Allocator!Gaps(len)
         /\ \A a \in Allocator!Gaps(len) : heap.buffer[b] <= a
<1>1. heap \in HeapType /\ Intact(heap, InList(heap), SpareChain(heap))
  BY DEF Sound
<1>2. /\ b \in InList(heap) /\ ~heap.used[b] /\ heap.size[b] >= len
      /\ heap.buffer[b] \in Nat /\ heap.size[b] \in Nat
      /\ \A x \in InList(heap) :
           ~heap.used[x] /\ heap.size[x] >= len => heap.buffer[b] <= heap.buffer[x]
  BY FitFacts
<1>3. heap.buffer[b] \in Allocator!Gaps(len)
  <2>1. /\ storage <= heap.buffer[b] /\ End(heap, b) <= storage + storage_size
        /\ End(heap, b) = heap.buffer[b] + heap.size[b]
        /\ storage \in Nat /\ storage_size \in Nat
    BY <1>1, <1>2, Placed
  <2>2. ASSUME NEW x \in Taken(heap)
        PROVE  heap.buffer[b] + len <= heap.buffer[x] \/ End(heap, x) <= heap.buffer[b]
    <3>1. x \in InList(heap) /\ x # b
      BY <1>2 DEF Taken
    <3>. QED  BY <1>1, <1>2, <3>1, Placed
  <2>3. \A t \in Allocations : Allocator!Disjoint(heap.buffer[b], len, t)
    BY <2>2, AllocationsTaken DEF Allocation, Allocator!Disjoint, End
  <2>4. heap.buffer[b] + len <= storage + storage_size
    BY <1>2, <2>1
  <2>5. heap.buffer[b] \in storage .. (storage + storage_size)
    BY <1>2, <2>1
  <2>. QED  BY <2>3, <2>4, <2>5 DEF Allocator!Gaps, Allocator!Free
<1>4. ASSUME NEW a \in Allocator!Gaps(len)
      PROVE  heap.buffer[b] <= a
  <2>1. PICK y \in InList(heap) : ~heap.used[y] /\ heap.size[y] >= len /\ heap.buffer[y] <= a
    BY GapFits
  <2>2. a \in Nat /\ heap.buffer[y] \in Nat
    BY <1>1, SizeAssumption, Placed DEF Allocator!Gaps
  <2>. QED  BY <1>2, <2>1, <2>2
<1>. QED  BY <1>3, <1>4

\* ... and there is no piece of it when no block fits.
LEMMA NoFitNoGap ==
  ASSUME Sound(heap), NEW len \in Nat, len > 0, FirstFit(len) = {}
  PROVE  Allocator!Gaps(len) = {}
<1>1. \A x \in InList(heap) : ~(~heap.used[x] /\ heap.size[x] >= len)
  <2>. DEFINE wanted == {x \in Blocks : Fits(x, len)}
  <2>1. InList(heap) \cap wanted = {}
    <3>1. First(heap, wanted) = {}
      BY DEF FirstFit
    <3>. HIDE DEF wanted
    <3>. QED  BY <3>1, FirstIsNone
  <2>. QED  BY <2>1, ListFollows DEF Fits
<1>. QED  BY <1>1, GapFits

\* The call that takes block b is the allocation of its addresses.
LEMMA TakingIsAlloc ==
  ASSUME Sound(heap), NEW len \in Nat, len > 0, NEW b \in FirstFit(len),
         Taken(heap') = Taken(heap) \cup {b},
         heap'.buffer[b] = heap.buffer[b], heap'.size[b] = len, result' = heap.buffer[b],
         \A x \in Taken(heap) : heap'.buffer[x] = heap.buffer[x] /\ heap'.size[x] = heap.size[x]
  PROVE  Allocator!Alloc(len)
<1>1. Allocations' = {Allocation(heap', x) : x \in Taken(heap')}
  BY DEF Allocations, Allocation, Taken
<1>2. Allocations' = Allocations \cup {[addr |-> heap.buffer[b], len |-> len]}
  BY <1>1, AllocationsTaken DEF Allocation
<1>. QED  BY <1>2, FitIsLowestGap DEF Allocator!Alloc

\* The call that releases block b releases its addresses.
LEMMA FreeingIsRelease ==
  ASSUME Sound(heap), NEW b \in Taken(heap),
         Taken(heap') = Taken(heap) \ {b}, result' = SUCCESS,
         \A x \in Taken(heap) \ {b} :
           heap'.buffer[x] = heap.buffer[x] /\ heap'.size[x] = heap.size[x]
  PROVE  \E t \in Allocations : Allocator!Release(t)
<1>1. Allocations' = {Allocation(heap', x) : x \in Taken(heap')}
  BY DEF Allocations, Allocation, Taken
<1>2. \A x \in Taken(heap) \ {b} : Allocation(heap', x) = Allocation(heap, x)
  BY DEF Allocation
<1>3. \A x \in Taken(heap) \ {b} : Allocation(heap, x) # Allocation(heap, b)
  <2>1. \A x \in Taken(heap) \ {b} : heap.buffer[x] # heap.buffer[b]
    BY Placed DEF Sound, Taken
  <2>. QED  BY <2>1 DEF Allocation
<1>4. Allocation(heap, b) \in Allocations
  BY AllocationsTaken
<1>5. Allocations' = Allocations \ {Allocation(heap, b)}
  BY <1>1, <1>2, <1>3, AllocationsTaken
<1>. QED  BY <1>4, <1>5 DEF Allocator!Release

LEMMA StepIsAllocatorStep ==
  HeapInv /\ [Next]_vars /\ [\A size \in Sizes : ~NoBlocks(ROUND_UP(size))]_vars
    => [Allocator!Next]_(Allocator!vars)
<1>. SUFFICES ASSUME Sound(heap), [Next]_vars,
                     [\A size \in Sizes : ~NoBlocks(ROUND_UP(size))]_vars
              PROVE  Allocator!Next \/ UNCHANGED Allocator!vars
  BY DEF HeapInv
<1>1. ASSUME NEW size \in Sizes, sys_heap_alloc(size)
      PROVE  Allocator!Next \/ UNCHANGED Allocator!vars
  <2>. DEFINE r == ROUND_UP(size)
  <2>1. r \in Nat /\ r > 0 /\ r % alignment = 0 /\ r \in {ROUND_UP(s) : s \in Sizes}
    BY RoundUp
  <2>2. \/ \E b \in FirstFit(r) : AllocExact(b, r) \/ AllocSplit(b, r) \/ AllocNoBlocks(b, r)
        \/ AllocNoMem(r)
    BY <1>1 DEF sys_heap_alloc
  <2>3. ASSUME NoBlocks(r)  PROVE UNCHANGED Allocator!vars
    <3>1. UNCHANGED vars
      BY <2>3
    <3>. QED  BY <3>1 DEF vars, Allocator!vars, Allocations
  <2>. HIDE DEF r
  <2>4. ASSUME NEW b \in FirstFit(r), AllocExact(b, r)  PROVE Allocator!Alloc(r)
    <3>1. result' = heap.buffer[b]
      BY <2>4 DEF AllocExact
    <3>. QED  BY <2>1, <2>4, <3>1, ExactStep, TakingIsAlloc
  <2>5. ASSUME NEW b \in FirstFit(r), AllocSplit(b, r)  PROVE Allocator!Alloc(r)
    <3>1. result' = heap.buffer[b]
      BY <2>5 DEF AllocSplit
    <3>. QED  BY <2>1, <2>5, <3>1, SplitStep, TakingIsAlloc
  <2>6. ASSUME NEW b \in FirstFit(r), AllocNoBlocks(b, r)  PROVE UNCHANGED Allocator!vars
    BY <2>3, <2>6 DEF NoBlocks
  <2>7. ASSUME AllocNoMem(r)  PROVE Allocator!AllocRefused(r)
    <3>1. Allocator!Gaps(r) = {}
      BY <2>1, <2>7, NoFitNoGap DEF AllocNoMem
    <3>. QED  BY <2>7, <3>1 DEF AllocNoMem, Allocator!AllocRefused, Allocations
  <2>. QED  BY <2>1, <2>2, <2>4, <2>5, <2>6, <2>7 DEF Allocator!Next
<1>2. ASSUME NEW ptr \in Pointers, sys_heap_free(ptr)
      PROVE  Allocator!Next \/ UNCHANGED Allocator!vars
  <2>1. ASSUME NEW b \in BlockAt(ptr), FreeBlock(b)
        PROVE  \E t \in Allocations : Allocator!Release(t)
    <3>1. result' = SUCCESS
      BY <2>1 DEF FreeBlock
    <3>. QED  BY <2>1, <3>1, BlockFacts, FreeStep, FreeingIsRelease
  <2>2. ASSUME NEW b \in BlockAt(ptr), FreeTwice(b)  PROVE Allocator!ReleaseNothing
    BY <2>2 DEF FreeTwice, Allocator!ReleaseNothing, Allocations
  <2>3. ASSUME FreeUnknown(ptr)  PROVE Allocator!ReleaseNothing
    BY <2>3 DEF FreeUnknown, Allocator!ReleaseNothing, Allocations
  <2>. QED  BY <1>2, <2>1, <2>2, <2>3 DEF sys_heap_free, Allocator!Next
<1>3. ASSUME UNCHANGED vars  PROVE UNCHANGED Allocator!vars
  BY <1>3 DEF vars, Allocator!vars, Allocations
<1>. QED  BY <1>1, <1>2, <1>3 DEF Next

\* The blocks, their links and the first-fit search of sys_heap_alloc and
\* sys_heap_free are an allocator that serves each request from the lowest free
\* piece of its length and refuses it only if there is none, as long as no
\* request that needs a descriptor finds none.
THEOREM HeapIsLowestFit == Spec /\ DescriptorsLast => AllocatorSpec
<1>1. Init => Allocator!Init
  <2>1. Taken(InitialHeap) = {}
    BY InitialList, InitialFields DEF Taken
  <2>. QED  BY <2>1, AllocationsTaken DEF Init, Allocator!Init
<1>. QED  BY <1>1, HeapInvariant, StepIsAllocatorStep, PTL
          DEF Spec, DescriptorsLast, AllocatorSpec, Allocator!Spec

\* A block that sys_heap_alloc returns belongs to the caller: it is in the list,
\* marked, and no smaller than was asked for, unless no descriptor was left.
THEOREM CallersOwnTheirBlocks == Spec /\ DescriptorsLast => CallerOwnsBlock
<1>1. ASSUME Sound(heap), NEW size \in Sizes, sys_heap_alloc(size), ~NoBlocks(ROUND_UP(size))
      PROVE  \/ result' = NULL
             \/ \E b \in InList(heap') : /\ heap'.buffer[b] = result'
                                         /\ heap'.used[b]
                                         /\ heap'.size[b] >= size
  <2>. DEFINE r == ROUND_UP(size)
  <2>1. r \in Nat /\ r > 0 /\ r % alignment = 0 /\ r >= size
    BY RoundUp
  <2>2. \/ \E b \in FirstFit(r) : AllocExact(b, r) \/ AllocSplit(b, r)
        \/ AllocNoMem(r)
    BY <1>1 DEF sys_heap_alloc, NoBlocks
  <2>. HIDE DEF r
  <2>3. ASSUME NEW b \in FirstFit(r), AllocExact(b, r)
        PROVE  /\ b \in InList(heap') /\ heap'.used[b]
               /\ heap'.buffer[b] = result' /\ heap'.size[b] = r
    <3>1. /\ Taken(heap') = Taken(heap) \cup {b}
          /\ heap'.buffer = heap.buffer /\ heap'.size = heap.size /\ heap.size[b] = r
      BY <1>1, <2>1, <2>3, ExactStep
    <3>. QED  BY <2>3, <3>1 DEF AllocExact, Taken
  <2>4. ASSUME NEW b \in FirstFit(r), AllocSplit(b, r)
        PROVE  /\ b \in InList(heap') /\ heap'.used[b]
               /\ heap'.buffer[b] = result' /\ heap'.size[b] = r
    <3>1. /\ Taken(heap') = Taken(heap) \cup {b}
          /\ heap'.buffer[b] = heap.buffer[b] /\ heap'.size[b] = r
      BY <1>1, <2>1, <2>4, SplitStep
    <3>. QED  BY <2>4, <3>1 DEF AllocSplit, Taken
  <2>5. AllocNoMem(r) => result' = NULL
    BY DEF AllocNoMem
  <2>. QED  BY <2>1, <2>2, <2>3, <2>4, <2>5
<1>2. ASSUME HeapInv, [\A size \in Sizes : ~NoBlocks(ROUND_UP(size))]_vars
      PROVE  [\A size \in Sizes : sys_heap_alloc(size) =>
                \/ result' = NULL
                \/ \E b \in InList(heap') : /\ heap'.buffer[b] = result'
                                            /\ heap'.used[b]
                                            /\ heap'.size[b] >= size]_vars
  BY <1>1, <1>2 DEF HeapInv
<1>. QED  BY <1>2, HeapInvariant, PTL DEF DescriptorsLast, CallerOwnsBlock

-----------------------------------------------------------------------------
(***************************************************************************)
(* How many descriptors are enough for that.                               *)
(***************************************************************************)

\* A request that finds no descriptor finds one block for each of them, and an
\* address inside one of these that no block starts at: more units of the
\* alignment than there are descriptors.
LEMMA BlocksExhausted ==
  ASSUME Sound(heap), NEW size \in Nat, size > 0, size % alignment = 0, NoBlocks(size)
  PROVE  storage_size > blocks_count * alignment
<1>. SUFFICES ASSUME storage_size <= alignment * blocks_count
              PROVE  FALSE
  BY SizeAssumption
<1>1. heap \in HeapType /\ Intact(heap, InList(heap), SpareChain(heap))
  BY DEF Sound
<1>2. PICK b \in FirstFit(size) : heap.spare = NONE /\ heap.size[b] # size
  BY DEF NoBlocks, AllocNoBlocks
<1>3. InList(heap) = Blocks
  <2>1. SpareChain(heap) \subseteq {}
    <3>1. NONE \notin Blocks
      BY DEF NONE, Blocks
    <3>. DEFINE S == {x \in Blocks : FALSE}
    <3>2. S \in SUBSET Blocks /\ \A x \in S : heap.next[x] \in Blocks => heap.next[x] \in S
      OBVIOUS
    <3>3. heap.spare \in Blocks => heap.spare \in S
      BY <1>2, <3>1
    <3>. HIDE DEF S
    <3>4. SpareChain(heap) \subseteq S
      BY <3>2, <3>3, ChainLeast
    <3>. QED  BY <3>4 DEF S
  <2>. QED  BY <1>1, <2>1 DEF Intact, Spared
<1>4. b \in Blocks /\ size < heap.size[b] /\ heap.buffer[b] \in Nat /\ heap.size[b] \in Nat
  BY <1>2, FitFacts
<1>5. /\ alignment \in Nat \ {0} /\ blocks_count \in Nat \ {0}
      /\ storage \in Nat /\ storage_size \in Nat
  BY SizeAssumption
<1>. DEFINE Slots      == 0 .. blocks_count
            Units      == 0 .. blocks_count - 1
            address[i \in Slots] ==
              IF i = blocks_count THEN heap.buffer[b] + size ELSE heap.buffer[i]
<1>6. \A i \in Slots : i # blocks_count => i \in Blocks
  BY <1>5 DEF Blocks
<1>7. \A i \in Slots :
        /\ address[i] \in Nat /\ storage <= address[i] /\ address[i] < storage + storage_size
        /\ address[i] % alignment = storage % alignment
  <2>1. \A x \in Blocks :
          /\ heap.buffer[x] \in Nat /\ storage <= heap.buffer[x]
          /\ heap.buffer[x] + heap.size[x] <= storage + storage_size
          /\ heap.size[x] \in Nat /\ heap.size[x] > 0
    BY <1>1, <1>3, Placed
  <2>2. \A x \in Blocks : heap.buffer[x] % alignment = storage % alignment
    BY <1>1, <1>3 DEF Intact, Aligned
  <2>3. (heap.buffer[b] + size) % alignment = storage % alignment
    <3>1. PICK c \in Int : c = heap.buffer[b]
      BY <1>4
    <3>2. size \in Int
      OBVIOUS
    <3>3. (c + size) % alignment = c % alignment
      BY ONLY <1>5, <3>2, c \in Int, size % alignment = 0, PlusMultiple
    <3>. QED  BY ONLY <1>4, <2>2, <3>1, <3>3
  <2>4. heap.buffer[b] + size \in Nat /\ storage <= heap.buffer[b] + size
        /\ heap.buffer[b] + size < storage + storage_size
    BY <1>4, <1>5, <2>1
  <2>5. \A x \in Blocks : heap.buffer[x] < storage + storage_size
    BY <1>5, <2>1
  <2>. QED  BY ONLY <1>6, <2>1, <2>2, <2>3, <2>4, <2>5
<1>8. \A i, j \in Slots : i # j => address[i] # address[j]
  <2>1. \A x, y \in Blocks :
          /\ heap.buffer[x] \in Nat /\ heap.size[x] \in Nat /\ heap.size[x] > 0
          /\ x # y => \/ heap.buffer[x] + heap.size[x] <= heap.buffer[y]
                      \/ heap.buffer[y] + heap.size[y] <= heap.buffer[x]
    BY <1>1, <1>3, Placed
  <2>2. \A x \in Blocks : heap.buffer[x] # heap.buffer[b] + size
    BY <1>4, <2>1
  <2>3. \A x, y \in Blocks : x # y => heap.buffer[x] # heap.buffer[y]
    BY <2>1
  <2>. QED  BY <1>6, <2>2, <2>3
<1>. HIDE DEF address
<1>9. \A i \in Slots : \E q \in Units : address[i] - storage = alignment * q
  <2>. SUFFICES ASSUME NEW i \in Slots
                PROVE  \E q \in Units : address[i] - storage = alignment * q
    OBVIOUS
  <2>1. PICK a \in Int : a = address[i]
    BY <1>7
  <2>2. a % alignment = storage % alignment
    BY ONLY <1>7, <2>1, i \in Slots
  <2>3. storage \in Int
    BY <1>5
  <2>4. PICK q \in Int : a - storage = alignment * q
    BY ONLY <1>5, <2>2, <2>3, a \in Int, SameRemainder
  <2>5. 0 <= a - storage /\ a - storage < storage_size
    BY ONLY <1>5, <1>7, <2>1, i \in Slots, a \in Int
  <2>6. PICK m \in Int : m = alignment * blocks_count
    BY <1>5
  <2>7. 0 <= alignment * q /\ alignment * q < alignment * blocks_count
    <3>1. alignment * q < m
      <4>1. a - storage \in Int
        BY <2>3
      <4>. QED  BY ONLY <1>5, <2>4, <2>5, <2>6, <4>1, storage_size <= alignment * blocks_count, m \in Int
    <3>. QED  BY ONLY <2>4, <2>5, <2>6, <3>1
  <2>8. q \in Units
    BY ONLY <1>5, <2>7, q \in Int, FewerMultiples
  <2>. QED  BY ONLY <2>1, <2>4, <2>8
<1>. DEFINE f == [i \in Slots |-> CHOOSE q \in Units : address[i] - storage = alignment * q]
<1>10. /\ f \in [Slots -> Units]
       /\ \A i \in Slots : address[i] - storage = alignment * f[i]
  BY <1>9
<1>11. /\ IsFiniteSet(Slots) /\ IsFiniteSet(Units)
       /\ Cardinality(Slots) = blocks_count + 1 /\ Cardinality(Units) = blocks_count
  BY <1>5, FS_Interval
<1>12. Cardinality(Units) < Cardinality(Slots)
  BY <1>5, <1>11
<1>. HIDE DEF f, Slots, Units
<1>13. PICK i \in Slots, j \in Slots : i # j /\ f[i] = f[j]
  BY <1>10, <1>11, <1>12, FS_PigeonHole
<1>14. address[i] - storage = address[j] - storage
  BY <1>10, <1>13
<1>15. address[i] = address[j]
  BY <1>5, <1>7, <1>14
<1>. QED  BY <1>8, <1>13, <1>15

\* With a descriptor for each unit of the storage the heap never runs out of them,
\* and is the allocator without further conditions.
THEOREM OneDescriptorPerUnit ==
  storage_size <= blocks_count * alignment => (Spec => AllocatorSpec)
<1>. SUFFICES ASSUME storage_size <= blocks_count * alignment
              PROVE  Spec => AllocatorSpec
  OBVIOUS
<1>1. HeapInv => \A size \in Sizes : ~NoBlocks(ROUND_UP(size))
  <2>. SUFFICES ASSUME Sound(heap), NEW size \in Sizes, NoBlocks(ROUND_UP(size))
                PROVE  FALSE
    BY DEF HeapInv
  <2>1. storage_size > blocks_count * alignment
    BY RoundUp, BlocksExhausted
  <2>2. blocks_count * alignment \in Nat /\ storage_size \in Nat
    BY SizeAssumption
  <2>. QED  BY <2>1, <2>2
<1>2. HeapInv => [\A size \in Sizes : ~NoBlocks(ROUND_UP(size))]_vars
  BY <1>1
<1>3. Spec => DescriptorsLast
  BY <1>2, HeapInvariant, PTL DEF DescriptorsLast
<1>. QED  BY <1>3, HeapIsLowestFit, PTL
=============================================================================
