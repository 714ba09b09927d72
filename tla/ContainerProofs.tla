----------------------------- MODULE ContainerProofs -----------------------------
(***************************************************************************)
(* Proofs about the container format, for containers of every capacity,    *)
(* any number of writes and any number of crashes.                         *)
(*                                                                         *)
(* First the layout: no region reaches into another, no two slots share a  *)
(* byte.  Then the bitmap: the operations on its bytes are the operations  *)
(* of module Allocator on the set of occupied blocks.  Then the file as a  *)
(* function of the writes made to it: what a field reads as is decided by  *)
(* the last write over it (CellAfter), a write leaves alone every slot     *)
(* that it does not begin in, and what the decoder of a slot makes of its  *)
(* fields follows from the history of that slot alone.  The invariant      *)
(* (ContainerInv) relates the fields of each slot to that history.         *)
(***************************************************************************)
EXTENDS Container, SequenceLemmas, FiniteSetTheorems

USE CapacitiesAssumption

(* The sizes that create computes are counts, and at least one of each.    *)
LEMMA SizesAreCounts ==
  ASSUME NEW c, ValidCapacity(c)
  PROVE  /\ BlockCount(c) \in Nat \ {0}
         /\ BitmapLen(BlockCount(c)) \in Nat \ {0}
         /\ MaxFileSlots(c) \in Nat \ {0}
         /\ MaxChainRecords(c) \in Nat \ {0}
  BY DEF ValidCapacity, BlockCount, BlockSize, BitmapLen, MaxFileSlots, MaxChainRecords, Clamp

(* A number of slots takes a number of bytes.                              *)
LEMMA SpansAreCounts ==
  ASSUME NEW c, ValidCapacity(c)
  PROVE  /\ BitmapLen(BlockCount(c)) \in Nat
         /\ MaxFileSlots(c) * EntrySize \in Nat
         /\ MaxRecipientSlots * RecipientSlotSize \in Nat
         /\ MaxChainRecords(c) * ChainRecordSize \in Nat
         /\ BlockCount(c) * BlockSize \in Nat
<1>1. /\ BitmapLen(BlockCount(c)) \in Nat /\ BlockCount(c) \in Nat
      /\ MaxFileSlots(c) \in Nat /\ MaxChainRecords(c) \in Nat
  BY SizesAreCounts
<1>2. MaxFileSlots(c) * EntrySize \in Nat
  BY <1>1 DEF EntrySize
<1>3. MaxRecipientSlots * RecipientSlotSize \in Nat
  BY DEF MaxRecipientSlots, RecipientSlotSize
<1>4. MaxChainRecords(c) * ChainRecordSize \in Nat
  BY <1>1 DEF ChainRecordSize
<1>5. BlockCount(c) * BlockSize \in Nat
  BY <1>1 DEF BlockSize
<1> QED
  BY <1>1, <1>2, <1>3, <1>4, <1>5

(* Where the regions begin, and where the file ends.                       *)
LEMMA RegionOrder ==
  ASSUME NEW c, ValidCapacity(c)
  PROVE  /\ FileTableOffset(c) = BitmapOffset + BitmapLen(BlockCount(c))
         /\ RecipientOffset(c) = FileTableOffset(c) + MaxFileSlots(c) * EntrySize
         /\ ChainOffset(c) = RecipientOffset(c) + MaxRecipientSlots * RecipientSlotSize
         /\ DataOffset(c) = ChainOffset(c) + MaxChainRecords(c) * ChainRecordSize
         /\ TotalSize(c) = DataOffset(c) + BlockCount(c) * BlockSize
         /\ FileTableOffset(c) \in Nat /\ RecipientOffset(c) \in Nat
         /\ ChainOffset(c) \in Nat /\ DataOffset(c) \in Nat
<1>1. /\ RegionLen("bitmap", c) = BitmapLen(BlockCount(c))
      /\ RegionLen("entry", c) = MaxFileSlots(c) * EntrySize
      /\ RegionLen("recipient", c) = MaxRecipientSlots * RecipientSlotSize
      /\ RegionLen("chain", c) = MaxChainRecords(c) * ChainRecordSize
  BY SizesAreCounts DEF RegionLen, SlotCount, SlotSize
<1>2. /\ FileTableOffset(c) = BitmapOffset + BitmapLen(BlockCount(c))
      /\ RecipientOffset(c) = FileTableOffset(c) + MaxFileSlots(c) * EntrySize
      /\ ChainOffset(c) = RecipientOffset(c) + MaxRecipientSlots * RecipientSlotSize
      /\ DataOffset(c) = ChainOffset(c) + MaxChainRecords(c) * ChainRecordSize
      /\ TotalSize(c) = DataOffset(c) + BlockCount(c) * BlockSize
  BY <1>1 DEF FileTableOffset, RecipientOffset, ChainOffset, DataOffset, TotalSize
<1>3. BitmapOffset \in Nat
  BY DEF BitmapOffset, HeaderSize
<1>4. FileTableOffset(c) \in Nat
  BY <1>2, <1>3, SpansAreCounts
<1>5. RecipientOffset(c) \in Nat
  BY <1>2, <1>4, SpansAreCounts
<1>6. ChainOffset(c) \in Nat
  BY <1>2, <1>5, SpansAreCounts
<1>7. DataOffset(c) \in Nat
  BY <1>2, <1>6, SpansAreCounts
<1> QED
  BY <1>2, <1>4, <1>5, <1>6, <1>7

(* The end of a region is the beginning of the next one.                   *)
RegionEndOf(kind, c) == SlotOffset(kind, SlotCount(kind, c), c)
LEMMA RegionEnds ==
  ASSUME NEW c, ValidCapacity(c)
  PROVE  /\ RegionEndOf("header", c) = BitmapOffset
         /\ RegionEndOf("bitmap", c) = FileTableOffset(c)
         /\ RegionEndOf("entry", c) = RecipientOffset(c)
         /\ RegionEndOf("recipient", c) = ChainOffset(c)
         /\ RegionEndOf("chain", c) = DataOffset(c)
         /\ RegionEndOf("block", c) = TotalSize(c)
  BY RegionOrder, SizesAreCounts
  DEF RegionEndOf, SlotOffset, RegionOffset, SlotSize, SlotCount, BitmapOffset, HeaderSize

LEMMA RegionsInOrder ==
  ASSUME NEW c, ValidCapacity(c), NEW k \in RegionKinds, NEW l \in RegionKinds
  PROVE  /\ RegionEndOf(k, c) <= TotalSize(c)
         /\ k # l => RegionEndOf(k, c) <= RegionOffset(l, c)
                     \/ RegionEndOf(l, c) <= RegionOffset(k, c)
<1>1. /\ BitmapOffset \in Nat /\ FileTableOffset(c) \in Nat /\ RecipientOffset(c) \in Nat
      /\ ChainOffset(c) \in Nat /\ DataOffset(c) \in Nat
  BY RegionOrder DEF BitmapOffset, HeaderSize
<1>2. BitmapOffset <= FileTableOffset(c)
  BY <1>1, SpansAreCounts, RegionOrder
<1>3. FileTableOffset(c) <= RecipientOffset(c)
  BY <1>1, SpansAreCounts, RegionOrder
<1>4. RecipientOffset(c) <= ChainOffset(c)
  BY <1>1, SpansAreCounts, RegionOrder
<1>5. ChainOffset(c) <= DataOffset(c)
  BY <1>1, SpansAreCounts, RegionOrder
<1>6. DataOffset(c) <= TotalSize(c) /\ TotalSize(c) \in Nat
  BY <1>1, SpansAreCounts, RegionOrder
<1> QED
  BY <1>1, <1>2, <1>3, <1>4, <1>5, <1>6, RegionEnds DEF RegionKinds, RegionOffset

(* Of slots of one size, a slot ends before a later one begins.            *)
LEMMA SlotsInOrder ==
  ASSUME NEW m \in Nat, NEW n \in Nat, m < n, NEW size \in Nat
  PROVE  m * size + size <= n * size /\ m * size \in Nat /\ n * size \in Nat
<1>1. (m + 1) * size <= n * size
  OBVIOUS
<1> QED
  BY <1>1

(* No two slots of a container of any capacity share a byte, and no slot   *)
(* reaches beyond the end of the file: what one write_at writes is never a *)
(* part of another record (Vault::create, the slot offsets of vault.rs).   *)
Slots(kind, c) == 0 .. SlotCount(kind, c) - 1
THEOREM SlotsAreApart ==
  ASSUME NEW c, ValidCapacity(c),
         NEW k \in RegionKinds, NEW i \in Slots(k, c),
         NEW l \in RegionKinds, NEW j \in Slots(l, c)
  PROVE  /\ SlotEnd(k, i, c) <= TotalSize(c)
         /\ <<k, i>> # <<l, j>> => SlotEnd(k, i, c) <= SlotOffset(l, j, c)
                                   \/ SlotEnd(l, j, c) <= SlotOffset(k, i, c)
<1>1. \A m \in RegionKinds : /\ SlotCount(m, c) \in Nat /\ SlotSize(m, c) \in Nat
                             /\ RegionOffset(m, c) \in Nat
  BY RegionOrder, SizesAreCounts
  DEF RegionKinds, SlotCount, SlotSize, RegionOffset, HeaderSize, BitmapOffset, EntrySize,
      RecipientSlotSize, ChainRecordSize, BlockSize, MaxRecipientSlots
<1>2. ASSUME NEW m \in RegionKinds, NEW n \in Slots(m, c)
      PROVE  /\ RegionOffset(m, c) <= SlotOffset(m, n, c)
             /\ SlotEnd(m, n, c) <= RegionEndOf(m, c)
             /\ SlotOffset(m, n, c) \in Nat /\ SlotEnd(m, n, c) \in Nat
             /\ RegionEndOf(m, c) \in Nat
  <2> DEFINE count == SlotCount(m, c)
             size == SlotSize(m, c)
  <2>1. count \in Nat /\ size \in Nat /\ n \in Nat /\ n < count
    BY <1>1 DEF Slots
  <2>2. n * size + size <= count * size /\ n * size \in Nat /\ count * size \in Nat
    BY <2>1, SlotsInOrder
  <2> QED
    BY <1>1, <2>1, <2>2 DEF SlotOffset, SlotEnd, RegionEndOf
<1>3. TotalSize(c) \in Nat
  BY RegionOrder, SpansAreCounts
<1>4. SlotEnd(k, i, c) <= TotalSize(c)
  BY <1>2, <1>3, RegionsInOrder
<1>5. ASSUME k # l
      PROVE  SlotEnd(k, i, c) <= SlotOffset(l, j, c) \/ SlotEnd(l, j, c) <= SlotOffset(k, i, c)
  <2>1. CASE RegionEndOf(k, c) <= RegionOffset(l, c)
    BY <1>1, <1>2, <2>1
  <2>2. CASE RegionEndOf(l, c) <= RegionOffset(k, c)
    BY <1>1, <1>2, <2>2
  <2> QED
    BY <1>5, <2>1, <2>2, RegionsInOrder
<1>6. ASSUME k = l, i # j
      PROVE  SlotEnd(k, i, c) <= SlotOffset(l, j, c) \/ SlotEnd(l, j, c) <= SlotOffset(k, i, c)
  <2> DEFINE size == SlotSize(k, c)
  <2>1. size \in Nat /\ i \in Nat /\ j \in Nat /\ RegionOffset(k, c) \in Nat
    BY <1>1, <1>6 DEF Slots
  <2>2. CASE i < j
    <3>1. i * size + size <= j * size /\ i * size \in Nat /\ j * size \in Nat
      BY <2>1, <2>2, SlotsInOrder
    <3> QED  BY <1>6, <2>1, <3>1 DEF SlotEnd, SlotOffset
  <2>3. CASE j < i
    <3>1. j * size + size <= i * size /\ i * size \in Nat /\ j * size \in Nat
      BY <2>1, <2>3, SlotsInOrder
    <3> QED  BY <1>6, <2>1, <3>1 DEF SlotEnd, SlotOffset
  <2> QED
    BY <1>6, <2>1, <2>2, <2>3
<1> QED
  BY <1>4, <1>5, <1>6

-------------------------------------------------------------------------------
(* The header's regions are those of the capacity and never change.        *)
Shape == capacity \in Capacities /\ region = RegionsFor(capacity)

LEMMA ShapeHolds == ContainerSpec => []Shape
<1>1. ContainerInit => Shape
  BY DEF ContainerInit, Shape
<1>2. Shape /\ [ContainerNext]_containerVars => Shape'
  <2> SUFFICES ASSUME Shape, [ContainerNext]_containerVars PROVE Shape'
    OBVIOUS
  <2>1. UNCHANGED <<capacity, region>>
    BY DEF ContainerNext, containerVars, CreateRegion, CreationCutOff, WriteRecord,
           WriteCutOff, WriteTo, WriteBitmap, WriteBitmapCutOff, AllocateBlocks,
           FreeBlocks, Ask, Open, Close
  <2> QED
    BY <2>1 DEF Shape, RegionsFor
<1> QED
  BY <1>1, <1>2, PTL DEF ContainerSpec

(* In every container, whatever its capacity, regions are apart.           *)
THEOREM RegionsStayApart == ContainerSpec => []RecordsApart
<1>1. Shape => RecordsApart
  <2> SUFFICES ASSUME Shape, NEW k \in RegionKinds, NEW l \in RegionKinds
               PROVE  /\ RegionEnd(k) <= TotalSize(capacity)
                      /\ k # l => RegionEnd(k) <= SlotAt(l, 0) \/ RegionEnd(l) <= SlotAt(k, 0)
    BY DEF RecordsApart
  <2>1. ValidCapacity(capacity)
    BY DEF Shape
  <2>2. \A m \in RegionKinds :
          /\ SlotAt(m, 0) = RegionOffset(m, capacity)
          /\ RegionEnd(m) = RegionEndOf(m, capacity)
    <3> SUFFICES ASSUME NEW m \in RegionKinds
                 PROVE  /\ SlotAt(m, 0) = RegionOffset(m, capacity)
                        /\ RegionEnd(m) = RegionEndOf(m, capacity)
      OBVIOUS
    <3>1. region[m] = [offset |-> RegionOffset(m, capacity), size |-> SlotSize(m, capacity),
                       count |-> SlotCount(m, capacity)]
      BY DEF Shape, RegionsFor
    <3>2. RegionOffset(m, capacity) \in Nat /\ SlotSize(m, capacity) \in Nat
      BY <2>1, RegionOrder, SizesAreCounts
      DEF RegionKinds, SlotSize, RegionOffset, HeaderSize, BitmapOffset, EntrySize,
          RecipientSlotSize, ChainRecordSize, BlockSize
    <3> QED
      BY <3>1, <3>2 DEF SlotAt, RegionEnd, RegionEndOf, SlotOffset
  <2> QED
    BY <2>1, <2>2, RegionsInOrder
<1> QED
  BY <1>1, ShapeHolds, PTL

-------------------------------------------------------------------------------
(* Block i is bit i % 8 of byte i \div 8, which is a byte of the bitmap, and *)
(* no other block is.                                                      *)
LEMMA BitsOfBlocks ==
  ASSUME NEW n \in Nat, NEW i \in 0 .. n - 1
  PROVE  /\ i % 8 \in 0 .. 7 /\ i \div 8 \in 0 .. BitmapLen(n) - 1
         /\ \A x \in Nat : x % 8 = i % 8 /\ x \div 8 = i \div 8 => x = i
  BY DEF BitmapLen

LEMMA OccupiedBit ==
  ASSUME NEW n \in Nat, NEW b, NEW i \in 0 .. n - 1
  PROVE  i \in OccupiedIn(b, n) <=> i % 8 \in b[i \div 8]
  BY DEF OccupiedIn, FreeBit

(* The bits of a set of blocks in byte j: what set() is called with.       *)
LEMMA BitsInByte ==
  ASSUME NEW n \in Nat, NEW indices \in SUBSET Nat, NEW i \in 0 .. n - 1
  PROVE  i % 8 \in BitsIn({x \in indices : x < n}, i \div 8) <=> i \in indices
<1>1. i \in Nat /\ i < n
  OBVIOUS
<1>2. ASSUME i % 8 \in BitsIn({x \in indices : x < n}, i \div 8)
      PROVE  i \in indices
  <2>1. PICK x \in indices : x \div 8 = i \div 8 /\ x % 8 = i % 8
    BY <1>2 DEF BitsIn
  <2> QED
    BY <2>1, BitsOfBlocks
<1> QED
  BY <1>1, <1>2 DEF BitsIn

LEMMA BitsInAreBits ==
  ASSUME NEW indices \in SUBSET Nat, NEW j
  PROVE  BitsIn(indices, j) \subseteq 0 .. 7
  BY DEF BitsIn

(* Marking blocks in the bytes of a handle marks those blocks and no       *)
(* others, for bitmaps of every length (BlockAllocator::mark_occupied).    *)
THEOREM MarkingIsUnion ==
  ASSUME Blocks \in Nat, NEW b \in Bitmaps(Blocks), NEW indices \in SUBSET Nat
  PROVE  /\ MarkBits(b, Blocks, indices) \in Bitmaps(Blocks)
         /\ OccupiedIn(MarkBits(b, Blocks, indices), Blocks)
              = Pool!MarkOccupied(OccupiedIn(b, Blocks), indices)
<1> DEFINE marked == MarkBits(b, Blocks, indices)
<1>1. DOMAIN b = 0 .. BitmapLen(Blocks) - 1 /\ \A j \in DOMAIN b : b[j] \in ByteValues
  BY DEF Bitmaps
<1>2. \A j : BitsIn({x \in indices : x < Blocks}, j) \in ByteValues
  BY BitsInAreBits DEF ByteValues
<1>3. marked \in Bitmaps(Blocks)
  BY <1>1, <1>2 DEF MarkBits, Bitmaps, ByteValues
<1>4. ASSUME NEW i \in 0 .. Blocks - 1
      PROVE  i \in OccupiedIn(marked, Blocks) <=> i \in OccupiedIn(b, Blocks) \/ i \in indices
  <2>1. marked[i \div 8] = b[i \div 8] \union BitsIn({x \in indices : x < Blocks}, i \div 8)
    BY <1>1, BitsOfBlocks DEF MarkBits
  <2> QED
    BY <2>1, OccupiedBit, BitsInByte
<1> QED
  BY <1>3, <1>4 DEF OccupiedIn, Pool!MarkOccupied, Pool!Blocks

(* Freeing blocks in the bytes frees those blocks and no others            *)
(* (BlockAllocator::free).                                                 *)
THEOREM ClearingIsDifference ==
  ASSUME Blocks \in Nat, NEW b \in Bitmaps(Blocks), NEW indices \in SUBSET Nat
  PROVE  /\ ClearBits(b, Blocks, indices) \in Bitmaps(Blocks)
         /\ OccupiedIn(ClearBits(b, Blocks, indices), Blocks)
              = Pool!Free(OccupiedIn(b, Blocks), indices)
<1> DEFINE cleared == ClearBits(b, Blocks, indices)
<1>1. DOMAIN b = 0 .. BitmapLen(Blocks) - 1 /\ \A j \in DOMAIN b : b[j] \in ByteValues
  BY DEF Bitmaps
<1>2. cleared \in Bitmaps(Blocks)
  BY <1>1 DEF ClearBits, Bitmaps, ByteValues
<1>3. ASSUME NEW i \in 0 .. Blocks - 1
      PROVE  i \in OccupiedIn(cleared, Blocks) <=> i \in OccupiedIn(b, Blocks) /\ i \notin indices
  <2>1. cleared[i \div 8] = b[i \div 8] \ BitsIn({x \in indices : x < Blocks}, i \div 8)
    BY <1>1, BitsOfBlocks DEF ClearBits
  <2> QED
    BY <2>1, OccupiedBit, BitsInByte
<1> QED
  BY <1>2, <1>3 DEF OccupiedIn, Pool!Free

(* A handle opened on what write_bitmap wrote has the writer's allocator,  *)
(* and a new one has no block occupied (from_bytes, new).                  *)
THEOREM BitmapsReopen ==
  ASSUME NEW n \in Nat, NEW b \in Bitmaps(n)
  PROVE  FromBytes(b, n) = b /\ OccupiedIn(EmptyBits(n), n) = {}
<1>1. FromBytes(b, n) = b
  BY DEF FromBytes, Bitmaps
<1>2. ASSUME NEW i \in 0 .. n - 1 PROVE i \notin OccupiedIn(EmptyBits(n), n)
  <2>1. EmptyBits(n)[i \div 8] = {}
    BY BitsOfBlocks DEF EmptyBits
  <2> QED
    BY <2>1, OccupiedBit
<1> QED
  BY <1>1, <1>2 DEF OccupiedIn

(* Allocation.  AllocateBits is a recursive function over the blocks; what *)
(* it has taken among the first m of them are those free blocks that have  *)
(* fewer than count free ones before them.                                 *)
FreeIn(b, n) == {i \in 0 .. n - 1 : FreeBit(b, n, i)}
FreeBelow(b, n, m) == {i \in FreeIn(b, n) : i < m}

TakesUpto(f, b, n, count, m) ==
  f = [i \in 0 .. m |->
         IF i = 0 THEN <<>>
         ELSE IF Len(f[i - 1]) < count /\ FreeBit(b, n, i - 1)
              THEN Append(f[i - 1], i - 1) ELSE f[i - 1]]

LEMMA TakesExist ==
  ASSUME NEW b, NEW n \in Nat, NEW count \in Nat
  PROVE  \E f : TakesUpto(f, b, n, count, n)
<1> DEFINE S == {m \in Nat : \E f : TakesUpto(f, b, n, count, m)}
<1>1. 0 \in S
  <2> DEFINE g == [i \in 0 .. 0 |-> <<>>]
  <2>1. TakesUpto(g, b, n, count, 0)
    BY DEF TakesUpto
  <2> QED BY <2>1
<1>2. \A m \in Nat : m \in S => m + 1 \in S
  <2> SUFFICES ASSUME NEW m \in Nat, m \in S PROVE m + 1 \in S
    OBVIOUS
  <2>1. PICK f : TakesUpto(f, b, n, count, m)
    OBVIOUS
  <2> DEFINE next(x, i) == IF Len(x) < count /\ FreeBit(b, n, i) THEN Append(x, i) ELSE x
             g == [i \in 0 .. m + 1 |-> IF i \in 0 .. m THEN f[i] ELSE next(f[m], m)]
  <2>2. \A i \in 0 .. m : f[i] = IF i = 0 THEN <<>> ELSE next(f[i - 1], i - 1)
    BY <2>1 DEF TakesUpto
  <2> HIDE DEF next
  <2>3. \A i \in 0 .. m : g[i] = f[i] /\ (i # 0 => i - 1 \in 0 .. m)
    OBVIOUS
  <2>4. g[m + 1] = next(f[m], m) /\ m + 1 # 0 /\ m \in 0 .. m /\ m + 1 - 1 = m
    OBVIOUS
  <2>5. \A i \in 0 .. m + 1 : i \in 0 .. m \/ i = m + 1
    OBVIOUS
  <2>6. g = [i \in 0 .. m + 1 |-> g[i]]
    OBVIOUS
  <2> HIDE DEF g
  <2>7. \A i \in 0 .. m + 1 : g[i] = IF i = 0 THEN <<>> ELSE next(g[i - 1], i - 1)
    <3> TAKE i \in 0 .. m + 1
    <3>1. CASE i \in 0 .. m
      BY <2>2, <2>3, <3>1
    <3>2. CASE i = m + 1
      BY <2>3, <2>4, <3>2
    <3> QED BY <2>5, <3>1, <3>2
  <2>8. TakesUpto(g, b, n, count, m + 1)
    BY <2>6, <2>7 DEF TakesUpto, next
  <2> QED BY <2>8
<1> HIDE DEF S
<1>3. Nat \subseteq S
  BY <1>1, <1>2, SetInduction
<1> QED BY <1>3 DEF S

LEMMA AllocateBitsTakes ==
  ASSUME NEW b, NEW n, NEW count, NEW g, TakesUpto(g, b, n, count, n)
  PROVE  \E f : TakesUpto(f, b, n, count, n) /\ AllocateBits(b, n, count) = f[n]
<1> DEFINE f == CHOOSE f : f = [i \in 0 .. n |->
                 IF i = 0 THEN <<>>
                 ELSE IF Len(f[i - 1]) < count /\ FreeBit(b, n, i - 1)
                      THEN Append(f[i - 1], i - 1) ELSE f[i - 1]]
<1>1. TakesUpto(f, b, n, count, n)
  BY DEF TakesUpto
<1>2. AllocateBits(b, n, count) = f[n]
  BY DEF AllocateBits
<1> HIDE DEF f
<1> QED BY <1>1, <1>2

LEMMA FreeBlocksCounted ==
  ASSUME NEW b, NEW n \in Nat, NEW m \in 0 .. n
  PROVE  /\ IsFiniteSet(FreeBelow(b, n, m)) /\ Cardinality(FreeBelow(b, n, m)) \in Nat
         /\ m < n =>
              /\ m \in FreeIn(b, n) =>
                   Cardinality(FreeBelow(b, n, m + 1)) = Cardinality(FreeBelow(b, n, m)) + 1
              /\ m \notin FreeIn(b, n) => FreeBelow(b, n, m + 1) = FreeBelow(b, n, m)
<1>1. FreeBelow(b, n, m) \in SUBSET (0 .. n - 1) /\ IsFiniteSet(0 .. n - 1)
  BY FS_Interval DEF FreeBelow, FreeIn
<1>2. IsFiniteSet(FreeBelow(b, n, m))
  BY <1>1, FS_Subset
<1>3. Cardinality(FreeBelow(b, n, m)) \in Nat
  BY <1>2, FS_CardinalityType
<1>4. m \notin FreeBelow(b, n, m)
  BY DEF FreeBelow
<1>5. FreeIn(b, n) \subseteq Int
  BY DEF FreeIn
<1>6. m \in FreeIn(b, n) => FreeBelow(b, n, m + 1) = FreeBelow(b, n, m) \union {m}
  BY <1>5 DEF FreeBelow
<1>7. m \notin FreeIn(b, n) => FreeBelow(b, n, m + 1) = FreeBelow(b, n, m)
  BY <1>5 DEF FreeBelow
<1>8. m \in FreeIn(b, n) =>
        Cardinality(FreeBelow(b, n, m + 1)) = Cardinality(FreeBelow(b, n, m)) + 1
  BY <1>2, <1>4, <1>6, FS_AddElement
<1> QED BY <1>2, <1>3, <1>7, <1>8

LEMMA AppendedSet ==
  ASSUME NEW T, NEW s \in Seq(T), NEW x \in T
  PROVE  /\ Append(s, x) \in Seq(T) /\ Len(Append(s, x)) = Len(s) + 1
         /\ ToSet(Append(s, x)) = ToSet(s) \union {x}
<1>1. Len(s) \in Nat /\ DOMAIN s = 1 .. Len(s)
  OBVIOUS
<1> DEFINE a == Append(s, x)
<1>2. /\ a \in Seq(T) /\ Len(a) = Len(s) + 1 /\ DOMAIN a = 1 .. Len(s) + 1
      /\ a[Len(s) + 1] = x /\ \A i \in 1 .. Len(s) : a[i] = s[i]
  OBVIOUS
<1> HIDE DEF a
<1>3. \A i : i \in 1 .. Len(s) + 1 <=> i \in 1 .. Len(s) \/ i = Len(s) + 1
  BY <1>1
<1>4. ToSet(a) = ToSet(s) \union {x}
  BY <1>1, <1>2, <1>3 DEF ToSet
<1> QED BY <1>2, <1>4 DEF a

LEMMA TakenAre ==
  ASSUME NEW b, NEW n \in Nat, NEW count \in Nat, NEW f, TakesUpto(f, b, n, count, n)
  PROVE  \A m \in 0 .. n :
           /\ f[m] \in Seq(Nat)
           /\ Len(f[m]) <= count
           /\ Len(f[m]) <= Cardinality(FreeBelow(b, n, m))
           /\ Len(f[m]) = count \/ Len(f[m]) = Cardinality(FreeBelow(b, n, m))
           /\ ToSet(f[m]) = {i \in FreeBelow(b, n, m) : Cardinality(FreeBelow(b, n, i)) < count}
<1> DEFINE K(m) == Cardinality(FreeBelow(b, n, m))
           Chosen(m) == {i \in FreeBelow(b, n, m) : K(i) < count}
           Good(m) == /\ f[m] \in Seq(Nat) /\ Len(f[m]) <= count /\ Len(f[m]) <= K(m)
                      /\ Len(f[m]) = count \/ Len(f[m]) = K(m)
                      /\ ToSet(f[m]) = Chosen(m)
           S == {m \in Nat : m <= n => Good(m)}
<1>1. \A m \in 0 .. n : f[m] = IF m = 0 THEN <<>>
                               ELSE IF Len(f[m - 1]) < count /\ FreeBit(b, n, m - 1)
                                    THEN Append(f[m - 1], m - 1) ELSE f[m - 1]
  BY DEF TakesUpto
<1>2. \A m \in 0 .. n : FreeBelow(b, n, m) \subseteq Nat
  BY DEF FreeBelow, FreeIn
<1>3. 0 \in S
  <2>1. f[0] = <<>> /\ 0 \in 0 .. n
    BY <1>1
  <2>2. FreeBelow(b, n, 0) = {}
    BY DEF FreeBelow, FreeIn
  <2>3. K(0) = 0
    BY <2>2, FS_EmptySet
  <2>4. <<>> \in Seq(Nat) /\ Len(<<>>) = 0 /\ ToSet(<<>>) = {}
    BY DEF ToSet
  <2>5. Chosen(0) = {}
    BY <2>2
  <2> HIDE DEF K, Chosen
  <2>6. f[0] \in Seq(Nat) /\ Len(f[0]) = 0 /\ ToSet(f[0]) = {}
    BY <2>1, <2>4
  <2>7. Good(0)
    BY <2>3, <2>5, <2>6
  <2> QED BY <2>7
<1>4. \A m \in Nat : m \in S => m + 1 \in S
  <2> SUFFICES ASSUME NEW m \in Nat, m \in S, m + 1 <= n PROVE Good(m + 1)
    OBVIOUS
  <2>1. m \in 0 .. n /\ m + 1 \in 0 .. n /\ m + 1 # 0 /\ m + 1 - 1 = m /\ m <= n /\ m < n
    OBVIOUS
  <2>2. Good(m)
    BY <2>1
  <2>3. K(m) \in Nat
    BY <2>1, FreeBlocksCounted
  <2>4. m \in FreeIn(b, n) <=> FreeBit(b, n, m)
    BY <2>1 DEF FreeIn
  <2>5. f[m + 1] = IF Len(f[m]) < count /\ FreeBit(b, n, m) THEN Append(f[m], m) ELSE f[m]
    BY <1>1, <2>1
  <2>6. CASE ~FreeBit(b, n, m)
    <3>1. FreeBelow(b, n, m + 1) = FreeBelow(b, n, m)
      BY <2>1, <2>4, <2>6, FreeBlocksCounted
    <3>2. K(m + 1) = K(m) /\ Chosen(m + 1) = Chosen(m) /\ f[m + 1] = f[m]
      BY <2>5, <2>6, <3>1
    <3> HIDE DEF K, Chosen
    <3> QED BY <2>2, <3>2
  <2>7. CASE FreeBit(b, n, m)
    <3>1. K(m + 1) = K(m) + 1
      BY <2>1, <2>4, <2>7, FreeBlocksCounted
    <3>2. FreeBelow(b, n, m + 1) = FreeBelow(b, n, m) \union {m}
      BY <2>1, <2>4, <2>7 DEF FreeBelow, FreeIn
    <3>3. Chosen(m + 1) = Chosen(m) \union (IF K(m) < count THEN {m} ELSE {})
      <4> HIDE DEF K
      <4> QED BY <3>2
    <3>4. CASE Len(f[m]) < count
      <4>1. K(m) < count /\ Len(f[m]) = K(m) /\ Len(f[m]) \in Nat
        BY <2>2, <2>3, <3>4
      <4>2. f[m + 1] = Append(f[m], m)
        BY <2>5, <2>7, <3>4
      <4>3. f[m] \in Seq(Nat)
        BY <2>2
      <4> HIDE DEF K, Chosen, Good, S
      <4>4. Append(f[m], m) \in Seq(Nat) /\ Len(Append(f[m], m)) = Len(f[m]) + 1
            /\ ToSet(Append(f[m], m)) = ToSet(f[m]) \union {m}
        BY <4>3, AppendedSet
      <4>5. Len(f[m + 1]) = K(m + 1) /\ Len(f[m + 1]) <= count /\ f[m + 1] \in Seq(Nat)
            /\ K(m + 1) \in Nat
        BY <2>3, <3>1, <4>1, <4>2, <4>4
      <4>6. ToSet(f[m + 1]) = Chosen(m + 1)
        BY <2>2, <3>3, <4>1, <4>2, <4>4 DEF Good
      <4>7. Len(f[m + 1]) <= K(m + 1)
        BY <4>5
      <4> QED BY <4>5, <4>6, <4>7 DEF Good
    <3>5. CASE ~ (Len(f[m]) < count)
      <4>1. Len(f[m]) = count /\ ~ (K(m) < count)
        BY <2>2, <2>3, <3>5
      <4>2. f[m + 1] = f[m]
        BY <2>5, <3>5
      <4>3. Chosen(m + 1) = Chosen(m)
        BY <3>3, <4>1
      <4> HIDE DEF K, Chosen
      <4> QED BY <2>2, <2>3, <3>1, <4>1, <4>2, <4>3
    <3> QED BY <3>4, <3>5
  <2> QED BY <2>6, <2>7
<1> HIDE DEF S
<1>5. Nat \subseteq S
  BY <1>3, <1>4, SetInduction
<1>6. \A m \in 0 .. n : Good(m)
  <2> HIDE DEF Good
  <2> QED BY <1>5 DEF S
<1> QED BY <1>6

(* allocate takes the free blocks with the lowest numbers, as many as were *)
(* asked for or as there are, for bitmaps of every length                  *)
(* (BlockAllocator::allocate).                                             *)
THEOREM AllocatingIsFirstFit ==
  ASSUME Blocks \in Nat, NEW b, NEW count \in Nat
  PROVE  /\ ToSet(AllocateBits(b, Blocks, count))
              = Pool!FirstFit(OccupiedIn(b, Blocks), count)
         /\ ToSet(AllocateBits(b, Blocks, count)) \subseteq 0 .. Blocks - 1
<1> DEFINE F == FreeIn(b, Blocks)
<1>1. PICK f : TakesUpto(f, b, Blocks, count, Blocks) /\ AllocateBits(b, Blocks, count) = f[Blocks]
  BY TakesExist, AllocateBitsTakes
<1>2. FreeBelow(b, Blocks, Blocks) = F
  BY DEF FreeBelow, FreeIn
<1>3. ToSet(f[Blocks]) = {i \in F : Cardinality(FreeBelow(b, Blocks, i)) < count}
  BY <1>1, <1>2, TakenAre
<1>4. Pool!FreeBlocks(OccupiedIn(b, Blocks)) = F
  BY DEF Pool!FreeBlocks, Pool!IsFree, Pool!Blocks, OccupiedIn, FreeIn
<1>5. Pool!FirstFit(OccupiedIn(b, Blocks), count)
        = {i \in F : Cardinality({c \in F : c < i}) < count}
  <2>1. \A S : Pool!Cardinality(S) = Cardinality(S)
    BY DEF Pool!Cardinality, Cardinality
  <2> HIDE DEF F
  <2> QED BY <1>4, <2>1 DEF Pool!FirstFit
<1>6. F \subseteq 0 .. Blocks - 1
  BY DEF FreeIn
<1> HIDE DEF F
<1> QED BY <1>1, <1>3, <1>5, <1>6 DEF FreeBelow, F

-------------------------------------------------------------------------------
(***************************************************************************)
(* Where the fields of a record start.                                     *)
(***************************************************************************)
StartsOf(f, fields) ==
  f = [k \in DOMAIN fields |-> IF k = 1 THEN 0 ELSE f[k - 1] + fields[k - 1].width]

LEMMA StartsUnfold ==
  ASSUME NEW fields, NEW g, StartsOf(g, fields)
  PROVE  StartsOf(Starts(fields), fields)
<1> DEFINE f == CHOOSE f : f = [k \in DOMAIN fields |->
                                  IF k = 1 THEN 0 ELSE f[k - 1] + fields[k - 1].width]
<1>1. StartsOf(f, fields)
  BY DEF StartsOf
<1>2. Starts(fields) = f
  BY DEF Starts
<1> QED BY <1>1, <1>2

(* The starts of a record of at most six fields, given one after another.  *)
LEMMA StartsAre ==
  ASSUME NEW fields, NEW n \in 1 .. 6, DOMAIN fields = 1 .. n,
         \A k \in 1 .. n : fields[k].width \in Nat
  PROVE  LET s == Starts(fields) IN
         /\ DOMAIN s = 1 .. n
         /\ s[1] = 0
         /\ \A k \in 2 .. n : s[k] = s[k - 1] + fields[k - 1].width
<1> DEFINE w(k) == fields[k].width
           g == [k \in 1 .. n |->
                   IF k = 1 THEN 0
                   ELSE IF k = 2 THEN w(1)
                   ELSE IF k = 3 THEN w(1) + w(2)
                   ELSE IF k = 4 THEN w(1) + w(2) + w(3)
                   ELSE IF k = 5 THEN w(1) + w(2) + w(3) + w(4)
                   ELSE w(1) + w(2) + w(3) + w(4) + w(5)]
<1>1. \A k \in 1 .. n : g[k] = IF k = 1 THEN 0 ELSE g[k - 1] + w(k - 1)
  <2> TAKE k \in 1 .. n
  <2>1. k = 1 \/ k = 2 \/ k = 3 \/ k = 4 \/ k = 5 \/ k = 6
    OBVIOUS
  <2>2. k # 1 => k - 1 \in 1 .. n
    OBVIOUS
  <2>3. CASE k = 1
    BY <2>3
  <2>4. CASE k = 2
    BY <2>2, <2>4
  <2>5. CASE k = 3
    BY <2>2, <2>5
  <2>6. CASE k = 4
    BY <2>2, <2>6
  <2>7. CASE k = 5
    BY <2>2, <2>7
  <2>8. CASE k = 6
    BY <2>2, <2>8
  <2> QED BY <2>1, <2>3, <2>4, <2>5, <2>6, <2>7, <2>8
<1>2. g = [k \in 1 .. n |-> g[k]]
  OBVIOUS
<1>3. StartsOf(g, fields)
  <2> HIDE DEF g
  <2> QED BY <1>1, <1>2 DEF StartsOf
<1>4. StartsOf(Starts(fields), fields)
  <2> HIDE DEF g
  <2> QED BY <1>3, StartsUnfold
<1> HIDE DEF g
<1> DEFINE s == Starts(fields)
<1>5. s = [k \in 1 .. n |-> IF k = 1 THEN 0 ELSE s[k - 1] + fields[k - 1].width]
  BY <1>4 DEF StartsOf
<1> HIDE DEF s
<1>6. DOMAIN s = 1 .. n /\ s[1] = 0 /\ \A k \in 2 .. n : s[k] = s[k - 1] + fields[k - 1].width
  BY <1>5
<1> QED BY <1>6 DEF s

LEMMA HeaderStarts ==
  LET f == HeaderFields  s == Starts(HeaderFields) IN
  /\ DOMAIN f = 1 .. 6 /\ DOMAIN s = 1 .. 6
  /\ s[1] = 0 /\ s[2] = 460 /\ s[3] = 526 /\ s[4] = 678 /\ s[5] = 718 /\ s[6] = 726
  /\ f[1] = Fixed(460) /\ f[2] = Content(66) /\ f[3] = Fixed(152) /\ f[4] = Content(40)
  /\ f[5] = Fixed(8) /\ f[6] = Digest(32)
<1> DEFINE f == HeaderFields
           s == Starts(f)
<1>1. /\ DOMAIN f = 1 .. 6
      /\ f[1] = Fixed(460) /\ f[2] = Content(66) /\ f[3] = Fixed(152) /\ f[4] = Content(40)
      /\ f[5] = Fixed(8) /\ f[6] = Digest(32)
  BY DEF HeaderFields, Fixed, Content, Digest
<1>2. /\ f[1].width = 460 /\ f[2].width = 66 /\ f[3].width = 152
      /\ f[4].width = 40 /\ f[5].width = 8 /\ f[6].width = 32
  BY <1>1 DEF Fixed, Content, Digest
<1> HIDE DEF f
<1>3. /\ DOMAIN s = 1 .. 6 /\ s[1] = 0
      /\ \A k \in 2 .. 6 : s[k] = s[k - 1] + f[k - 1].width
  BY <1>1, <1>2, StartsAre
<1>4. s[2] = 460 /\ s[3] = 526 /\ s[4] = 678 /\ s[5] = 718 /\ s[6] = 726
  BY <1>2, <1>3
<1> QED BY <1>1, <1>3, <1>4 DEF f

LEMMA EntryStarts ==
  LET f == EntryFields  s == Starts(EntryFields) IN
  /\ DOMAIN f = 1 .. 3 /\ DOMAIN s = 1 .. 3
  /\ s[1] = 0 /\ s[2] = 146 /\ s[3] = 282
  /\ f[1] = Content(146) /\ f[2] = Content(136) /\ f[3] = Digest(4)
<1> DEFINE f == EntryFields
           s == Starts(f)
<1>1. DOMAIN f = 1 .. 3 /\ f[1] = Content(146) /\ f[2] = Content(136) /\ f[3] = Digest(4)
  BY DEF EntryFields, Content, Digest
<1>2. f[1].width = 146 /\ f[2].width = 136 /\ f[3].width = 4
  BY <1>1 DEF Content, Digest
<1> HIDE DEF f
<1>3. /\ DOMAIN s = 1 .. 3 /\ s[1] = 0
      /\ \A k \in 2 .. 3 : s[k] = s[k - 1] + f[k - 1].width
  BY <1>1, <1>2, StartsAre
<1>4. s[2] = 146 /\ s[3] = 282
  BY <1>2, <1>3
<1> QED BY <1>1, <1>3, <1>4 DEF f

LEMMA RecipientStarts ==
  LET f == RecipientFields  s == Starts(RecipientFields) IN
  /\ DOMAIN f = 1 .. 3 /\ DOMAIN s = 1 .. 3
  /\ s[1] = 0 /\ s[2] = 158 /\ s[3] = 170
  /\ f[1] = Content(158) /\ f[2] = Content(12) /\ f[3] = Digest(4)
<1> DEFINE f == RecipientFields
           s == Starts(f)
<1>1. DOMAIN f = 1 .. 3 /\ f[1] = Content(158) /\ f[2] = Content(12) /\ f[3] = Digest(4)
  BY DEF RecipientFields, Content, Digest
<1>2. f[1].width = 158 /\ f[2].width = 12 /\ f[3].width = 4
  BY <1>1 DEF Content, Digest
<1> HIDE DEF f
<1>3. /\ DOMAIN s = 1 .. 3 /\ s[1] = 0
      /\ \A k \in 2 .. 3 : s[k] = s[k - 1] + f[k - 1].width
  BY <1>1, <1>2, StartsAre
<1>4. s[2] = 158 /\ s[3] = 170
  BY <1>2, <1>3
<1> QED BY <1>1, <1>3, <1>4 DEF f

LEMMA ChainStarts ==
  LET f == ChainFields  s == Starts(ChainFields) IN
  /\ DOMAIN f = 1 .. 4 /\ DOMAIN s = 1 .. 4
  /\ s[1] = 0 /\ s[2] = 97 /\ s[3] = 129 /\ s[4] = 193
  /\ f[1] = Content(97) /\ f[2] = Digest(32) /\ f[3] = Digest(64) /\ f[4] = Fixed(1)
<1> DEFINE f == ChainFields
           s == Starts(f)
<1>1. /\ DOMAIN f = 1 .. 4
      /\ f[1] = Content(97) /\ f[2] = Digest(32) /\ f[3] = Digest(64) /\ f[4] = Fixed(1)
  BY DEF ChainFields, Content, Digest, Fixed
<1>2. f[1].width = 97 /\ f[2].width = 32 /\ f[3].width = 64 /\ f[4].width = 1
  BY <1>1 DEF Content, Digest, Fixed
<1> HIDE DEF f
<1>3. /\ DOMAIN s = 1 .. 4 /\ s[1] = 0
      /\ \A k \in 2 .. 4 : s[k] = s[k - 1] + f[k - 1].width
  BY <1>1, <1>2, StartsAre
<1>4. s[2] = 97 /\ s[3] = 129 /\ s[4] = 193
  BY <1>2, <1>3
<1> QED BY <1>1, <1>3, <1>4 DEF f

LEMMA BlockStarts ==
  LET f == BlockFields  s == Starts(BlockFields) IN
  /\ DOMAIN f = 1 .. 2 /\ DOMAIN s = 1 .. 2
  /\ s[1] = 0 /\ s[2] = 4080
  /\ f[1] = Content(4080) /\ f[2] = Digest(16)
<1> DEFINE f == BlockFields
           s == Starts(f)
<1>1. DOMAIN f = 1 .. 2 /\ f[1] = Content(4080) /\ f[2] = Digest(16)
  BY DEF BlockFields, Content, Digest, BlockSize
<1>2. f[1].width = 4080 /\ f[2].width = 16
  BY <1>1 DEF Content, Digest
<1> HIDE DEF f
<1>3. /\ DOMAIN s = 1 .. 2 /\ s[1] = 0
      /\ \A k \in 2 .. 2 : s[k] = s[k - 1] + f[k - 1].width
  BY <1>1, <1>2, StartsAre
<1>4. s[2] = 4080
  BY <1>2, <1>3
<1> QED BY <1>1, <1>3, <1>4 DEF f


(* The fields of a record: they follow each other and end within the       *)
(* record, and half of one is less than all of it.                         *)
FieldOK(kind, k, size) ==
  LET f == FieldsOf(kind)
      s == FieldStarts[kind]
  IN  /\ s[k] \in Nat /\ f[k].width \in Nat \ {0}
      /\ s[k] + f[k].width <= size
      /\ \A j \in DOMAIN f : j < k => s[j] + f[j].width <= s[k]
      /\ HalfWay(kind, k) \in Nat
      /\ s[k] <= HalfWay(kind, k) /\ HalfWay(kind, k) < s[k] + f[k].width
      /\ f[k].role = "fixed" => HalfWay(kind, k) = s[k]

(* The digest that covers all the others, and the last field.              *)
DigestOf(kind) ==
  CASE kind = "header" -> 6 [] kind = "entry" -> 3 [] kind = "recipient" -> 3
    [] kind = "chain" -> 3 [] kind = "block" -> 2
LastField(kind) == IF kind = "chain" THEN 4 ELSE DigestOf(kind)
RecordSize(kind) ==
  CASE kind = "header" -> HeaderSize [] kind = "entry" -> EntrySize
    [] kind = "recipient" -> RecipientSlotSize [] kind = "chain" -> ChainRecordSize
    [] kind = "block" -> BlockSize

FieldsOK(kind) ==
  LET f == FieldsOf(kind) IN
  /\ DOMAIN f = 1 .. LastField(kind) /\ DOMAIN FieldStarts[kind] = 1 .. LastField(kind)
  /\ \A k \in DOMAIN f : FieldOK(kind, k, RecordSize(kind))
  /\ DigestOf(kind) \in With("digest", f)
  /\ \A k \in With("digest", f) : k <= DigestOf(kind)
  /\ \A k \in With("content", f) : k < DigestOf(kind)
  /\ f[LastField(kind)].role # "content"

LEMMA HeaderFieldsOK == FieldsOK("header")
<1> DEFINE f == HeaderFields
           s == Starts(HeaderFields)
<1>1. FieldsOf("header") = f /\ FieldStarts["header"] = s
  BY DEF FieldsOf, FieldStarts
<1>2. DigestOf("header") = 6 /\ LastField("header") = 6 /\ RecordSize("header") = 1024
  BY DEF DigestOf, LastField, RecordSize, HeaderSize
<1>3. /\ DOMAIN f = 1 .. 6 /\ DOMAIN s = 1 .. 6
      /\ s[1] = 0 /\ s[2] = 460 /\ s[3] = 526 /\ s[4] = 678 /\ s[5] = 718 /\ s[6] = 726
      /\ f[1] = Fixed(460) /\ f[2] = Content(66) /\ f[3] = Fixed(152) /\ f[4] = Content(40)
      /\ f[5] = Fixed(8) /\ f[6] = Digest(32)
  BY HeaderStarts
<1> HIDE DEF f, s
<1>4. /\ f[1].width = 460 /\ f[2].width = 66 /\ f[3].width = 152
      /\ f[4].width = 40 /\ f[5].width = 8 /\ f[6].width = 32
      /\ f[1].role = "fixed" /\ f[2].role = "content" /\ f[3].role = "fixed"
      /\ f[4].role = "content" /\ f[5].role = "fixed" /\ f[6].role = "digest"
  BY <1>3 DEF Fixed, Content, Digest
<1>5. ASSUME NEW k \in 1 .. 6
      PROVE  FieldOK("header", k, 1024)
  <2>1. k = 1 \/ k = 2 \/ k = 3 \/ k = 4 \/ k = 5 \/ k = 6
    OBVIOUS
  <2> QED BY <1>1, <1>3, <1>4, <2>1 DEF FieldOK, HalfWay
<1>6. With("digest", f) = {6} /\ With("content", f) = {2, 4}
  BY <1>3, <1>4 DEF With
<1>7. \A k \in DOMAIN f : FieldOK("header", k, RecordSize("header"))
  BY <1>2, <1>3, <1>5
<1>8. /\ DigestOf("header") \in With("digest", f)
      /\ \A k \in With("digest", f) : k <= DigestOf("header")
      /\ \A k \in With("content", f) : k < DigestOf("header")
  BY <1>2, <1>6
<1>9. /\ DOMAIN f = 1 .. LastField("header") /\ DOMAIN s = 1 .. LastField("header")
      /\ f[LastField("header")].role # "content"
  BY <1>2, <1>3, <1>4
<1> QED BY <1>1, <1>7, <1>8, <1>9 DEF FieldsOK

LEMMA EntryFieldsOK == FieldsOK("entry")
<1> DEFINE f == EntryFields
           s == Starts(EntryFields)
<1>1. FieldsOf("entry") = f /\ FieldStarts["entry"] = s
  BY DEF FieldsOf, FieldStarts
<1>2. DigestOf("entry") = 3 /\ LastField("entry") = 3 /\ RecordSize("entry") = 320
  BY DEF DigestOf, LastField, RecordSize, EntrySize
<1>3. /\ DOMAIN f = 1 .. 3 /\ DOMAIN s = 1 .. 3
      /\ s[1] = 0 /\ s[2] = 146 /\ s[3] = 282
      /\ f[1] = Content(146) /\ f[2] = Content(136) /\ f[3] = Digest(4)
  BY EntryStarts
<1> HIDE DEF f, s
<1>4. /\ f[1].width = 146 /\ f[2].width = 136 /\ f[3].width = 4
      /\ f[1].role = "content" /\ f[2].role = "content" /\ f[3].role = "digest"
  BY <1>3 DEF Content, Digest
<1>5. ASSUME NEW k \in 1 .. 3
      PROVE  FieldOK("entry", k, 320)
  <2>1. k = 1 \/ k = 2 \/ k = 3
    OBVIOUS
  <2> QED BY <1>1, <1>3, <1>4, <2>1 DEF FieldOK, HalfWay
<1>6. With("digest", f) = {3} /\ With("content", f) = {1, 2}
  BY <1>3, <1>4 DEF With
<1>7. \A k \in DOMAIN f : FieldOK("entry", k, RecordSize("entry"))
  BY <1>2, <1>3, <1>5
<1>8. /\ DigestOf("entry") \in With("digest", f)
      /\ \A k \in With("digest", f) : k <= DigestOf("entry")
      /\ \A k \in With("content", f) : k < DigestOf("entry")
  BY <1>2, <1>6
<1>9. /\ DOMAIN f = 1 .. LastField("entry") /\ DOMAIN s = 1 .. LastField("entry")
      /\ f[LastField("entry")].role # "content"
  BY <1>2, <1>3, <1>4
<1> QED BY <1>1, <1>7, <1>8, <1>9 DEF FieldsOK

LEMMA RecipientFieldsOK == FieldsOK("recipient")
<1> DEFINE f == RecipientFields
           s == Starts(RecipientFields)
<1>1. FieldsOf("recipient") = f /\ FieldStarts["recipient"] = s
  BY DEF FieldsOf, FieldStarts
<1>2. DigestOf("recipient") = 3 /\ LastField("recipient") = 3 /\ RecordSize("recipient") = 192
  BY DEF DigestOf, LastField, RecordSize, RecipientSlotSize
<1>3. /\ DOMAIN f = 1 .. 3 /\ DOMAIN s = 1 .. 3
      /\ s[1] = 0 /\ s[2] = 158 /\ s[3] = 170
      /\ f[1] = Content(158) /\ f[2] = Content(12) /\ f[3] = Digest(4)
  BY RecipientStarts
<1> HIDE DEF f, s
<1>4. /\ f[1].width = 158 /\ f[2].width = 12 /\ f[3].width = 4
      /\ f[1].role = "content" /\ f[2].role = "content" /\ f[3].role = "digest"
  BY <1>3 DEF Content, Digest
<1>5. ASSUME NEW k \in 1 .. 3
      PROVE  FieldOK("recipient", k, 192)
  <2>1. k = 1 \/ k = 2 \/ k = 3
    OBVIOUS
  <2> QED BY <1>1, <1>3, <1>4, <2>1 DEF FieldOK, HalfWay
<1>6. With("digest", f) = {3} /\ With("content", f) = {1, 2}
  BY <1>3, <1>4 DEF With
<1>7. \A k \in DOMAIN f : FieldOK("recipient", k, RecordSize("recipient"))
  BY <1>2, <1>3, <1>5
<1>8. /\ DigestOf("recipient") \in With("digest", f)
      /\ \A k \in With("digest", f) : k <= DigestOf("recipient")
      /\ \A k \in With("content", f) : k < DigestOf("recipient")
  BY <1>2, <1>6
<1>9. /\ DOMAIN f = 1 .. LastField("recipient") /\ DOMAIN s = 1 .. LastField("recipient")
      /\ f[LastField("recipient")].role # "content"
  BY <1>2, <1>3, <1>4
<1> QED BY <1>1, <1>7, <1>8, <1>9 DEF FieldsOK

LEMMA ChainFieldsOK == FieldsOK("chain")
<1> DEFINE f == ChainFields
           s == Starts(ChainFields)
<1>1. FieldsOf("chain") = f /\ FieldStarts["chain"] = s
  BY DEF FieldsOf, FieldStarts
<1>2. DigestOf("chain") = 3 /\ LastField("chain") = 4 /\ RecordSize("chain") = 224
  BY DEF DigestOf, LastField, RecordSize, ChainRecordSize
<1>3. /\ DOMAIN f = 1 .. 4 /\ DOMAIN s = 1 .. 4
      /\ s[1] = 0 /\ s[2] = 97 /\ s[3] = 129 /\ s[4] = 193
      /\ f[1] = Content(97) /\ f[2] = Digest(32) /\ f[3] = Digest(64) /\ f[4] = Fixed(1)
  BY ChainStarts
<1> HIDE DEF f, s
<1>4. /\ f[1].width = 97 /\ f[2].width = 32 /\ f[3].width = 64 /\ f[4].width = 1
      /\ f[1].role = "content" /\ f[2].role = "digest" /\ f[3].role = "digest"
      /\ f[4].role = "fixed"
  BY <1>3 DEF Content, Digest, Fixed
<1>5. ASSUME NEW k \in 1 .. 4
      PROVE  FieldOK("chain", k, 224)
  <2>1. k = 1 \/ k = 2 \/ k = 3 \/ k = 4
    OBVIOUS
  <2> QED BY <1>1, <1>3, <1>4, <2>1 DEF FieldOK, HalfWay
<1>6. With("digest", f) = {2, 3} /\ With("content", f) = {1}
  BY <1>3, <1>4 DEF With
<1>7. \A k \in DOMAIN f : FieldOK("chain", k, RecordSize("chain"))
  BY <1>2, <1>3, <1>5
<1>8. /\ DigestOf("chain") \in With("digest", f)
      /\ \A k \in With("digest", f) : k <= DigestOf("chain")
      /\ \A k \in With("content", f) : k < DigestOf("chain")
  BY <1>2, <1>6
<1>9. /\ DOMAIN f = 1 .. LastField("chain") /\ DOMAIN s = 1 .. LastField("chain")
      /\ f[LastField("chain")].role # "content"
  BY <1>2, <1>3, <1>4
<1> QED BY <1>1, <1>7, <1>8, <1>9 DEF FieldsOK

LEMMA BlockFieldsOK == FieldsOK("block")
<1> DEFINE f == BlockFields
           s == Starts(BlockFields)
<1>1. FieldsOf("block") = f /\ FieldStarts["block"] = s
  BY DEF FieldsOf, FieldStarts
<1>2. DigestOf("block") = 2 /\ LastField("block") = 2 /\ RecordSize("block") = 4096
  BY DEF DigestOf, LastField, RecordSize, BlockSize
<1>3. /\ DOMAIN f = 1 .. 2 /\ DOMAIN s = 1 .. 2
      /\ s[1] = 0 /\ s[2] = 4080
      /\ f[1] = Content(4080) /\ f[2] = Digest(16)
  BY BlockStarts
<1> HIDE DEF f, s
<1>4. /\ f[1].width = 4080 /\ f[2].width = 16
      /\ f[1].role = "content" /\ f[2].role = "digest"
  BY <1>3 DEF Content, Digest
<1>5. ASSUME NEW k \in 1 .. 2
      PROVE  FieldOK("block", k, 4096)
  <2>1. k = 1 \/ k = 2
    OBVIOUS
  <2> QED BY <1>1, <1>3, <1>4, <2>1 DEF FieldOK, HalfWay
<1>6. With("digest", f) = {2} /\ With("content", f) = {1}
  BY <1>3, <1>4 DEF With
<1>7. \A k \in DOMAIN f : FieldOK("block", k, RecordSize("block"))
  BY <1>2, <1>3, <1>5
<1>8. /\ DigestOf("block") \in With("digest", f)
      /\ \A k \in With("digest", f) : k <= DigestOf("block")
      /\ \A k \in With("content", f) : k < DigestOf("block")
  BY <1>2, <1>6
<1>9. /\ DOMAIN f = 1 .. LastField("block") /\ DOMAIN s = 1 .. LastField("block")
      /\ f[LastField("block")].role # "content"
  BY <1>2, <1>3, <1>4
<1> QED BY <1>1, <1>7, <1>8, <1>9 DEF FieldsOK

LEMMA RecordFieldsOK == ASSUME NEW kind \in RecordKinds PROVE FieldsOK(kind)
  BY HeaderFieldsOK, EntryFieldsOK, RecipientFieldsOK, ChainFieldsOK, BlockFieldsOK
  DEF RecordKinds, RegionKinds


-------------------------------------------------------------------------------
(***************************************************************************)
(* What a cell of the file holds, as a function of the writes made: the    *)
(* cell of w bytes at offset o, after the writes ds.                       *)
(***************************************************************************)
OverIn(ds, o, w) ==
  {n \in 1 .. Len(ds) : ds[n].at < o + w /\ o < ds[n].at + ds[n].bytes}
Reaches(d, o, w) == d.at < o + w /\ o < d.at + d.bytes
WriteCell(d, o, w) ==
  IF o >= d.at /\ o + w <= d.at + d.bytes
  THEN CellIn(d.data, (o - d.at) % d.stride) ELSE Mixed
CellOf(ds, o, w) ==
  IF OverIn(ds, o, w) = {} THEN Hole ELSE WriteCell(ds[Max(OverIn(ds, o, w))], o, w)
FieldCell(ds, c, kind, i, k) ==
  CellOf(ds, SlotOffset(kind, i, c) + FieldStarts[kind][k], FieldsOf(kind)[k].width)

IsDisk(ds) ==
  /\ ds \in Seq(Range(ds))
  /\ \A n \in 1 .. Len(ds) : ds[n].at \in Nat /\ ds[n].bytes \in Nat

LEMMA AppendTo ==
  ASSUME NEW ds, ds \in Seq(Range(ds)), NEW d
  PROVE  LET a == Append(ds, d) IN
         /\ Len(ds) \in Nat /\ Len(a) = Len(ds) + 1
         /\ a \in Seq(Range(a))
         /\ a[Len(ds) + 1] = d
         /\ \A n \in 1 .. Len(ds) : a[n] = ds[n]
<1> DEFINE T == Range(ds) \union {d}
           a == Append(ds, d)
<1>1. ds \in Seq(T) /\ d \in T /\ Len(ds) \in Nat
  <2>1. Len(ds) \in Nat /\ DOMAIN ds = 1 .. Len(ds) /\ \A n \in 1 .. Len(ds) : ds[n] \in Range(ds)
    BY DEF Range
  <2>2. \A n \in 1 .. Len(ds) : ds[n] \in T
    BY <2>1
  <2> HIDE DEF T
  <2>3. ds \in Seq(T)
    BY <2>1, <2>2
  <2> QED BY <2>1, <2>3 DEF T
<1> HIDE DEF T
<1>2. a \in Seq(T) /\ Len(a) = Len(ds) + 1 /\ a[Len(ds) + 1] = d
      /\ \A n \in 1 .. Len(ds) : a[n] = ds[n]
  BY <1>1
<1>3. a \in Seq(Range(a))
  <2>1. Len(a) \in Nat /\ DOMAIN a = 1 .. Len(a)
    BY <1>2
  <2>2. \A n \in 1 .. Len(a) : a[n] \in Range(a)
    BY <2>1 DEF Range
  <2> HIDE DEF a
  <2> QED BY <1>2, <2>1, <2>2
<1> QED BY <1>1, <1>2, <1>3

(* The last write over a cell decides what it holds; a write that does not *)
(* reach it leaves it as it was.                                           *)
LEMMA CellAfter ==
  ASSUME NEW ds, IsDisk(ds), NEW d, NEW o, NEW w
  PROVE  CellOf(Append(ds, d), o, w)
           = IF Reaches(d, o, w) THEN WriteCell(d, o, w) ELSE CellOf(ds, o, w)
<1> DEFINE a == Append(ds, d)
           N == Len(ds)
           R == IF Reaches(d, o, w) THEN {N + 1} ELSE {}
<1>1. /\ N \in Nat /\ Len(a) = N + 1 /\ a[N + 1] = d
      /\ \A n \in 1 .. N : a[n] = ds[n]
  BY AppendTo DEF IsDisk
<1> HIDE DEF a, N
<1>2. \A n : n \in 1 .. N + 1 <=> n \in 1 .. N \/ n = N + 1
  BY <1>1
<1>3. N + 1 \notin 1 .. N
  BY <1>1
<1>4. OverIn(a, o, w) = OverIn(ds, o, w) \union R
  BY <1>1, <1>2, <1>3 DEF OverIn, Reaches, N
<1>5. CASE ~Reaches(d, o, w)
  <2>1. OverIn(a, o, w) = OverIn(ds, o, w)
    BY <1>4, <1>5
  <2>2. CASE OverIn(ds, o, w) = {}
    BY <1>5, <2>1, <2>2 DEF CellOf, a
  <2>3. CASE OverIn(ds, o, w) # {}
    <3> DEFINE M == Max(OverIn(ds, o, w))
    <3>1. OverIn(ds, o, w) \in SUBSET (0 .. N)
      BY <1>1 DEF OverIn, N
    <3>2. M \in OverIn(ds, o, w)
      BY <1>1, <2>3, <3>1, MaxExists
    <3>3. M \in 1 .. N
      BY <3>2 DEF OverIn, N
    <3>4. a[M] = ds[M]
      BY <1>1, <3>3
    <3> QED BY <1>5, <2>1, <2>3, <3>4 DEF CellOf, a
  <2> QED BY <2>2, <2>3
<1>6. CASE Reaches(d, o, w)
  <2>1. N + 1 \in OverIn(a, o, w)
    BY <1>4, <1>6
  <2>2. OverIn(a, o, w) \in SUBSET Int /\ \A x \in OverIn(a, o, w) : x <= N + 1
    BY <1>1 DEF OverIn
  <2>3. Max(OverIn(a, o, w)) = N + 1
    BY <2>1, <2>2, MaxIs
  <2>4. CellOf(a, o, w) = WriteCell(d, o, w)
    BY <1>1, <2>1, <2>3 DEF CellOf
  <2> QED BY <1>6, <2>4 DEF a
<1> QED BY <1>5, <1>6

LEMMA EmptyCells == \A o, w : CellOf(<<>>, o, w) = Hole
<1>1. Len(<<>>) = 0
  OBVIOUS
<1>2. \A o, w : OverIn(<<>>, o, w) = {}
  BY <1>1 DEF OverIn
<1> QED BY <1>2 DEF CellOf

(* What the decoder of a slot reads are the cells of its fields.           *)
LEMMA ReadsItsCells ==
  ASSUME Shape, IsDisk(disk), NEW kind \in RecordKinds, NEW i \in Slots(kind, capacity)
  PROVE  Read(kind, i) = Decode(kind, [k \in DOMAIN FieldsOf(kind) |->
                                         FieldCell(disk, capacity, kind, i, k)])
<1> DEFINE at == SlotAt(kind, i)
           among == Over(at, region[kind].size, DOMAIN disk)
           c == capacity
<1>1. kind \in RegionKinds /\ ValidCapacity(c)
  BY DEF RecordKinds, Shape
<1>2. region[kind] = [offset |-> RegionOffset(kind, c), size |-> SlotSize(kind, c),
                      count |-> SlotCount(kind, c)]
  BY <1>1 DEF Shape, RegionsFor
<1>3. at = SlotOffset(kind, i, c) /\ region[kind].size = RecordSize(kind)
  <2>1. SlotSize(kind, c) = RecordSize(kind)
    BY DEF SlotSize, RecordSize, RecordKinds, RegionKinds
  <2> QED BY <1>2, <2>1 DEF SlotAt, SlotOffset
<1>4. at \in Nat /\ RecordSize(kind) \in Nat
  <2>1. /\ SlotCount(kind, c) \in Nat /\ SlotSize(kind, c) \in Nat
        /\ RegionOffset(kind, c) \in Nat
    BY <1>1, RegionOrder, SizesAreCounts
    DEF RegionKinds, SlotCount, SlotSize, RegionOffset, HeaderSize, BitmapOffset, EntrySize,
        RecipientSlotSize, ChainRecordSize, BlockSize, MaxRecipientSlots
  <2>2. i \in Nat
    BY <2>1 DEF Slots
  <2>3. i * SlotSize(kind, c) \in Nat
    BY <2>1, <2>2
  <2> QED BY <1>2, <1>3, <2>1, <2>3 DEF SlotOffset
<1> HIDE DEF at
<1>5. DOMAIN disk = 1 .. Len(disk) /\ Len(disk) \in Nat
  BY DEF IsDisk
<1>6. ASSUME NEW k \in DOMAIN FieldsOf(kind)
      PROVE  CellAt(at + FieldStarts[kind][k], FieldsOf(kind)[k].width, among)
               = FieldCell(disk, c, kind, i, k)
  <2> DEFINE o == at + FieldStarts[kind][k]
             w == FieldsOf(kind)[k].width
  <2>1. /\ FieldStarts[kind][k] \in Nat /\ w \in Nat \ {0}
        /\ FieldStarts[kind][k] + w <= RecordSize(kind)
    BY RecordFieldsOK DEF FieldsOK, FieldOK
  <2>2. o \in Nat /\ at <= o /\ o + w <= at + RecordSize(kind)
    BY <1>4, <2>1
  <2> HIDE DEF o, w
  <2>3. Over(o, w, among) = OverIn(disk, o, w)
    <3>1. \A n \in 1 .. Len(disk) : disk[n].at \in Nat /\ disk[n].bytes \in Nat
      BY DEF IsDisk
    <3>2. ASSUME NEW n \in 1 .. Len(disk), disk[n].at < o + w, o < disk[n].at + disk[n].bytes
          PROVE  n \in among
      BY <1>3, <1>4, <1>5, <2>1, <2>2, <3>1, <3>2 DEF Over, w
    <3>3. among \subseteq 1 .. Len(disk)
      BY <1>5 DEF Over
    <3> HIDE DEF among
    <3> QED BY <3>2, <3>3 DEF Over, OverIn
  <2> HIDE DEF among
  <2>4. CellAt(o, w, among) = CellOf(disk, o, w)
    BY <2>3 DEF CellAt, CellOf, WriteCell
  <2> QED BY <1>3, <2>4 DEF o, w, FieldCell
<1> QED BY <1>6 DEF Read, at, among


-------------------------------------------------------------------------------
(***************************************************************************)
(* What the cells of a record tell its decoder.  A write of version v puts *)
(* Put(kind, k, v) into field k; a slot that was never written, and that   *)
(* has no version, has holes.                                              *)
(***************************************************************************)
Put(kind, k, v) ==
  IF v \in Nat THEN <<k, IF FieldsOf(kind)[k].role = "fixed" THEN 0 ELSE v>> ELSE Hole

(* A cell is as the last whole write left it, or as a write cut off since  *)
(* then did.                                                               *)
CellHolds(cell, kind, k, s, C) ==
  \/ cell = Put(kind, k, s)
  \/ C # {} /\ (cell = Mixed \/ \E v \in C : cell = Put(kind, k, v))

MayHold(kind, s, C) ==
  /\ C \subseteq Nat
  /\ s \in Nat \/ (s = Empty /\ kind = "chain") \/ (s = Refused /\ kind = "block")

LEMMA VersionCell ==
  ASSUME NEW kind \in RecordKinds, NEW v \in Nat, NEW k \in DOMAIN FieldsOf(kind)
  PROVE  CellIn(VersionOf(kind, v), FieldStarts[kind][k]) = Put(kind, k, v)
<1> DEFINE f == FieldsOf(kind)
           s == FieldStarts[kind]
           o == s[k]
           K == {n \in DOMAIN s : s[n] = o}
<1>1. /\ DOMAIN f = 1 .. LastField(kind) /\ DOMAIN s = 1 .. LastField(kind)
      /\ \A n \in DOMAIN f : FieldOK(kind, n, RecordSize(kind))
  BY RecordFieldsOK DEF FieldsOK
<1>2. ASSUME NEW n \in DOMAIN f, s[n] = o PROVE n = k
  <2>1. n \in Int /\ k \in Int
    BY <1>1
  <2>2. \A j \in DOMAIN f : /\ s[j] \in Nat /\ f[j].width \in Nat \ {0}
    BY <1>1 DEF FieldOK
  <2>3. ~ (n < k)
    <3>1. n < k => s[n] + f[n].width <= s[k]
      BY <1>1 DEF FieldOK
    <3> QED BY <1>2, <2>2, <3>1
  <2>4. ~ (k < n)
    <3>1. k < n => s[k] + f[k].width <= s[n]
      BY <1>1 DEF FieldOK
    <3> QED BY <1>2, <2>2, <3>1
  <2> QED BY <2>1, <2>3, <2>4
<1>3. K = {k} /\ k \in Int
  BY <1>1, <1>2
<1>4. Max(K) = k
  <2>1. K \in SUBSET Int /\ k \in K /\ \A x \in K : x <= k
    BY <1>3
  <2> HIDE DEF K
  <2> QED BY <2>1, MaxIs
<1>5. kind # "zeros" /\ kind # "bitmap"
  BY DEF RecordKinds, RegionKinds
<1>6. VersionOf(kind, v).kind = kind /\ VersionOf(kind, v).version = v
  BY DEF VersionOf
<1>7. CellIn(VersionOf(kind, v), o)
        = IF K = {} THEN Mixed ELSE <<Max(K), IF f[Max(K)].role = "fixed" THEN 0 ELSE v>>
  BY <1>5, <1>6 DEF CellIn
<1> QED BY <1>3, <1>4, <1>7 DEF Put

LEMMA PutIsACell ==
  ASSUME NEW kind, NEW k, NEW v \in Nat
  PROVE  /\ Put(kind, k, v) # Hole /\ Put(kind, k, v) # Mixed
         /\ Put(kind, k, v)[1] = k
         /\ FieldsOf(kind)[k].role = "digest" => Put(kind, k, v)[2] = v
<1>1. \A x, y : <<x, y>> # <<>> /\ <<x, y>> # <<"mixed">>
  <2> TAKE x, y
  <2>1. Len(<<x, y>>) = 2 /\ Len(<<>>) = 0 /\ Len(<<"mixed">>) = 1
    OBVIOUS
  <2> QED BY <2>1
<1> QED BY <1>1 DEF Put, Hole, Mixed

LEMMA MixedIsNoHole == Mixed # Hole
<1>1. Len(<<>>) = 0 /\ Len(<<"mixed">>) = 1
  OBVIOUS
<1> QED BY <1>1 DEF Mixed, Hole

(* What is written in one piece reads back.                                *)
LEMMA WholeRecordsDecode ==
  ASSUME NEW kind \in RecordKinds, NEW s, MayHold(kind, s, {}), NEW cells,
         cells = [k \in DOMAIN FieldsOf(kind) |-> cells[k]],
         \A k \in DOMAIN FieldsOf(kind) : cells[k] = Put(kind, k, s)
  PROVE  Decode(kind, cells) = s
<1> DEFINE f == FieldsOf(kind)
           D == Max(With("digest", f))
<1>1. /\ DOMAIN f = 1 .. LastField(kind)
      /\ DigestOf(kind) \in With("digest", f) /\ \A k \in With("digest", f) : k <= DigestOf(kind)
  BY RecordFieldsOK DEF FieldsOK
<1>2. D = DigestOf(kind) /\ D \in DOMAIN f /\ f[D].role = "digest"
  <2>1. With("digest", f) \in SUBSET Int
    BY <1>1 DEF With
  <2>2. D = DigestOf(kind)
    BY <1>1, <2>1, MaxIs
  <2> QED BY <1>1, <2>2 DEF With
<1>3. LastField(kind) \in DOMAIN f /\ Last(cells) = cells[LastField(kind)]
  <2>1. LastField(kind) \in Nat \ {0}
    BY DEF LastField, DigestOf, RecordKinds, RegionKinds
  <2>2. Len(cells) = LastField(kind)
    <3>1. \A k \in 1 .. LastField(kind) : cells[k] \in Range(cells)
      BY <1>1 DEF Range
    <3>2. cells \in Seq(Range(cells))
      BY <1>1, <2>1, <3>1
    <3> QED BY <1>1, <2>1, <3>2
  <2> QED BY <1>1, <2>1, <2>2 DEF Last
<1> HIDE DEF f, D
<1>4. CASE s \in Nat
  <2>1. \A k \in DOMAIN f : cells[k] # Hole /\ cells[k] # Mixed /\ cells[k][1] = k
    BY <1>4, PutIsACell DEF f
  <2>2. ~NoRecordIn(kind, cells)
    BY <1>3, <2>1 DEF NoRecordIn
  <2>3. \A k \in DOMAIN f : Agrees(cells, f, k, s)
    BY <1>4 DEF Agrees, Put, f
  <2>4. \A k \in With("digest", f) : k \in DOMAIN f /\ cells[k][2] = s
    BY <1>4, PutIsACell DEF f, With
  <2>5. Sound(cells, f)
    BY <2>1, <2>3, <2>4 DEF Sound
  <2>6. \A k \in With("content", f) : Agrees(cells, f, k, s)
    BY <2>3 DEF With
  <2>7. D \in With("digest", f)
    BY <1>2 DEF With
  <2> QED BY <2>2, <2>4, <2>5, <2>6, <2>7 DEF Decode, D, f
<1>5. CASE s \notin Nat /\ kind = "chain"
  <2>1. s = Empty
    BY <1>5 DEF MayHold
  <2>2. Last(cells) = Hole
    BY <1>3, <1>5 DEF Put, f
  <2> QED BY <1>5, <2>1, <2>2 DEF Decode, NoRecordIn
<1>6. CASE s \notin Nat /\ kind # "chain"
  <2>1. s = Refused
    BY <1>6 DEF MayHold
  <2>2. cells[D] = Hole
    BY <1>2, <1>6 DEF Put, f
  <2>3. D \in With("digest", f)
    BY <1>2 DEF With
  <2>4. ~Sound(cells, f)
    BY <2>2, <2>3 DEF Sound
  <2> QED BY <1>6, <2>1, <2>4 DEF Decode, NoRecordIn, f
<1> QED BY <1>4, <1>5, <1>6

(* What may be in pieces reads as one of the versions or is refused: the   *)
(* digest that comes last covers every field whose content differs.        *)
LEMMA CutRecordsDecode ==
  ASSUME NEW kind \in RecordKinds, NEW s, NEW C, MayHold(kind, s, C), C # {}, NEW cells,
         cells = [k \in DOMAIN FieldsOf(kind) |-> cells[k]],
         \A k \in DOMAIN FieldsOf(kind) : CellHolds(cells[k], kind, k, s, C)
  PROVE  Decode(kind, cells) \in {s, Refused} \union C
<1> DEFINE f == FieldsOf(kind)
           D == Max(With("digest", f))
<1>1. /\ DOMAIN f = 1 .. LastField(kind)
      /\ DigestOf(kind) \in With("digest", f) /\ \A k \in With("digest", f) : k <= DigestOf(kind)
      /\ \A k \in With("content", f) : k < DigestOf(kind)
  BY RecordFieldsOK DEF FieldsOK
<1>2. D = DigestOf(kind) /\ D \in DOMAIN f /\ f[D].role = "digest" /\ D \in With("digest", f)
  <2>1. With("digest", f) \in SUBSET Int
    BY <1>1 DEF With
  <2>2. D = DigestOf(kind)
    BY <1>1, <2>1, MaxIs
  <2> QED BY <1>1, <2>2 DEF With
<1>3. LastField(kind) \in DOMAIN f /\ Last(cells) = cells[LastField(kind)]
  <2>1. LastField(kind) \in Nat \ {0}
    BY DEF LastField, DigestOf, RecordKinds, RegionKinds
  <2>2. Len(cells) = LastField(kind)
    <3>1. \A k \in 1 .. LastField(kind) : cells[k] \in Range(cells)
      BY <1>1 DEF Range
    <3>2. cells \in Seq(Range(cells))
      BY <1>1, <2>1, <3>1
    <3> QED BY <1>1, <2>1, <3>2
  <2> QED BY <1>1, <2>1, <2>2 DEF Last
<1>4. CASE NoRecordIn(kind, cells)
  <2> DEFINE k == LastField(kind)
  <2>1. kind = "chain" /\ cells[k] = Hole /\ k \in DOMAIN f
    BY <1>3, <1>4 DEF NoRecordIn
  <2>2. CellHolds(cells[k], kind, k, s, C)
    BY <2>1
  <2>3. \A v \in C : v \in Nat
    BY DEF MayHold
  <2>4. cells[k] = Put(kind, k, s)
    BY <2>1, <2>2, <2>3, PutIsACell, MixedIsNoHole DEF CellHolds
  <2>5. s \notin Nat
    BY <2>1, <2>4, PutIsACell
  <2>6. s = Empty
    BY <2>1, <2>5 DEF MayHold
  <2> QED BY <1>4, <2>6 DEF Decode
<1>5. CASE ~NoRecordIn(kind, cells) /\ ~Sound(cells, f)
  BY <1>5 DEF Decode
<1>6. CASE ~NoRecordIn(kind, cells) /\ Sound(cells, f)
  <2> DEFINE v == cells[D][2]
  <2>1. cells[D] # Hole /\ cells[D] # Mixed
        /\ \A j \in DOMAIN f : Covers(D, j) => Agrees(cells, f, j, v)
    BY <1>2, <1>6 DEF Sound
  <2>2. \A k \in With("content", f) : Agrees(cells, f, k, v)
    BY <1>1, <1>2, <2>1 DEF With, Covers
  <2>3. Decode(kind, cells) = v
    BY <1>6, <2>2 DEF Decode
  <2>4. CellHolds(cells[D], kind, D, s, C)
    BY <1>2
  <2>5. PICK u \in {s} \union C : cells[D] = Put(kind, D, u)
    BY <2>1, <2>4 DEF CellHolds
  <2>6. u \in Nat
    BY <2>1, <2>5 DEF Put
  <2>7. v = u
    BY <1>2, <2>5, <2>6, PutIsACell
  <2> QED BY <2>3, <2>5, <2>7
<1> QED BY <1>4, <1>5, <1>6


-------------------------------------------------------------------------------
(***************************************************************************)
(* What a write changes.  It reaches no slot that lies elsewhere; in the   *)
(* slots from the one where it begins on, it writes field after field up   *)
(* to where it ends.                                                       *)
(***************************************************************************)
LEMMA SlotFacts ==
  ASSUME NEW c, ValidCapacity(c), NEW kind \in RegionKinds, NEW i \in Slots(kind, c)
  PROVE  /\ i \in Nat /\ i < SlotCount(kind, c) /\ SlotCount(kind, c) \in Nat
         /\ SlotSize(kind, c) \in Nat \ {0}
         /\ kind # "bitmap" => SlotSize(kind, c) = RecordSize(kind)
         /\ RegionOffset(kind, c) \in Nat /\ i * SlotSize(kind, c) \in Nat
         /\ SlotOffset(kind, i, c) = RegionOffset(kind, c) + i * SlotSize(kind, c)
         /\ SlotEnd(kind, i, c) = SlotOffset(kind, i, c) + SlotSize(kind, c)
         /\ SlotOffset(kind, i, c) \in Nat /\ SlotEnd(kind, i, c) \in Nat
         /\ RegionOffset(kind, c) <= SlotOffset(kind, i, c)
         /\ SlotEnd(kind, i, c) <= RegionEndOf(kind, c) /\ RegionEndOf(kind, c) \in Nat
<1> DEFINE count == SlotCount(kind, c)
           size == SlotSize(kind, c)
<1>1. count \in Nat /\ size \in Nat \ {0} /\ RegionOffset(kind, c) \in Nat
  BY RegionOrder, SizesAreCounts
  DEF RegionKinds, SlotCount, SlotSize, RegionOffset, HeaderSize, BitmapOffset, EntrySize,
      RecipientSlotSize, ChainRecordSize, BlockSize, MaxRecipientSlots
<1>2. kind # "bitmap" => size = RecordSize(kind)
  BY DEF SlotSize, RecordSize, RegionKinds
<1> HIDE DEF count, size
<1>3. i \in Nat /\ i < count
  BY <1>1 DEF Slots, count
<1>4. i * size + size <= count * size /\ i * size \in Nat /\ count * size \in Nat
  BY <1>1, <1>3, SlotsInOrder
<1>5. /\ SlotOffset(kind, i, c) = RegionOffset(kind, c) + i * size
      /\ SlotEnd(kind, i, c) = SlotOffset(kind, i, c) + size
      /\ RegionEndOf(kind, c) = RegionOffset(kind, c) + count * size
  BY DEF SlotOffset, SlotEnd, RegionEndOf, count, size
<1> QED BY <1>1, <1>2, <1>3, <1>4, <1>5 DEF count, size

Elsewhere(d, kind, i, c) ==
  d.at + d.bytes <= SlotOffset(kind, i, c) \/ SlotEnd(kind, i, c) <= d.at

LEMMA FieldsInSlot ==
  ASSUME NEW c, ValidCapacity(c), NEW kind \in RecordKinds, NEW i \in Slots(kind, c),
         NEW k \in DOMAIN FieldsOf(kind)
  PROVE  LET o == SlotOffset(kind, i, c) + FieldStarts[kind][k]
             w == FieldsOf(kind)[k].width
         IN  /\ o \in Nat /\ w \in Nat \ {0} /\ FieldStarts[kind][k] \in Nat
             /\ SlotOffset(kind, i, c) <= o /\ o + w <= SlotEnd(kind, i, c)
             /\ FieldStarts[kind][k] < RecordSize(kind)
             /\ FieldStarts[kind][k] + w <= RecordSize(kind)
<1>1. kind \in RegionKinds /\ kind # "bitmap"
  BY DEF RecordKinds
<1>2. /\ SlotOffset(kind, i, c) \in Nat /\ SlotSize(kind, c) = RecordSize(kind)
      /\ SlotEnd(kind, i, c) = SlotOffset(kind, i, c) + SlotSize(kind, c)
      /\ RecordSize(kind) \in Nat
  BY <1>1, SlotFacts
<1>3. /\ FieldStarts[kind][k] \in Nat /\ FieldsOf(kind)[k].width \in Nat \ {0}
      /\ FieldStarts[kind][k] + FieldsOf(kind)[k].width <= RecordSize(kind)
  BY RecordFieldsOK DEF FieldsOK, FieldOK
<1> QED BY <1>2, <1>3

LEMMA FieldsElsewhere ==
  ASSUME NEW c, ValidCapacity(c), NEW ds, IsDisk(ds), NEW d, d.at \in Nat, d.bytes \in Nat,
         NEW kind \in RecordKinds, NEW i \in Slots(kind, c), Elsewhere(d, kind, i, c),
         NEW k \in DOMAIN FieldsOf(kind)
  PROVE  FieldCell(Append(ds, d), c, kind, i, k) = FieldCell(ds, c, kind, i, k)
<1> DEFINE o == SlotOffset(kind, i, c) + FieldStarts[kind][k]
           w == FieldsOf(kind)[k].width
<1>1. /\ o \in Nat /\ w \in Nat \ {0}
      /\ SlotOffset(kind, i, c) <= o /\ o + w <= SlotEnd(kind, i, c)
  BY FieldsInSlot
<1>2. SlotOffset(kind, i, c) \in Nat /\ SlotEnd(kind, i, c) \in Nat
  BY SlotFacts DEF RecordKinds
<1> HIDE DEF o, w
<1>3. ~Reaches(d, o, w)
  BY <1>1, <1>2 DEF Reaches, Elsewhere
<1>4. CellOf(Append(ds, d), o, w) = CellOf(ds, o, w)
  BY <1>3, CellAfter
<1> QED BY <1>4 DEF FieldCell, o, w

(* A write that begins with slot j, seen from slot i.                      *)
LEMMA FieldsWritten ==
  ASSUME NEW c, ValidCapacity(c), NEW ds, IsDisk(ds),
         NEW kind \in RecordKinds, NEW i \in Slots(kind, c), NEW j \in Slots(kind, c), j <= i,
         NEW d, d.at = SlotOffset(kind, j, c), d.bytes \in Nat, d.stride = RecordSize(kind),
         NEW k \in DOMAIN FieldsOf(kind)
  PROVE  LET o == SlotOffset(kind, i, c) + FieldStarts[kind][k]
             w == FieldsOf(kind)[k].width
         IN  FieldCell(Append(ds, d), c, kind, i, k)
               = IF o + w <= d.at + d.bytes THEN CellIn(d.data, FieldStarts[kind][k])
                 ELSE IF d.at + d.bytes <= o THEN FieldCell(ds, c, kind, i, k)
                 ELSE Mixed
<1> DEFINE s == FieldStarts[kind][k]
           o == SlotOffset(kind, i, c) + s
           w == FieldsOf(kind)[k].width
           size == RecordSize(kind)
           m == i - j
<1>1. kind \in RegionKinds /\ kind # "bitmap"
  BY DEF RecordKinds
<1>2. /\ o \in Nat /\ w \in Nat \ {0} /\ s \in Nat /\ s < size
      /\ SlotOffset(kind, i, c) <= o
  BY FieldsInSlot
<1>3. /\ SlotOffset(kind, i, c) = RegionOffset(kind, c) + i * size
      /\ SlotOffset(kind, j, c) = RegionOffset(kind, c) + j * size
      /\ RegionOffset(kind, c) \in Nat /\ i \in Nat /\ j \in Nat /\ size \in Nat \ {0}
      /\ SlotOffset(kind, i, c) \in Nat /\ SlotOffset(kind, j, c) \in Nat
      /\ i * size \in Nat /\ j * size \in Nat
  BY <1>1, SlotFacts
<1>4. m \in Nat /\ m * size \in Nat /\ i * size - j * size = m * size
  <2> HIDE DEF size
  <2>1. m \in Nat
    BY <1>3
  <2> HIDE DEF m
  <2>2. i = j + m
    BY <1>3 DEF m
  <2>3. (j + m) * size = j * size + m * size /\ m * size \in Nat
    BY <1>3, <2>1
  <2> QED BY <1>3, <2>1, <2>2, <2>3
<1>5. o - d.at = m * size + s
  <2> HIDE DEF size, s, m
  <2> QED BY <1>2, <1>3, <1>4
<1>6. (m * size + s) % size = s
  <2>1. size = 1024 \/ size = 320 \/ size = 192 \/ size = 224 \/ size = 4096
    BY <1>1 DEF RecordSize, RegionKinds, HeaderSize, EntrySize, RecipientSlotSize,
                ChainRecordSize, BlockSize
  <2> HIDE DEF size, s, m
  <2>2. CASE size = 1024
    BY <1>2, <1>4, <2>2
  <2>3. CASE size = 320
    BY <1>2, <1>4, <2>3
  <2>4. CASE size = 192
    BY <1>2, <1>4, <2>4
  <2>5. CASE size = 224
    BY <1>2, <1>4, <2>5
  <2>6. CASE size = 4096
    BY <1>2, <1>4, <2>6
  <2> QED BY <2>1, <2>2, <2>3, <2>4, <2>5, <2>6
<1>7. (o - d.at) % d.stride = s
  BY <1>5, <1>6
<1>8. d.at \in Nat /\ d.at <= o
  <2> HIDE DEF size, s, m, o
  <2> QED BY <1>2, <1>3, <1>4, <1>5
<1>9. CellOf(Append(ds, d), o, w)
        = IF Reaches(d, o, w) THEN WriteCell(d, o, w) ELSE CellOf(ds, o, w)
  BY CellAfter
<1> HIDE DEF o, w, s
<1>10. CASE o + w <= d.at + d.bytes
  BY <1>2, <1>7, <1>8, <1>9, <1>10 DEF Reaches, WriteCell, FieldCell, o, w, s
<1>11. CASE ~ (o + w <= d.at + d.bytes) /\ d.at + d.bytes <= o
  BY <1>2, <1>7, <1>8, <1>9, <1>11 DEF Reaches, WriteCell, FieldCell, o, w, s
<1>12. CASE ~ (o + w <= d.at + d.bytes) /\ ~ (d.at + d.bytes <= o)
  BY <1>2, <1>7, <1>8, <1>9, <1>12 DEF Reaches, WriteCell, FieldCell, o, w, s
<1> QED BY <1>10, <1>11, <1>12 DEF o, w, s


(* A write into one slot is elsewhere for all the others.                  *)
LEMMA OtherSlotsElsewhere ==
  ASSUME NEW c, ValidCapacity(c),
         NEW k \in RegionKinds, NEW i \in Slots(k, c),
         NEW l \in RegionKinds, NEW j \in Slots(l, c), <<k, i>> # <<l, j>>,
         NEW d, d.at = SlotOffset(l, j, c), d.bytes \in 0 .. SlotSize(l, c)
  PROVE  Elsewhere(d, k, i, c)
<1>1. /\ SlotOffset(l, j, c) \in Nat /\ SlotSize(l, c) \in Nat
      /\ SlotEnd(l, j, c) = SlotOffset(l, j, c) + SlotSize(l, c)
  BY SlotFacts
<1>2. SlotOffset(k, i, c) \in Nat /\ SlotEnd(k, i, c) \in Nat
  BY SlotFacts
<1>3. SlotEnd(k, i, c) <= SlotOffset(l, j, c) \/ SlotEnd(l, j, c) <= SlotOffset(k, i, c)
  BY SlotsAreApart
<1> QED BY <1>1, <1>2, <1>3 DEF Elsewhere

(* A write within one region is elsewhere for the slots of all others.     *)
LEMMA OtherRegionsElsewhere ==
  ASSUME NEW c, ValidCapacity(c),
         NEW k \in RegionKinds, NEW i \in Slots(k, c), NEW l \in RegionKinds, k # l,
         NEW d, d.at \in Nat, d.bytes \in Nat,
         RegionOffset(l, c) <= d.at, d.at + d.bytes <= RegionEndOf(l, c)
  PROVE  Elsewhere(d, k, i, c)
<1>1. /\ RegionOffset(k, c) \in Nat /\ SlotOffset(k, i, c) \in Nat /\ SlotEnd(k, i, c) \in Nat
      /\ RegionOffset(k, c) <= SlotOffset(k, i, c)
      /\ SlotEnd(k, i, c) <= RegionEndOf(k, c) /\ RegionEndOf(k, c) \in Nat
  BY SlotFacts
<1>2. RegionOffset(l, c) \in Nat /\ RegionEndOf(l, c) \in Nat
  <2>1. 0 \in Slots(l, c)
    BY SizesAreCounts DEF Slots, SlotCount, RegionKinds, MaxRecipientSlots, ValidCapacity
  <2> QED BY <2>1, SlotFacts
<1>3. RegionEndOf(k, c) <= RegionOffset(l, c) \/ RegionEndOf(l, c) <= RegionOffset(k, c)
  BY RegionsInOrder
<1> QED BY <1>1, <1>2, <1>3 DEF Elsewhere

-------------------------------------------------------------------------------
(***************************************************************************)
(* Creation.  The step of create that writes a slot, and what it writes.   *)
(***************************************************************************)
CreatedBy(kind, i) ==
  CASE kind = "header" -> 1 [] kind = "bitmap" -> 2 [] kind = "entry" -> 3
    [] kind = "recipient" -> 4 [] kind = "chain" -> (IF i = 0 THEN 5 ELSE 6)
    [] kind = "block" -> 0

StepKind(n) ==
  CASE n = 1 -> "header" [] n = 2 -> "bitmap" [] n = 3 -> "entry" [] n = 4 -> "recipient"
    [] n \in {5, 6} -> "chain"
StepSlot(n) == IF n = 6 THEN 1 ELSE 0
StepCount(n, c) ==
  IF n = 5 THEN 1
  ELSE IF n = 6 THEN SlotCount("chain", c) - 1 ELSE SlotCount(StepKind(n), c)
StepData(n, c) ==
  CASE n = 2 -> BytesOf(EmptyBits(BlockCount(c)))
    [] n = 6 -> Zeros
    [] OTHER -> VersionOf(StepKind(n), 0)
CreationWrite(n, c) ==
  [at |-> SlotOffset(StepKind(n), StepSlot(n), c), stride |-> SlotSize(StepKind(n), c),
   data |-> StepData(n, c), bytes |-> StepCount(n, c) * SlotSize(StepKind(n), c)]

LEMMA StepFacts ==
  ASSUME NEW c, ValidCapacity(c), NEW n \in 1 .. 6
  PROVE  LET w == CreationWrite(n, c)
             kind == StepKind(n)
         IN  /\ kind \in RegionKinds /\ StepSlot(n) \in Slots(kind, c)
             /\ w.at \in Nat /\ w.bytes \in Nat
             /\ w.stride = SlotSize(kind, c)
             /\ w.at = SlotOffset(kind, StepSlot(n), c)
             /\ w.data = StepData(n, c)
             /\ RegionOffset(kind, c) <= w.at
             /\ n # 5 => w.at + w.bytes = RegionEndOf(kind, c)
             /\ w.at + w.bytes <= RegionEndOf(kind, c)
             /\ n = 5 => w.at + w.bytes = SlotOffset("chain", 1, c)
             /\ n = 5 => w.bytes = SlotSize(kind, c)
<1> DEFINE kind == StepKind(n)
           i == StepSlot(n)
           w == CreationWrite(n, c)
           count == SlotCount(kind, c)
           size == SlotSize(kind, c)
<1>1. n = 1 \/ n = 2 \/ n = 3 \/ n = 4 \/ n = 5 \/ n = 6
  OBVIOUS
<1>2. kind \in RegionKinds /\ i \in {0, 1} /\ (i = 1 => n = 6) /\ (n = 6 => i = 1)
      /\ (n \in {5, 6} => kind = "chain")
  BY <1>1 DEF StepKind, StepSlot, RegionKinds
<1>3. SlotCount("chain", c) \in Nat /\ SlotCount("chain", c) >= 8
  BY DEF SlotCount, MaxChainRecords, Clamp, MaxFileSlots, ValidCapacity
<1>4. count \in Nat \ {0}
  <2> HIDE DEF kind
  <2> QED BY <1>2, SizesAreCounts DEF SlotCount, RegionKinds, MaxRecipientSlots, ValidCapacity
<1>5. i \in Slots(kind, c)
  BY <1>2, <1>3, <1>4 DEF Slots
<1> HIDE DEF kind, i
<1>6. /\ size \in Nat \ {0} /\ RegionOffset(kind, c) \in Nat /\ i * size \in Nat
      /\ SlotOffset(kind, i, c) = RegionOffset(kind, c) + i * size
      /\ SlotOffset(kind, i, c) \in Nat
  BY <1>2, <1>5, SlotFacts
<1>7. /\ w.at = SlotOffset(kind, i, c) /\ w.stride = size /\ w.data = StepData(n, c)
      /\ w.bytes = StepCount(n, c) * size
  BY DEF CreationWrite, kind, i
<1>8. RegionEndOf(kind, c) = RegionOffset(kind, c) + count * size
  BY DEF RegionEndOf, SlotOffset
<1>9. CASE n \in 1 .. 4
  <2>1. StepCount(n, c) = count /\ i = 0
    BY <1>9 DEF StepCount, kind, i, StepSlot
  <2>2. 0 * size = 0 /\ count * size \in Nat
    BY <1>4, <1>6
  <2>3. w.at = RegionOffset(kind, c) /\ w.bytes = count * size
    BY <1>6, <1>7, <2>1, <2>2
  <2> HIDE DEF w, count, size
  <2>4. w.at \in Nat /\ w.bytes \in Nat /\ w.at + w.bytes = RegionEndOf(kind, c)
        /\ RegionOffset(kind, c) <= w.at
    BY <1>6, <1>8, <2>2, <2>3
  <2> QED BY <1>2, <1>5, <1>6, <1>7, <1>9, <2>4 DEF w, kind, i, size
<1>10. CASE n = 5
  <2>1. StepCount(n, c) = 1 /\ i = 0 /\ kind = "chain"
    BY <1>10 DEF StepCount, kind, i, StepSlot, StepKind
  <2>2. 0 * size = 0 /\ 1 * size = size
    BY <1>6
  <2>3. w.at = RegionOffset(kind, c) /\ w.bytes = size
    BY <1>6, <1>7, <2>1, <2>2
  <2>4. SlotOffset("chain", 1, c) = RegionOffset(kind, c) + size
    BY <1>6, <2>1, <2>2 DEF SlotOffset
  <2>5. 0 * size + size <= count * size /\ count * size \in Nat
    BY <1>4, <1>6, SlotsInOrder
  <2> HIDE DEF w, count, size
  <2>6. /\ w.at \in Nat /\ w.bytes \in Nat /\ w.at + w.bytes <= RegionEndOf(kind, c)
        /\ w.at + w.bytes = SlotOffset("chain", 1, c) /\ RegionOffset(kind, c) <= w.at
    BY <1>6, <1>8, <2>2, <2>3, <2>4, <2>5
  <2> QED BY <1>2, <1>5, <1>6, <1>7, <1>10, <2>3, <2>6 DEF w, kind, i, size
<1>11. CASE n = 6
  <2>1. StepCount(n, c) = count - 1 /\ i = 1 /\ kind = "chain"
    BY <1>11 DEF StepCount, kind, i, StepSlot, StepKind
  <2>2. 1 * size = size /\ (count - 1) * size = count * size - size /\ count * size \in Nat
        /\ (count - 1) * size \in Nat
    <3> HIDE DEF count, size
    <3>1. count - 1 \in Nat
      BY <1>4
    <3> DEFINE m == count - 1
    <3>2. count = m + 1
      BY <1>4
    <3> HIDE DEF m
    <3>3. m \in Nat
      BY <3>1 DEF m
    <3>4. (m + 1) * size = m * size + size /\ m * size \in Nat
      BY <1>6, <3>3
    <3> QED BY <1>6, <3>2, <3>4 DEF m
  <2>3. w.at = RegionOffset(kind, c) + size /\ w.bytes = count * size - size
    BY <1>6, <1>7, <2>1, <2>2
  <2>4. w.bytes \in Nat
    BY <1>7, <2>1, <2>2
  <2> HIDE DEF w, count, size
  <2>5. /\ w.at \in Nat /\ w.bytes \in Nat /\ w.at + w.bytes = RegionEndOf(kind, c)
        /\ RegionOffset(kind, c) <= w.at
    BY <1>6, <1>8, <2>2, <2>3, <2>4
  <2> QED BY <1>2, <1>5, <1>6, <1>7, <1>11, <2>5 DEF w, kind, i, size
<1> QED BY <1>1, <1>9, <1>10, <1>11

(* Creation steps are elsewhere for the slots that they do not write.      *)
LEMMA OtherStepsElsewhere ==
  ASSUME NEW c, ValidCapacity(c), NEW n \in 1 .. 6,
         NEW kind \in RegionKinds, NEW i \in Slots(kind, c), CreatedBy(kind, i) # n,
         NEW d, d.at = CreationWrite(n, c).at, d.bytes \in 0 .. CreationWrite(n, c).bytes
  PROVE  Elsewhere(d, kind, i, c)
<1> DEFINE w == CreationWrite(n, c)
<1>1. /\ StepKind(n) \in RegionKinds /\ w.at \in Nat /\ w.bytes \in Nat
      /\ RegionOffset(StepKind(n), c) <= w.at
      /\ w.at + w.bytes <= RegionEndOf(StepKind(n), c)
      /\ w.at = SlotOffset(StepKind(n), StepSlot(n), c)
      /\ StepSlot(n) \in Slots(StepKind(n), c)
      /\ n = 5 => w.bytes = SlotSize(StepKind(n), c)
  BY StepFacts
<1> HIDE DEF w
<1>2. CASE kind # StepKind(n)
  <2>1. RegionEndOf(StepKind(n), c) \in Nat
    BY <1>1, SlotFacts
  <2>2. d.at \in Nat /\ d.bytes \in Nat /\ RegionOffset(StepKind(n), c) <= d.at
        /\ d.at + d.bytes <= RegionEndOf(StepKind(n), c)
    BY <1>1, <2>1 DEF w
  <2> QED BY <1>1, <1>2, <2>2, OtherRegionsElsewhere
<1>3. CASE kind = StepKind(n)
  <2>1. kind = "chain" /\ n \in {5, 6}
    BY <1>3 DEF StepKind, CreatedBy
  <2>2. CASE n = 5
    <3>1. i # 0 /\ StepSlot(n) = 0
      BY <2>1, <2>2 DEF CreatedBy, StepSlot
    <3>2. d.at = SlotOffset(kind, 0, c) /\ d.bytes \in 0 .. SlotSize(kind, c)
          /\ 0 \in Slots(kind, c)
      BY <1>1, <1>3, <2>2, <3>1 DEF w
    <3>3. <<kind, i>> # <<kind, 0>>
      BY <3>1
    <3> QED BY <3>2, <3>3, OtherSlotsElsewhere
  <2>3. CASE n = 6
    <3>1. i = 0 /\ StepSlot(n) = 1
      BY <2>1, <2>3 DEF CreatedBy, StepSlot
    <3>2. /\ SlotEnd(kind, 0, c) = SlotOffset(kind, 0, c) + SlotSize(kind, c)
          /\ SlotOffset(kind, 0, c) = RegionOffset(kind, c) + 0 * SlotSize(kind, c)
          /\ SlotOffset(kind, 1, c) = RegionOffset(kind, c) + 1 * SlotSize(kind, c)
          /\ SlotSize(kind, c) \in Nat /\ RegionOffset(kind, c) \in Nat
      BY <1>1, <1>3, <3>1, SlotFacts
    <3>3. SlotEnd(kind, 0, c) = SlotOffset(kind, 1, c)
      BY <3>2
    <3>4. d.at = SlotOffset(kind, 1, c) /\ d.at \in Nat
      BY <1>1, <1>3, <3>1 DEF w
    <3> QED BY <3>1, <3>3, <3>4 DEF Elsewhere
  <2> QED BY <2>1, <2>2, <2>3
<1> QED BY <1>2, <1>3


(* Each step of create begins where the one before it ended.               *)
LEMMA StepsFollow ==
  ASSUME NEW c, ValidCapacity(c), NEW n \in 1 .. 5
  PROVE  CreationWrite(n, c).at + CreationWrite(n, c).bytes = CreationWrite(n + 1, c).at
<1>1. n = 1 \/ n = 2 \/ n = 3 \/ n = 4 \/ n = 5
  OBVIOUS
<1>2. n + 1 \in 1 .. 6 /\ n \in 1 .. 6
  OBVIOUS
<1>3. CreationWrite(n + 1, c).at = SlotOffset(StepKind(n + 1), StepSlot(n + 1), c)
  BY DEF CreationWrite
<1>4. CASE n = 5
  <2>1. CreationWrite(5, c).at + CreationWrite(5, c).bytes = SlotOffset("chain", 1, c)
    BY StepFacts
  <2>2. StepKind(5 + 1) = "chain" /\ StepSlot(5 + 1) = 1
    BY DEF StepKind, StepSlot
  <2> QED BY <1>3, <1>4, <2>1, <2>2
<1>5. CASE n \in 1 .. 4
  <2>1. CreationWrite(n, c).at + CreationWrite(n, c).bytes = RegionEndOf(StepKind(n), c)
    BY <1>2, <1>5, StepFacts
  <2>2. StepSlot(n + 1) = 0
    BY <1>5 DEF StepSlot
  <2>3. \/ StepKind(n) = "header" /\ StepKind(n + 1) = "bitmap"
        \/ StepKind(n) = "bitmap" /\ StepKind(n + 1) = "entry"
        \/ StepKind(n) = "entry" /\ StepKind(n + 1) = "recipient"
        \/ StepKind(n) = "recipient" /\ StepKind(n + 1) = "chain"
    BY <1>1, <1>5 DEF StepKind
  <2>4. RegionEndOf(StepKind(n), c) = RegionOffset(StepKind(n + 1), c)
    BY <2>3, RegionEnds DEF RegionOffset
  <2>5. SlotOffset(StepKind(n + 1), 0, c) = RegionOffset(StepKind(n + 1), c)
    <3>1. SlotSize(StepKind(n + 1), c) \in Nat /\ RegionOffset(StepKind(n + 1), c) \in Nat
      BY <1>2, StepFacts, SlotFacts
    <3> QED BY <3>1 DEF SlotOffset
  <2> QED BY <1>3, <2>1, <2>2, <2>4, <2>5
<1> QED BY <1>1, <1>4, <1>5

(* The fields of a slot after the step of create that writes it.           *)
Initial(kind, i) ==
  IF kind = "block" THEN Refused ELSE IF kind = "chain" /\ i > 0 THEN Empty ELSE 0

LEMMA FieldsCreated ==
  ASSUME NEW c, ValidCapacity(c), NEW n \in 1 .. 6, NEW ds, IsDisk(ds),
         NEW kind \in RecordKinds, NEW i \in Slots(kind, c), CreatedBy(kind, i) = n,
         NEW k \in DOMAIN FieldsOf(kind)
  PROVE  FieldCell(Append(ds, CreationWrite(n, c)), c, kind, i, k)
           = Put(kind, k, Initial(kind, i))
<1> DEFINE d == CreationWrite(n, c)
           o == SlotOffset(kind, i, c) + FieldStarts[kind][k]
           w == FieldsOf(kind)[k].width
<1>1. kind \in RegionKinds /\ kind # "bitmap" /\ i \in Nat
  BY SlotFacts DEF RecordKinds
<1>2. StepKind(n) = kind /\ StepSlot(n) <= i /\ n # 2 /\ (n = 6 <=> kind = "chain" /\ i > 0)
      /\ (n = 5 => i = 0) /\ kind # "block"
  BY <1>1 DEF CreatedBy, StepKind, StepSlot, RegionKinds
<1>3. /\ d.at = SlotOffset(kind, StepSlot(n), c) /\ d.bytes \in Nat /\ d.at \in Nat
      /\ d.stride = SlotSize(kind, c) /\ d.data = StepData(n, c)
      /\ StepSlot(n) \in Slots(kind, c)
      /\ n # 5 => d.at + d.bytes = RegionEndOf(kind, c)
      /\ n = 5 => d.bytes = SlotSize(kind, c)
  BY <1>2, StepFacts
<1>4. /\ SlotSize(kind, c) = RecordSize(kind) /\ SlotEnd(kind, i, c) <= RegionEndOf(kind, c)
      /\ SlotEnd(kind, i, c) = SlotOffset(kind, i, c) + SlotSize(kind, c)
      /\ SlotEnd(kind, i, c) \in Nat /\ RegionEndOf(kind, c) \in Nat
  BY <1>1, SlotFacts
<1>5. /\ o \in Nat /\ w \in Nat /\ o + w <= SlotEnd(kind, i, c)
  BY FieldsInSlot
<1> HIDE DEF d, o, w
<1>6. o + w <= d.at + d.bytes
  <2>1. CASE n = 5
    <3>1. d.at = SlotOffset(kind, i, c)
      BY <1>2, <1>3, <2>1 DEF StepSlot
    <3> QED BY <1>3, <1>4, <1>5, <2>1, <3>1
  <2>2. CASE n # 5
    BY <1>3, <1>4, <1>5, <2>2
  <2> QED BY <2>1, <2>2
<1>7. FieldCell(Append(ds, d), c, kind, i, k) = CellIn(StepData(n, c), FieldStarts[kind][k])
  <2>1. FieldCell(Append(ds, d), c, kind, i, k)
          = IF o + w <= d.at + d.bytes THEN CellIn(d.data, FieldStarts[kind][k])
            ELSE IF d.at + d.bytes <= o THEN FieldCell(ds, c, kind, i, k)
            ELSE Mixed
    BY <1>2, <1>3, <1>4, FieldsWritten DEF o, w
  <2> QED BY <1>3, <1>6, <2>1
<1>8. CASE n = 6
  <2>1. Initial(kind, i) = Empty /\ Empty \notin Nat
    BY <1>2, <1>8 DEF Initial, Empty
  <2>2. CellIn(Zeros, FieldStarts[kind][k]) = Hole
    BY DEF CellIn, Zeros
  <2> QED BY <1>7, <1>8, <2>1, <2>2 DEF Put, StepData, d
<1>9. CASE n # 6
  <2>1. Initial(kind, i) = 0 /\ 0 \in Nat
    BY <1>2, <1>9 DEF Initial
  <2>2. StepData(n, c) = VersionOf(kind, 0)
    BY <1>2, <1>9 DEF StepData
  <2>3. CellIn(VersionOf(kind, 0), FieldStarts[kind][k]) = Put(kind, k, 0)
    BY <2>1, VersionCell
  <2> QED BY <1>7, <2>1, <2>2, <2>3 DEF d
<1> QED BY <1>8, <1>9

(* The fields of a slot after a whole write of a record, and after one     *)
(* that was cut off in its field j.                                        *)
RecordWrite(kind, i, c, v, b) ==
  [at |-> SlotOffset(kind, i, c), stride |-> SlotSize(kind, c), data |-> VersionOf(kind, v),
   bytes |-> b]

LEMMA FieldsOfRecordWrite ==
  ASSUME NEW c, ValidCapacity(c), NEW ds, IsDisk(ds),
         NEW kind \in RecordKinds, NEW i \in Slots(kind, c), NEW v \in Nat,
         NEW k \in DOMAIN FieldsOf(kind)
  PROVE  /\ FieldCell(Append(ds, RecordWrite(kind, i, c, v, SlotSize(kind, c))), c, kind, i, k)
              = Put(kind, k, v)
         /\ \A j \in DOMAIN FieldsOf(kind) :
              FieldCell(Append(ds, RecordWrite(kind, i, c, v, HalfWay(kind, j))), c, kind, i, k)
                \in {Put(kind, k, v), FieldCell(ds, c, kind, i, k), Mixed}
<1> DEFINE o == SlotOffset(kind, i, c) + FieldStarts[kind][k]
           w == FieldsOf(kind)[k].width
<1>1. kind \in RegionKinds /\ kind # "bitmap"
  BY DEF RecordKinds
<1>2. /\ SlotSize(kind, c) = RecordSize(kind) /\ RecordSize(kind) \in Nat
      /\ SlotEnd(kind, i, c) = SlotOffset(kind, i, c) + SlotSize(kind, c)
      /\ SlotOffset(kind, i, c) \in Nat /\ i <= i
  BY <1>1, SlotFacts
<1>3. /\ o \in Nat /\ w \in Nat /\ o + w <= SlotEnd(kind, i, c)
  BY FieldsInSlot
<1>4. CellIn(VersionOf(kind, v), FieldStarts[kind][k]) = Put(kind, k, v)
  BY VersionCell
<1>5. ASSUME NEW b \in Nat
      PROVE  FieldCell(Append(ds, RecordWrite(kind, i, c, v, b)), c, kind, i, k)
               = IF o + w <= SlotOffset(kind, i, c) + b THEN Put(kind, k, v)
                 ELSE IF SlotOffset(kind, i, c) + b <= o THEN FieldCell(ds, c, kind, i, k)
                 ELSE Mixed
  <2> DEFINE d == RecordWrite(kind, i, c, v, b)
  <2>1. /\ d.at = SlotOffset(kind, i, c) /\ d.bytes = b /\ d.stride = RecordSize(kind)
        /\ d.data = VersionOf(kind, v)
    BY <1>2 DEF RecordWrite
  <2> HIDE DEF d
  <2>2. FieldCell(Append(ds, d), c, kind, i, k)
          = IF o + w <= d.at + d.bytes THEN CellIn(d.data, FieldStarts[kind][k])
            ELSE IF d.at + d.bytes <= o THEN FieldCell(ds, c, kind, i, k)
            ELSE Mixed
    BY <1>2, <2>1, FieldsWritten
  <2> HIDE DEF o, w
  <2> QED BY <1>4, <2>1, <2>2 DEF d
<1>6. o + w <= SlotOffset(kind, i, c) + SlotSize(kind, c)
  BY <1>2, <1>3
<1> HIDE DEF o, w
<1>7. FieldCell(Append(ds, RecordWrite(kind, i, c, v, SlotSize(kind, c))), c, kind, i, k)
        = Put(kind, k, v)
  <2>1. SlotSize(kind, c) \in Nat
    BY <1>2
  <2> QED BY <1>5, <1>6, <2>1
<1>8. ASSUME NEW j \in DOMAIN FieldsOf(kind)
      PROVE  FieldCell(Append(ds, RecordWrite(kind, i, c, v, HalfWay(kind, j))), c, kind, i, k)
                \in {Put(kind, k, v), FieldCell(ds, c, kind, i, k), Mixed}
  <2>1. HalfWay(kind, j) \in Nat
    BY RecordFieldsOK DEF FieldsOK, FieldOK
  <2> QED BY <1>5, <2>1
<1> QED BY <1>7, <1>8


-------------------------------------------------------------------------------
(***************************************************************************)
(* The state.  RecordsOK says of the slots that are watched what the bytes *)
(* in them have to do with the history of their writes; it is what the     *)
(* decoders need, and what the next write keeps.  A slot that create has   *)
(* not come to yet has holes; of one that create was cut off in or before  *)
(* nothing is said.                                                        *)
(***************************************************************************)
SlotHolds(ds, c, kind, i, s, C) ==
  \A k \in DOMAIN FieldsOf(kind) : CellHolds(FieldCell(ds, c, kind, i, k), kind, k, s, C)

Expected(kind, i) ==
  IF cutIn # 0 \/ CreatedBy(kind, i) <= Len(disk) THEN saved[<<kind, i>>] ELSE Refused
NotCutOff(kind, i) == cutIn = 0 \/ CreatedBy(kind, i) < cutIn

RecordsOK ==
  \A kind \in RecordKinds : \A i \in Watched(kind) :
    NotCutOff(kind, i) =>
      SlotHolds(disk, capacity, kind, i, Expected(kind, i), cut[<<kind, i>>])

HistoryOK ==
  /\ DOMAIN saved = RecordSlots \union {BitmapSlot} /\ DOMAIN cut = DOMAIN saved
  /\ \A kind \in RecordKinds : \A i \in Watched(kind) :
       /\ MayHold(kind, saved[<<kind, i>>], cut[<<kind, i>>])
       /\ Creating => saved[<<kind, i>>] = Initial(kind, i) /\ cut[<<kind, i>>] = {}
  /\ Creating => saved[BitmapSlot] = {} /\ cut[BitmapSlot] = {}

(* Creation goes on where it is.                                           *)
CreationOK ==
  /\ IsDisk(disk)
  /\ cutIn \in 0 .. 6
  /\ Creating /\ disk # <<>> =>
       Last(disk).at + Last(disk).bytes = CreationWrite(Len(disk) + 1, capacity).at

LEMMA WatchedSlots ==
  ASSUME Shape, NEW kind \in RegionKinds
  PROVE  /\ Watched(kind) = {0, SlotCount(kind, capacity) - 1}
         /\ Watched(kind) \subseteq Slots(kind, capacity)
         /\ region[kind].size = SlotSize(kind, capacity)
         /\ region[kind].count = SlotCount(kind, capacity)
         /\ \A i \in Watched(kind) : SlotAt(kind, i) = SlotOffset(kind, i, capacity)
         /\ SlotAt(kind, 0) = SlotOffset(kind, 0, capacity)
         /\ ValidCapacity(capacity)
<1>1. ValidCapacity(capacity)
  BY DEF Shape
<1>2. region[kind] = [offset |-> RegionOffset(kind, capacity),
                      size |-> SlotSize(kind, capacity), count |-> SlotCount(kind, capacity)]
  BY DEF Shape, RegionsFor
<1>3. SlotCount(kind, capacity) \in Nat \ {0}
  BY <1>1, SizesAreCounts DEF SlotCount, RegionKinds, MaxRecipientSlots, ValidCapacity
<1>4. Watched(kind) = {0, SlotCount(kind, capacity) - 1}
  BY <1>2 DEF Watched
<1>5. Watched(kind) \subseteq Slots(kind, capacity)
  BY <1>3, <1>4 DEF Slots
<1>6. \A i : SlotAt(kind, i) = SlotOffset(kind, i, capacity)
  BY <1>2 DEF SlotAt, SlotOffset
<1> QED BY <1>1, <1>2, <1>4, <1>5, <1>6

LEMMA RecordSlotKinds ==
  /\ \A kind \in RecordKinds : \A i \in Watched(kind) :
       <<kind, i>> \in RecordSlots /\ <<kind, i>> # BitmapSlot
  /\ \A s \in RecordSlots : \E kind \in RecordKinds : \E i \in Watched(kind) : s = <<kind, i>>
<1>1. ASSUME NEW kind \in RecordKinds, NEW i \in Watched(kind)
      PROVE  <<kind, i>> \in RecordSlots /\ <<kind, i>> # BitmapSlot
  <2>1. <<kind, i>> \in {kind} \X Watched(kind)
    OBVIOUS
  <2>2. kind # "bitmap"
    BY DEF RecordKinds
  <2> QED BY <2>1, <2>2 DEF RecordSlots, RecordKinds, BitmapSlot
<1>2. ASSUME NEW s \in RecordSlots
      PROVE  \E kind \in RecordKinds : \E i \in Watched(kind) : s = <<kind, i>>
  <2>1. PICK kind \in RecordKinds : s \in {kind} \X Watched(kind)
    BY DEF RecordSlots, RecordKinds
  <2> QED BY <2>1
<1> QED BY <1>1, <1>2

(* What a slot that holds its history reads as.                            *)
LEMMA HistoriesDecode ==
  ASSUME Shape, IsDisk(disk), NEW kind \in RecordKinds, NEW i \in Watched(kind),
         NEW s, NEW C, MayHold(kind, s, C), SlotHolds(disk, capacity, kind, i, s, C)
  PROVE  Read(kind, i) \in {s} \union (IF C = {} THEN {} ELSE C \union {Refused})
<1> DEFINE cells == [k \in DOMAIN FieldsOf(kind) |-> FieldCell(disk, capacity, kind, i, k)]
<1>1. kind \in RegionKinds /\ i \in Slots(kind, capacity)
  BY WatchedSlots DEF RecordKinds
<1>2. Read(kind, i) = Decode(kind, cells)
  BY <1>1, ReadsItsCells
<1>3. \A k \in DOMAIN FieldsOf(kind) : cells[k] = FieldCell(disk, capacity, kind, i, k)
  OBVIOUS
<1>4. cells = [k \in DOMAIN FieldsOf(kind) |-> cells[k]]
  OBVIOUS
<1> HIDE DEF cells
<1>5. CASE C = {}
  <2>1. \A k \in DOMAIN FieldsOf(kind) : cells[k] = Put(kind, k, s)
    BY <1>3, <1>5 DEF SlotHolds, CellHolds
  <2>2. Decode(kind, cells) = s
    BY <1>4, <1>5, <2>1, WholeRecordsDecode
  <2> QED BY <1>2, <2>2
<1>6. CASE C # {}
  <2>1. \A k \in DOMAIN FieldsOf(kind) : CellHolds(cells[k], kind, k, s, C)
    BY <1>3 DEF SlotHolds
  <2>2. Decode(kind, cells) \in {s, Refused} \union C
    BY <1>4, <1>6, <2>1, CutRecordsDecode
  <2> QED BY <1>2, <1>6, <2>2
<1> QED BY <1>5, <1>6

(* A record that create has come to reads as the last write put it there.  *)
LEMMA CreatedReadsBack ==
  ASSUME Shape, CreationOK, HistoryOK, RecordsOK, ~Creating,
         NEW kind \in RecordKinds, NEW i \in Watched(kind), NotCutOff(kind, i),
         NEW s, s = <<kind, i>>
  PROVE  Read(kind, i) \in
           {saved[s]} \union (IF cut[s] = {} THEN {} ELSE cut[s] \union {Refused})
<1>1. cutIn = 0 => Len(disk) >= 6 /\ Len(disk) \in Nat
  <2>1. Len(CreationOrder) = 6
    BY DEF CreationOrder
  <2> QED BY <2>1 DEF Creating, Created, CreationOK, IsDisk
<1>2. CreatedBy(kind, i) \in 0 .. 6
  BY DEF CreatedBy, RecordKinds, RegionKinds
<1>3. Expected(kind, i) = saved[s]
  BY <1>1, <1>2 DEF Expected
<1>4. SlotHolds(disk, capacity, kind, i, saved[s], cut[s])
  BY <1>3 DEF RecordsOK
<1>5. MayHold(kind, saved[s], cut[s]) /\ IsDisk(disk)
  BY DEF HistoryOK, CreationOK
<1> QED BY <1>4, <1>5, HistoriesDecode

(* A record of a complete container does.                                  *)
LEMMA HistoriesReadBack ==
  ASSUME Shape, CreationOK, HistoryOK, RecordsOK PROVE RecordsReadBack
<1> SUFFICES ASSUME Created, NEW s \in RecordSlots
             PROVE  Read(s[1], s[2]) \in
                      {saved[s]} \union (IF cut[s] = {} THEN {} ELSE cut[s] \union {Refused})
  BY DEF RecordsReadBack
<1>1. PICK kind \in RecordKinds : \E i \in Watched(kind) : s = <<kind, i>>
  BY RecordSlotKinds
<1>2. PICK i \in Watched(kind) : s = <<kind, i>>
  BY <1>1
<1>3. s[1] = kind /\ s[2] = i
  BY <1>2
<1>4. ~Creating /\ NotCutOff(kind, i)
  BY DEF Creating, Created, NotCutOff
<1>5. Read(kind, i) \in {saved[s]} \union (IF cut[s] = {} THEN {} ELSE cut[s] \union {Refused})
  BY <1>2, <1>4, CreatedReadsBack
<1> QED BY <1>3, <1>5


-------------------------------------------------------------------------------
(* The steps that do not touch the file, and those of create.              *)
SameDisk == UNCHANGED <<capacity, region, disk, saved, cut, cutIn>>

LEMMA SameDiskKeeps ==
  ASSUME CreationOK, HistoryOK, RecordsOK, SameDisk
  PROVE  CreationOK' /\ HistoryOK' /\ RecordsOK'
<1>1. CreationOK'
  BY DEF CreationOK, SameDisk, Creating, Created
<1>2. HistoryOK'
  BY DEF HistoryOK, SameDisk, Creating, Created, RecordSlots, Watched
<1>3. RecordsOK'
  BY DEF RecordsOK, SameDisk, Watched, Expected, NotCutOff
<1> QED BY <1>1, <1>2, <1>3

LEMMA DiskGrows ==
  ASSUME NEW ds, IsDisk(ds), NEW d, d.at \in Nat, d.bytes \in Nat
  PROVE  LET a == Append(ds, d) IN
         /\ IsDisk(a) /\ Len(ds) \in Nat /\ Len(a) = Len(ds) + 1
         /\ a # <<>> /\ Last(a) = d
<1> DEFINE a == Append(ds, d)
<1>1. /\ Len(ds) \in Nat /\ Len(a) = Len(ds) + 1 /\ a \in Seq(Range(a))
      /\ a[Len(ds) + 1] = d /\ \A n \in 1 .. Len(ds) : a[n] = ds[n]
  BY AppendTo DEF IsDisk
<1> HIDE DEF a
<1>2. \A n \in 1 .. Len(a) : a[n].at \in Nat /\ a[n].bytes \in Nat
  <2> TAKE n \in 1 .. Len(a)
  <2>1. n \in 1 .. Len(ds) \/ n = Len(ds) + 1
    BY <1>1
  <2> QED BY <1>1, <2>1 DEF IsDisk
<1>3. Last(a) = d
  BY <1>1 DEF Last
<1>4. a # <<>>
  <2>1. Len(<<>>) = 0
    OBVIOUS
  <2> QED BY <1>1, <2>1
<1> QED BY <1>1, <1>2, <1>3, <1>4 DEF a, IsDisk

LEMMA RegionWriteIs ==
  ASSUME Shape, CreationOK, Creating
  PROVE  /\ cutIn = 0 /\ Len(disk) \in 0 .. 5 /\ Len(disk) + 1 \in 1 .. 6
         /\ RegionWrite(Len(disk) + 1) = CreationWrite(Len(disk) + 1, capacity)
<1> DEFINE n == Len(disk) + 1
           c == capacity
           at == IF disk = <<>> THEN 0 ELSE Last(disk).at + Last(disk).bytes
<1>1. Len(CreationOrder) = 6
  BY DEF CreationOrder
<1>2. cutIn = 0 /\ Len(disk) \in 0 .. 5 /\ n \in 1 .. 6
  <2>1. cutIn = 0 /\ ~(Len(disk) >= 6)
    BY <1>1 DEF Creating, Created
  <2>2. Len(disk) \in Nat
    BY DEF CreationOK, IsDisk
  <2>3. \A l \in Nat : ~(l >= 6) => l \in 0 .. 5 /\ l + 1 \in 1 .. 6
    OBVIOUS
  <2> QED BY <2>1, <2>2, <2>3
<1>3. ValidCapacity(c)
  BY DEF Shape
<1>4. at = CreationWrite(n, c).at
  <2>1. CASE disk = <<>>
    <3>1. n = 1
      <4>1. Len(<<>>) = 0
        OBVIOUS
      <4> QED BY <2>1, <4>1
    <3>2. CreationWrite(1, c).at = SlotOffset("header", 0, c)
      BY DEF CreationWrite, StepKind, StepSlot
    <3>3. SlotOffset("header", 0, c) = 0
      BY DEF SlotOffset, RegionOffset, SlotSize, HeaderSize
    <3> QED BY <2>1, <3>1, <3>2, <3>3
  <2>2. CASE disk # <<>>
    BY <2>2 DEF CreationOK
  <2> QED BY <2>1, <2>2
<1>5. \A kind \in RegionKinds : /\ region[kind].size = SlotSize(kind, c)
                                /\ region[kind].count = SlotCount(kind, c)
  BY WatchedSlots
<1> HIDE DEF n, at
<1>6. RegionWrite(n) = CreationWrite(n, c)
  <2>1. n = 1 \/ n = 2 \/ n = 3 \/ n = 4 \/ n = 5 \/ n = 6
    BY <1>2
  <2> DEFINE kind == CreationOrder[n]
             size == IF kind = "genesis" THEN ChainRecordSize ELSE region[kind].size
             count == CASE kind = "genesis" -> 1
                        [] kind = "chain" -> region["chain"].count - 1
                        [] OTHER -> region[kind].count
             data == CASE kind = "bitmap" -> BytesOf(EmptyBits(Blocks))
                       [] kind = "genesis" -> VersionOf("chain", 0)
                       [] kind = "chain" -> Zeros
                       [] OTHER -> VersionOf(kind, 0)
  <2>2. RegionWrite(n) = [at |-> at, stride |-> size, data |-> data, bytes |-> count * size]
    BY DEF RegionWrite, at
  <2>3. size = SlotSize(StepKind(n), c) /\ count = StepCount(n, c) /\ data = StepData(n, c)
    <3>1. CASE n = 1
      <4>1. kind = "header" /\ StepKind(n) = "header" /\ kind \in RegionKinds
        BY <3>1 DEF CreationOrder, StepKind, RegionKinds
      <4> QED BY <1>5, <3>1, <4>1 DEF StepCount, StepData
    <3>2. CASE n = 2
      <4>1. kind = "bitmap" /\ StepKind(n) = "bitmap" /\ kind \in RegionKinds
        BY <3>2 DEF CreationOrder, StepKind, RegionKinds
      <4> QED BY <1>5, <3>2, <4>1 DEF StepCount, StepData, Blocks
    <3>3. CASE n = 3
      <4>1. kind = "entry" /\ StepKind(n) = "entry" /\ kind \in RegionKinds
        BY <3>3 DEF CreationOrder, StepKind, RegionKinds
      <4> QED BY <1>5, <3>3, <4>1 DEF StepCount, StepData
    <3>4. CASE n = 4
      <4>1. kind = "recipient" /\ StepKind(n) = "recipient" /\ kind \in RegionKinds
        BY <3>4 DEF CreationOrder, StepKind, RegionKinds
      <4> QED BY <1>5, <3>4, <4>1 DEF StepCount, StepData
    <3>5. CASE n = 5
      <4>1. kind = "genesis" /\ StepKind(n) = "chain"
        BY <3>5 DEF CreationOrder, StepKind
      <4>2. SlotSize("chain", c) = ChainRecordSize
        BY DEF SlotSize
      <4> QED BY <3>5, <4>1, <4>2 DEF StepCount, StepData
    <3>6. CASE n = 6
      <4>1. kind = "chain" /\ StepKind(n) = "chain" /\ kind \in RegionKinds
        BY <3>6 DEF CreationOrder, StepKind, RegionKinds
      <4> QED BY <1>5, <3>6, <4>1 DEF StepCount, StepData
    <3> QED BY <2>1, <3>1, <3>2, <3>3, <3>4, <3>5, <3>6
  <2>4. CreationWrite(n, c) = [at |-> CreationWrite(n, c).at, stride |-> SlotSize(StepKind(n), c),
                               data |-> StepData(n, c),
                               bytes |-> StepCount(n, c) * SlotSize(StepKind(n), c)]
    BY DEF CreationWrite
  <2> HIDE DEF size, count, data, kind
  <2> QED BY <1>4, <2>2, <2>3, <2>4
<1> QED BY <1>2, <1>6 DEF n

LEMMA CreateStepKeeps ==
  ASSUME Shape, CreationOK, HistoryOK, RecordsOK, Creating,
         disk' = Append(disk, CreationWrite(Len(disk) + 1, capacity)),
         UNCHANGED <<capacity, region, saved, cut, cutIn>>
  PROVE  CreationOK' /\ HistoryOK' /\ RecordsOK'
<1> DEFINE n == Len(disk) + 1
           c == capacity
           d == CreationWrite(n, c)
<1>1. cutIn = 0 /\ n \in 1 .. 6 /\ Len(disk) \in 0 .. 5
  BY RegionWriteIs
<1>2. ValidCapacity(c) /\ IsDisk(disk)
  BY DEF Shape, CreationOK
<1>3. d.at \in Nat /\ d.bytes \in Nat
  BY <1>1, <1>2, StepFacts
<1> HIDE DEF d
<1>4. IsDisk(disk') /\ Len(disk') = n /\ disk' # <<>> /\ Last(disk') = d
  BY <1>2, <1>3, DiskGrows DEF d
<1>5. Creating' => n \in 1 .. 5
  <2>1. Len(CreationOrder) = 6
    BY DEF CreationOrder
  <2> QED BY <1>1, <1>4, <2>1 DEF Creating, Created
<1>6. CreationOK'
  <2>1. Creating' => d.at + d.bytes = CreationWrite(n + 1, c).at
    BY <1>2, <1>5, StepsFollow DEF d
  <2> QED BY <1>1, <1>4, <2>1 DEF CreationOK
<1>7. HistoryOK'
  BY DEF HistoryOK, RecordSlots, Watched
<1>8. RecordsOK'
  <2> SUFFICES ASSUME NEW kind \in RecordKinds, NEW i \in Watched(kind)'
               PROVE  SlotHolds(disk', c, kind, i, Expected(kind, i)', cut[<<kind, i>>])
    BY DEF RecordsOK
  <2>1. i \in Watched(kind) /\ i \in Slots(kind, c) /\ kind \in RegionKinds
    <3>1. i \in Watched(kind)
      BY DEF Watched
    <3> QED BY <3>1, WatchedSlots DEF RecordKinds
  <2>2. SlotHolds(disk, c, kind, i, Expected(kind, i), cut[<<kind, i>>])
    BY <1>1, <2>1 DEF RecordsOK, NotCutOff
  <2>3. CreatedBy(kind, i) \in 0 .. 6
    BY DEF CreatedBy, RecordKinds, RegionKinds
  <2>4. CASE CreatedBy(kind, i) # n
    <3>1. Expected(kind, i)' = Expected(kind, i)
      <4>1. CreatedBy(kind, i) <= n <=> CreatedBy(kind, i) <= Len(disk)
        BY <1>1, <2>3, <2>4
      <4> QED BY <1>1, <1>4, <4>1 DEF Expected
    <3>2. Elsewhere(d, kind, i, c)
      BY <1>1, <1>2, <1>3, <2>1, <2>4, OtherStepsElsewhere DEF d
    <3>3. \A k \in DOMAIN FieldsOf(kind) :
            FieldCell(disk', c, kind, i, k) = FieldCell(disk, c, kind, i, k)
      BY <1>2, <1>3, <2>1, <3>2, FieldsElsewhere DEF d
    <3> QED BY <2>2, <3>1, <3>3 DEF SlotHolds
  <2>5. CASE CreatedBy(kind, i) = n
    <3>1. Expected(kind, i)' = saved[<<kind, i>>]
      BY <1>4, <2>5, <1>1 DEF Expected
    <3>2. saved[<<kind, i>>] = Initial(kind, i)
      BY <2>1 DEF HistoryOK
    <3>3. \A k \in DOMAIN FieldsOf(kind) :
            FieldCell(disk', c, kind, i, k) = Put(kind, k, Initial(kind, i))
      BY <1>1, <1>2, <2>1, <2>5, FieldsCreated DEF d
    <3> QED BY <3>1, <3>2, <3>3 DEF SlotHolds, CellHolds
  <2> QED BY <2>4, <2>5
<1> QED BY <1>6, <1>7, <1>8

(* The process dies while create runs, in its step cutIn'.                 *)
LEMMA CreationCutKeeps ==
  ASSUME Shape, CreationOK, HistoryOK, RecordsOK, Creating,
         NEW d, d.at = CreationWrite(Len(disk) + 1, capacity).at,
         d.bytes \in 0 .. CreationWrite(Len(disk) + 1, capacity).bytes,
         disk' = Append(disk, d),
         cutIn' = Len(disk) + 1, UNCHANGED <<capacity, region, saved, cut>>
  PROVE  CreationOK' /\ HistoryOK' /\ RecordsOK'
<1> DEFINE m == Len(disk) + 1
           w == CreationWrite(m, capacity)
<1>1. cutIn = 0 /\ m \in 1 .. 6 /\ Len(disk) \in 0 .. 5
  BY RegionWriteIs
<1>2. ~Creating' /\ cutIn' # 0
  BY <1>1 DEF Creating
<1>3. ValidCapacity(capacity) /\ IsDisk(disk)
  BY DEF Shape, CreationOK
<1>4. d.at \in Nat /\ d.bytes \in Nat
  <2>1. w.at \in Nat /\ w.bytes \in Nat
    BY <1>1, <1>3, StepFacts
  <2> QED BY <2>1
<1>5. IsDisk(disk')
  BY <1>3, <1>4, DiskGrows
<1>6. CreationOK'
  BY <1>1, <1>2, <1>5 DEF CreationOK
<1>7. HistoryOK'
  BY <1>2 DEF HistoryOK, RecordSlots, Watched
<1>8. RecordsOK'
  <2> SUFFICES ASSUME NEW kind \in RecordKinds, NEW i \in Watched(kind)', NotCutOff(kind, i)'
               PROVE  SlotHolds(disk', capacity, kind, i, Expected(kind, i)', cut[<<kind, i>>])
    BY DEF RecordsOK
  <2>1. i \in Watched(kind) /\ i \in Slots(kind, capacity) /\ kind \in RegionKinds
    <3>1. i \in Watched(kind)
      BY DEF Watched
    <3> QED BY <3>1, WatchedSlots DEF RecordKinds
  <2>2. CreatedBy(kind, i) \in 0 .. 6 /\ CreatedBy(kind, i) < m
    <3>1. CreatedBy(kind, i) \in 0 .. 6
      BY DEF CreatedBy, RecordKinds, RegionKinds
    <3>2. CreatedBy(kind, i) < cutIn'
      BY <1>2 DEF NotCutOff
    <3> QED BY <3>1, <3>2
  <2>3. Expected(kind, i) = saved[<<kind, i>>] /\ Expected(kind, i)' = saved[<<kind, i>>]
    <3>1. CreatedBy(kind, i) <= Len(disk)
      BY <1>1, <2>2
    <3> QED BY <1>2, <3>1 DEF Expected
  <2>4. SlotHolds(disk, capacity, kind, i, saved[<<kind, i>>], cut[<<kind, i>>])
    BY <1>1, <2>1, <2>3 DEF RecordsOK, NotCutOff
  <2>5. Elsewhere(d, kind, i, capacity)
    <3>1. CreatedBy(kind, i) # m
      BY <1>1, <2>2
    <3> QED BY <1>1, <1>3, <2>1, <3>1, OtherStepsElsewhere
  <2>6. \A k \in DOMAIN FieldsOf(kind) :
          FieldCell(disk', capacity, kind, i, k) = FieldCell(disk, capacity, kind, i, k)
    BY <1>3, <1>4, <2>1, <2>5, FieldsElsewhere
  <2> QED BY <2>3, <2>4, <2>6 DEF SlotHolds
<1> QED BY <1>6, <1>7, <1>8


-------------------------------------------------------------------------------
(* Writes to a container that create is done with.  A write within one     *)
(* slot keeps what is known of all others.                                 *)
LEMMA CompleteStays ==
  ASSUME CreationOK, ~Creating, NEW d, disk' = Append(disk, d), UNCHANGED cutIn
  PROVE  /\ ~Creating'
         /\ cutIn = 0 => \A kind \in RecordKinds, i \in Nat :
                           CreatedBy(kind, i) <= Len(disk) /\ CreatedBy(kind, i) <= Len(disk')
<1>1. Len(CreationOrder) = 6
  BY DEF CreationOrder
<1>2. Len(disk) \in Nat /\ Len(disk') = Len(disk) + 1
  BY AppendTo DEF CreationOK, IsDisk
<1>3. cutIn = 0 => Len(disk) >= 6
  BY <1>1 DEF Creating, Created
<1>4. \A l \in Nat : l >= 6 => l + 1 >= 6
  OBVIOUS
<1>5. ~Creating'
  BY <1>1, <1>2, <1>3, <1>4 DEF Creating, Created
<1>6. \A kind \in RecordKinds, i \in Nat : CreatedBy(kind, i) \in 0 .. 6
  BY DEF CreatedBy, RecordKinds, RegionKinds
<1>7. \A x \in 0 .. 6 : \A l \in Nat : l >= 6 => x <= l /\ x <= l + 1
  OBVIOUS
<1> QED BY <1>2, <1>3, <1>5, <1>6, <1>7

LEMMA SlotWriteKeeps ==
  ASSUME Shape, CreationOK, HistoryOK, RecordsOK, ~Creating,
         NEW l \in RegionKinds, NEW j \in Slots(l, capacity),
         NEW d, d.at = SlotOffset(l, j, capacity), d.bytes \in 0 .. SlotSize(l, capacity),
         disk' = Append(disk, d), UNCHANGED <<capacity, region, cutIn>>,
         DOMAIN saved' = DOMAIN saved, DOMAIN cut' = DOMAIN cut,
         \A s \in RecordSlots : s # <<l, j>> => saved'[s] = saved[s] /\ cut'[s] = cut[s],
         <<l, j>> \in RecordSlots =>
           /\ MayHold(l, saved'[<<l, j>>], cut'[<<l, j>>])
           /\ NotCutOff(l, j) =>
                SlotHolds(disk', capacity, l, j, saved'[<<l, j>>], cut'[<<l, j>>])
  PROVE  CreationOK' /\ HistoryOK' /\ RecordsOK'
<1>1. ValidCapacity(capacity) /\ IsDisk(disk)
  BY DEF Shape, CreationOK
<1>2. d.at \in Nat /\ d.bytes \in Nat
  <2>1. SlotOffset(l, j, capacity) \in Nat /\ SlotSize(l, capacity) \in Nat
    BY <1>1, SlotFacts
  <2> QED BY <2>1
<1>3. IsDisk(disk')
  BY <1>1, <1>2, DiskGrows
<1>4. ~Creating'
  BY CompleteStays
<1>5. CreationOK'
  BY <1>3, <1>4 DEF CreationOK
<1>6. \A kind : Watched(kind)' = Watched(kind)
  BY DEF Watched
<1>7. \A kind \in RecordKinds : \A i \in Watched(kind) :
        /\ kind \in RegionKinds /\ i \in Slots(kind, capacity) /\ i \in Nat
        /\ <<kind, i>> \in RecordSlots
  <2> SUFFICES ASSUME NEW kind \in RecordKinds, NEW i \in Watched(kind)
               PROVE  /\ kind \in RegionKinds /\ i \in Slots(kind, capacity) /\ i \in Nat
                      /\ <<kind, i>> \in RecordSlots
    OBVIOUS
  <2>1. kind \in RegionKinds
    BY DEF RecordKinds
  <2>2. i \in Slots(kind, capacity)
    BY <2>1, WatchedSlots
  <2>3. i \in Nat
    BY <1>1, <2>1, <2>2, SlotFacts
  <2> QED BY <2>1, <2>2, <2>3, RecordSlotKinds
<1>8. HistoryOK'
  <2>1. DOMAIN saved' = (RecordSlots \union {BitmapSlot})' /\ DOMAIN cut' = DOMAIN saved'
    BY DEF HistoryOK, RecordSlots, Watched, BitmapSlot
  <2>2. ASSUME NEW kind \in RecordKinds, NEW i \in Watched(kind)
        PROVE  MayHold(kind, saved'[<<kind, i>>], cut'[<<kind, i>>])
    <3>1. CASE <<kind, i>> = <<l, j>>
      <4>1. kind = l /\ i = j
        BY <3>1
      <4> QED BY <1>7, <2>2, <4>1
    <3>2. CASE <<kind, i>> # <<l, j>>
      BY <1>7, <2>2, <3>2 DEF HistoryOK
    <3> QED BY <3>1, <3>2
  <2>3. HistoryOK' <=>
          /\ DOMAIN saved' = (RecordSlots \union {BitmapSlot})' /\ DOMAIN cut' = DOMAIN saved'
          /\ \A kind \in RecordKinds : \A i \in Watched(kind) :
               MayHold(kind, saved'[<<kind, i>>], cut'[<<kind, i>>])
    BY <1>4, <1>6 DEF HistoryOK
  <2> QED BY <2>1, <2>2, <2>3
<1>9. RecordsOK'
  <2> SUFFICES ASSUME NEW kind \in RecordKinds, NEW i \in Watched(kind), NotCutOff(kind, i)
               PROVE  SlotHolds(disk', capacity, kind, i, Expected(kind, i)', cut'[<<kind, i>>])
    BY <1>6 DEF RecordsOK, NotCutOff
  <2>1. /\ kind \in RegionKinds /\ i \in Slots(kind, capacity) /\ i \in Nat
        /\ <<kind, i>> \in RecordSlots
    BY <1>7
  <2>2. Expected(kind, i)' = saved'[<<kind, i>>] /\ Expected(kind, i) = saved[<<kind, i>>]
    BY <2>1, CompleteStays DEF Expected
  <2>3. CASE <<kind, i>> = <<l, j>>
    <3>1. kind = l /\ i = j
      BY <2>3
    <3> QED BY <2>1, <2>2, <3>1
  <2>4. CASE <<kind, i>> # <<l, j>>
    <3>1. SlotHolds(disk, capacity, kind, i, saved[<<kind, i>>], cut[<<kind, i>>])
      BY <2>2 DEF RecordsOK
    <3>2. Elsewhere(d, kind, i, capacity)
      BY <1>1, <2>1, <2>4, OtherSlotsElsewhere
    <3>3. \A k \in DOMAIN FieldsOf(kind) :
            FieldCell(disk', capacity, kind, i, k) = FieldCell(disk, capacity, kind, i, k)
      BY <1>1, <1>2, <2>1, <3>2, FieldsElsewhere
    <3>4. saved'[<<kind, i>>] = saved[<<kind, i>>] /\ cut'[<<kind, i>>] = cut[<<kind, i>>]
      BY <2>1, <2>4
    <3> QED BY <2>2, <3>1, <3>3, <3>4 DEF SlotHolds
  <2> QED BY <2>3, <2>4
<1> QED BY <1>5, <1>8, <1>9


(* A record written whole, and one that is cut off in a field.             *)
LEMMA WholeWriteKeeps ==
  ASSUME Shape, CreationOK, HistoryOK, RecordsOK, ~Creating,
         NEW kind \in RecordKinds, NEW i \in Watched(kind), NEW v \in Nat,
         disk' = Append(disk, RecordWrite(kind, i, capacity, v, SlotSize(kind, capacity))),
         saved' = [saved EXCEPT ![<<kind, i>>] = v],
         cut' = [cut EXCEPT ![<<kind, i>>] = {}],
         UNCHANGED <<capacity, region, cutIn>>
  PROVE  CreationOK' /\ HistoryOK' /\ RecordsOK'
<1> DEFINE d == RecordWrite(kind, i, capacity, v, SlotSize(kind, capacity))
<1>1. ValidCapacity(capacity) /\ IsDisk(disk)
  BY DEF Shape, CreationOK
<1>2. kind \in RegionKinds /\ i \in Slots(kind, capacity)
  BY WatchedSlots DEF RecordKinds
<1>3. <<kind, i>> \in RecordSlots
  BY RecordSlotKinds
<1>4. <<kind, i>> \in DOMAIN saved /\ <<kind, i>> \in DOMAIN cut
  BY <1>3 DEF HistoryOK
<1>5. saved'[<<kind, i>>] = v /\ cut'[<<kind, i>>] = {}
  BY <1>4
<1>6. \A s \in RecordSlots : s # <<kind, i>> => saved'[s] = saved[s] /\ cut'[s] = cut[s]
  BY DEF HistoryOK
<1>7. d.at = SlotOffset(kind, i, capacity) /\ d.bytes \in 0 .. SlotSize(kind, capacity)
  <2>1. SlotSize(kind, capacity) \in Nat
    BY <1>1, <1>2, SlotFacts
  <2> QED BY <2>1 DEF RecordWrite
<1>8. \A k \in DOMAIN FieldsOf(kind) :
        FieldCell(disk', capacity, kind, i, k) = Put(kind, k, v)
  BY <1>1, <1>2, FieldsOfRecordWrite
<1>9. SlotHolds(disk', capacity, kind, i, v, {})
  BY <1>8 DEF SlotHolds, CellHolds
<1>10. /\ MayHold(kind, saved'[<<kind, i>>], cut'[<<kind, i>>])
       /\ SlotHolds(disk', capacity, kind, i, saved'[<<kind, i>>], cut'[<<kind, i>>])
  <2>1. MayHold(kind, v, {})
    BY DEF MayHold
  <2> QED BY <1>5, <1>9, <2>1
<1>11. DOMAIN saved' = DOMAIN saved /\ DOMAIN cut' = DOMAIN cut
  OBVIOUS
<1>12. disk' = Append(disk, d)
  OBVIOUS
<1> HIDE DEF d
<1> QED BY <1>2, <1>6, <1>7, <1>10, <1>11, <1>12, SlotWriteKeeps

LEMMA CutWriteKeeps ==
  ASSUME Shape, CreationOK, HistoryOK, RecordsOK, ~Creating,
         NEW kind \in RecordKinds, NEW i \in Watched(kind), NEW v \in Nat,
         NEW j \in DOMAIN FieldsOf(kind),
         disk' = Append(disk, RecordWrite(kind, i, capacity, v, HalfWay(kind, j))),
         cut' = [cut EXCEPT ![<<kind, i>>] = @ \union {v}],
         UNCHANGED <<capacity, region, saved, cutIn>>
  PROVE  CreationOK' /\ HistoryOK' /\ RecordsOK'
<1> DEFINE d == RecordWrite(kind, i, capacity, v, HalfWay(kind, j))
           s == saved[<<kind, i>>]
           C == cut[<<kind, i>>]
<1>1. ValidCapacity(capacity) /\ IsDisk(disk)
  BY DEF Shape, CreationOK
<1>2. kind \in RegionKinds /\ i \in Slots(kind, capacity) /\ kind # "bitmap"
  BY WatchedSlots DEF RecordKinds
<1>3. <<kind, i>> \in RecordSlots /\ i \in Nat
  BY <1>1, <1>2, RecordSlotKinds, SlotFacts
<1>4. <<kind, i>> \in DOMAIN cut
  BY <1>3 DEF HistoryOK
<1>5. cut'[<<kind, i>>] = C \union {v}
  BY <1>4
<1>6. \A t \in RecordSlots : t # <<kind, i>> => saved'[t] = saved[t] /\ cut'[t] = cut[t]
  BY DEF HistoryOK
<1>7. d.at = SlotOffset(kind, i, capacity) /\ d.bytes \in 0 .. SlotSize(kind, capacity)
  <2>1. SlotSize(kind, capacity) = RecordSize(kind) /\ RecordSize(kind) \in Nat
    BY <1>1, <1>2, SlotFacts
  <2>2. HalfWay(kind, j) \in 0 .. RecordSize(kind)
    <3>1. /\ FieldStarts[kind][j] \in Nat /\ FieldsOf(kind)[j].width \in Nat \ {0}
          /\ FieldStarts[kind][j] + FieldsOf(kind)[j].width <= RecordSize(kind)
          /\ HalfWay(kind, j) \in Nat
          /\ HalfWay(kind, j) < FieldStarts[kind][j] + FieldsOf(kind)[j].width
      BY RecordFieldsOK DEF FieldsOK, FieldOK
    <3> QED BY <2>1, <3>1
  <2> QED BY <2>1, <2>2 DEF RecordWrite
<1>8. MayHold(kind, s, C)
  BY DEF HistoryOK
<1>9. MayHold(kind, saved'[<<kind, i>>], cut'[<<kind, i>>])
  BY <1>5, <1>8 DEF MayHold
<1>10. ASSUME NotCutOff(kind, i)
       PROVE  SlotHolds(disk', capacity, kind, i, saved'[<<kind, i>>], cut'[<<kind, i>>])
  <2>1. Expected(kind, i) = s
    BY <1>3, <1>10, CompleteStays DEF Expected
  <2>2. SlotHolds(disk, capacity, kind, i, s, C)
    BY <1>10, <2>1 DEF RecordsOK
  <2>3. ASSUME NEW k \in DOMAIN FieldsOf(kind)
        PROVE  CellHolds(FieldCell(disk', capacity, kind, i, k), kind, k, s, C \union {v})
    <3>1. FieldCell(disk', capacity, kind, i, k)
            \in {Put(kind, k, v), FieldCell(disk, capacity, kind, i, k), Mixed}
      BY <1>1, <1>2, FieldsOfRecordWrite
    <3>2. CellHolds(FieldCell(disk, capacity, kind, i, k), kind, k, s, C)
      BY <2>2 DEF SlotHolds
    <3> HIDE DEF s, C
    <3> QED BY <3>1, <3>2 DEF CellHolds
  <2> QED BY <1>5, <2>3 DEF SlotHolds
<1>11. DOMAIN saved' = DOMAIN saved /\ DOMAIN cut' = DOMAIN cut
  OBVIOUS
<1>12. disk' = Append(disk, d)
  OBVIOUS
<1> HIDE DEF d, s, C
<1> QED BY <1>2, <1>6, <1>7, <1>9, <1>10, <1>11, <1>12, SlotWriteKeeps


-------------------------------------------------------------------------------
(***************************************************************************)
(* The bytes of the bitmap.  Every one of them is a hole or a byte that    *)
(* was written whole; in a complete container it says of its eight blocks  *)
(* what one of the copies says that may be on disk.                        *)
(***************************************************************************)
ByteCell(ds, c, j) == CellOf(ds, SlotOffset("bitmap", 0, c) + j, 1)
BytePositions(c) == 0 .. BitmapLen(BlockCount(c)) - 1

IsByte(cell) == cell = Hole \/ \E B \in ByteValues : cell = <<0, B>>
ByteSays(cell, j, n, C) ==
  \E B \in ByteValues :
    /\ cell = <<0, B>>
    /\ \A i \in 0 .. n - 1 : i \div 8 = j => (i % 8 \in B <=> i \in C)

Copies == cut[BitmapSlot] \union {saved[BitmapSlot]}

BitmapOK ==
  \A j \in BytePositions(capacity) :
    /\ IsByte(ByteCell(disk, capacity, j))
    /\ cutIn = 0 /\ Len(disk) >= 2 =>
         \E C \in Copies : ByteSays(ByteCell(disk, capacity, j), j, Blocks, C)

BitmapWrite(b, c, bytes) ==
  [at |-> SlotOffset("bitmap", 0, c), stride |-> SlotSize("bitmap", c), data |-> BytesOf(b),
   bytes |-> bytes]

LEMMA BitmapSlotFacts ==
  ASSUME NEW c, ValidCapacity(c)
  PROVE  /\ 0 \in Slots("bitmap", c) /\ "bitmap" \in RegionKinds
         /\ SlotOffset("bitmap", 0, c) \in Nat
         /\ SlotSize("bitmap", c) = BitmapLen(BlockCount(c))
         /\ BitmapLen(BlockCount(c)) \in Nat \ {0}
         /\ SlotEnd("bitmap", 0, c) = SlotOffset("bitmap", 0, c) + BitmapLen(BlockCount(c))
         /\ BlockCount(c) \in Nat \ {0}
<1>1. 0 \in Slots("bitmap", c) /\ "bitmap" \in RegionKinds
  BY DEF Slots, SlotCount, RegionKinds
<1>2. SlotSize("bitmap", c) = BitmapLen(BlockCount(c))
  BY DEF SlotSize
<1> QED BY <1>1, <1>2, SlotFacts, SizesAreCounts

LEMMA BytesWritten ==
  ASSUME NEW c, ValidCapacity(c), NEW ds, IsDisk(ds), NEW b \in Bitmaps(BlockCount(c)),
         NEW d, d.at = SlotOffset("bitmap", 0, c), d.stride = SlotSize("bitmap", c),
         d.data = BytesOf(b), d.bytes \in 0 .. SlotSize("bitmap", c),
         NEW j \in BytePositions(c)
  PROVE  ByteCell(Append(ds, d), c, j)
           = IF j < d.bytes THEN <<0, b[j]>> ELSE ByteCell(ds, c, j)
<1> DEFINE L == BitmapLen(BlockCount(c))
           at == SlotOffset("bitmap", 0, c)
           o == at + j
           n == d.bytes
<1>1. at \in Nat /\ L \in Nat \ {0} /\ SlotSize("bitmap", c) = L
  BY BitmapSlotFacts
<1>2. d.at = at /\ d.stride = L /\ d.data = BytesOf(b) /\ d.bytes = n
  BY <1>1
<1>3. j \in Nat /\ j < L /\ n \in Nat
  BY <1>1 DEF BytePositions
<1>4. CellIn(BytesOf(b), j) = <<0, b[j]>>
  <2>1. j \in DOMAIN b
    BY DEF BytePositions, Bitmaps
  <2> QED BY <2>1 DEF CellIn, BytesOf
<1> HIDE DEF L, at, n
<1>5. CellOf(Append(ds, d), o, 1)
        = IF Reaches(d, o, 1) THEN WriteCell(d, o, 1) ELSE CellOf(ds, o, 1)
  BY CellAfter
<1>6. Reaches(d, o, 1) <=> j < n
  BY <1>1, <1>2, <1>3 DEF Reaches
<1>7. ASSUME j < n PROVE WriteCell(d, o, 1) = <<0, b[j]>>
  <2>1. o >= d.at /\ o + 1 <= d.at + d.bytes /\ o - d.at = j
    BY <1>1, <1>2, <1>3, <1>7
  <2>2. (o - d.at) % d.stride = j
    <3>1. \A x \in Nat : \A y \in Nat \ {0} : x < y => x % y = x
      OBVIOUS
    <3> QED BY <1>1, <1>2, <1>3, <2>1, <3>1
  <2> QED BY <1>2, <1>4, <2>1, <2>2 DEF WriteCell
<1> QED BY <1>5, <1>6, <1>7 DEF ByteCell, at, n

LEMMA BytesElsewhere ==
  ASSUME NEW c, ValidCapacity(c), NEW ds, IsDisk(ds), NEW d, d.at \in Nat, d.bytes \in Nat,
         Elsewhere(d, "bitmap", 0, c), NEW j \in BytePositions(c)
  PROVE  ByteCell(Append(ds, d), c, j) = ByteCell(ds, c, j)
<1> DEFINE at == SlotOffset("bitmap", 0, c)
           L == BitmapLen(BlockCount(c))
<1>1. at \in Nat /\ L \in Nat \ {0} /\ SlotEnd("bitmap", 0, c) = at + L
  BY BitmapSlotFacts
<1>2. j \in Nat /\ j < L
  BY <1>1 DEF BytePositions
<1>3. ~Reaches(d, at + j, 1)
  <2>1. d.at + d.bytes <= at \/ at + L <= d.at
    BY <1>1 DEF Elsewhere
  <2> HIDE DEF at, L
  <2> QED BY <1>1, <1>2, <2>1 DEF Reaches
<1> HIDE DEF at
<1>4. CellOf(Append(ds, d), at + j, 1) = CellOf(ds, at + j, 1)
  BY <1>3, CellAfter
<1> QED BY <1>4 DEF ByteCell, at

(* What write_bitmap writes is a copy of the set of occupied blocks.       *)
LEMMA BytesSayTheSet ==
  ASSUME NEW n \in Nat, NEW b \in Bitmaps(n), NEW j \in 0 .. BitmapLen(n) - 1
  PROVE  /\ ByteSays(<<0, b[j]>>, j, n, OccupiedIn(b, n))
         /\ IsByte(<<0, b[j]>>)
<1>1. b[j] \in ByteValues
  BY DEF Bitmaps
<1>2. \A i \in 0 .. n - 1 : i \div 8 = j => (i % 8 \in b[j] <=> i \in OccupiedIn(b, n))
  BY OccupiedBit
<1> QED BY <1>1, <1>2 DEF ByteSays, IsByte

(* A handle that opens the file has these bytes.                           *)
LEMMA ReadBitmapReads ==
  ASSUME Shape, IsDisk(disk), BitmapOK
  PROVE  /\ ReadBitmap \in Bitmaps(Blocks)
         /\ Blocks \in Nat
         /\ \A j \in BytePositions(capacity) : \A B :
              ByteCell(disk, capacity, j) = <<0, B>> => ReadBitmap[j] = B
<1> DEFINE P == BytePositions(capacity)
           cell(j) == ByteCell(disk, capacity, j)
           bytes == [j \in P |-> IF Len(cell(j)) = 2 THEN cell(j)[2] ELSE {}]
<1>1. ValidCapacity(capacity)
  BY DEF Shape
<1>2. DOMAIN disk = 1 .. Len(disk)
  BY DEF IsDisk
<1>3. SlotAt("bitmap", 0) = SlotOffset("bitmap", 0, capacity)
  <2>1. "bitmap" \in RegionKinds
    BY DEF RegionKinds
  <2> QED BY <2>1, WatchedSlots
<1>4. \A j : CellAt(SlotAt("bitmap", 0) + j, 1, DOMAIN disk) = cell(j)
  BY <1>2, <1>3 DEF CellAt, Over, ByteCell, CellOf, OverIn, WriteCell
<1>5. P = 0 .. BitmapLen(Blocks) - 1 /\ Blocks \in Nat
  BY <1>1, BitmapSlotFacts DEF Blocks, BytePositions
<1>6. ReadBitmap = FromBytes(bytes, Blocks)
  <2> DEFINE read(j) == CellAt(SlotAt("bitmap", 0) + j, 1, DOMAIN disk)
             file == [j \in 0 .. BitmapLen(Blocks) - 1 |->
                        IF Len(read(j)) = 2 THEN read(j)[2] ELSE {}]
  <2>1. ReadBitmap = FromBytes(file, Blocks)
    BY DEF ReadBitmap
  <2>2. \A j : read(j) = cell(j)
    BY <1>4
  <2> HIDE DEF read, cell, P
  <2>3. file = bytes
    BY <1>5, <2>2
  <2> QED BY <2>1, <2>3
<1>7. \A B : Len(<<0, B>>) = 2 /\ <<0, B>>[2] = B
  OBVIOUS
<1>8. \A j \in P : bytes[j] \in ByteValues
  <2> TAKE j \in P
  <2>1. IsByte(cell(j))
    BY DEF BitmapOK
  <2>2. CASE cell(j) = Hole
    <3>1. Len(Hole) = 0
      BY DEF Hole
    <3>2. bytes[j] = {}
      BY <2>2, <3>1
    <3> QED BY <3>2 DEF ByteValues
  <2>3. CASE \E B \in ByteValues : cell(j) = <<0, B>>
    <3>1. PICK B \in ByteValues : cell(j) = <<0, B>>
      BY <2>3
    <3>2. bytes[j] = B
      BY <1>7, <3>1
    <3> QED BY <3>2
  <2> QED BY <2>1, <2>2, <2>3 DEF IsByte
<1>9. DOMAIN bytes = P /\ \A j \in P : \A B : cell(j) = <<0, B>> => bytes[j] = B
  BY <1>7
<1> HIDE DEF P, bytes, cell
<1>10. ReadBitmap = [j \in P |-> bytes[j]]
  BY <1>5, <1>6, <1>9 DEF FromBytes
<1> QED BY <1>5, <1>8, <1>9, <1>10 DEF Bitmaps, P, cell


(* The bitmap of a complete container reads as one of its copies, byte by  *)
(* byte.                                                                   *)
LEMMA BitmapReads ==
  ASSUME Shape, CreationOK, BitmapOK PROVE BitmapReadsBetween
<1> SUFFICES ASSUME Created PROVE BitmapReadsBetween
  BY DEF BitmapReadsBetween
<1> DEFINE marked == OccupiedIn(ReadBitmap, Blocks)
<1>1. cutIn = 0 /\ Len(disk) >= 2
  <2>1. Len(CreationOrder) = 6
    BY DEF CreationOrder
  <2>2. Len(disk) \in Nat
    BY DEF CreationOK, IsDisk
  <2>3. \A l \in Nat : l >= 6 => l >= 2
    OBVIOUS
  <2> QED BY <2>1, <2>2, <2>3 DEF Created
<1>2. IsDisk(disk) /\ ValidCapacity(capacity)
  BY DEF CreationOK, Shape
<1>3. Blocks \in Nat /\ BytePositions(capacity) = 0 .. BitmapLen(Blocks) - 1
  BY <1>2, BitmapSlotFacts DEF Blocks, BytePositions
<1>4. ASSUME NEW i \in 0 .. Blocks - 1
      PROVE  \E C \in Copies : i \in marked <=> i \in C
  <2>1. i \div 8 \in BytePositions(capacity)
    BY <1>3, BitsOfBlocks
  <2>2. PICK C \in Copies : ByteSays(ByteCell(disk, capacity, i \div 8), i \div 8, Blocks, C)
    BY <1>1, <2>1 DEF BitmapOK
  <2>3. PICK B \in ByteValues : /\ ByteCell(disk, capacity, i \div 8) = <<0, B>>
                                /\ i % 8 \in B <=> i \in C
    BY <2>2 DEF ByteSays
  <2>4. ReadBitmap[i \div 8] = B
    BY <1>2, <2>1, <2>3, ReadBitmapReads
  <2>5. i \in marked <=> i % 8 \in ReadBitmap[i \div 8]
    BY <1>3, OccupiedBit
  <2> HIDE DEF marked
  <2> QED BY <2>3, <2>4, <2>5
<1>5. marked \subseteq 0 .. Blocks - 1
  BY DEF OccupiedIn
<1> HIDE DEF marked
<1>6. marked \subseteq UNION Copies
  BY <1>4, <1>5
<1>7. \A i \in 0 .. Blocks - 1 : (\A C \in Copies : i \in C) => i \in marked
  BY <1>4
<1> QED BY <1>6, <1>7 DEF BitmapReadsBetween, Copies, marked

LEMMA BytesStay ==
  ASSUME Shape, CreationOK, BitmapOK, ~Creating,
         NEW l \in RecordKinds, NEW j \in Slots(l, capacity),
         NEW d, d.at = SlotOffset(l, j, capacity), d.bytes \in 0 .. SlotSize(l, capacity),
         disk' = Append(disk, d), UNCHANGED <<capacity, cutIn>>,
         saved'[BitmapSlot] = saved[BitmapSlot], cut'[BitmapSlot] = cut[BitmapSlot]
  PROVE  BitmapOK'
<1>1. ValidCapacity(capacity) /\ IsDisk(disk)
  BY DEF Shape, CreationOK
<1>2. l \in RegionKinds /\ l # "bitmap"
  BY DEF RecordKinds
<1>3. d.at \in Nat /\ d.bytes \in Nat
  <2>1. SlotOffset(l, j, capacity) \in Nat /\ SlotSize(l, capacity) \in Nat
    BY <1>1, <1>2, SlotFacts
  <2> QED BY <2>1
<1>4. Elsewhere(d, "bitmap", 0, capacity)
  <2>1. "bitmap" \in RegionKinds /\ 0 \in Slots("bitmap", capacity)
    BY <1>1, BitmapSlotFacts
  <2>2. <<"bitmap", 0>> # <<l, j>>
    BY <1>2
  <2> QED BY <1>1, <1>2, <2>1, <2>2, OtherSlotsElsewhere
<1>5. \A p \in BytePositions(capacity) :
        ByteCell(disk', capacity, p) = ByteCell(disk, capacity, p)
  BY <1>1, <1>3, <1>4, BytesElsewhere
<1>6. cutIn = 0 => Len(disk) >= 2
  <2>1. Len(CreationOrder) = 6
    BY DEF CreationOrder
  <2>2. Len(disk) \in Nat
    BY <1>1 DEF IsDisk
  <2>3. \A n \in Nat : n >= 6 => n >= 2
    OBVIOUS
  <2> QED BY <2>1, <2>2, <2>3 DEF Creating, Created
<1>7. Copies' = Copies /\ Blocks' = Blocks
  BY DEF Copies, Blocks, BitmapSlot
<1> QED BY <1>5, <1>6, <1>7 DEF BitmapOK

(* write_bitmap, whole or some bytes of it.                                *)
LEMMA BitmapWriteKeeps ==
  ASSUME Shape, CreationOK, BitmapOK, ~Creating, NEW b \in Bitmaps(Blocks),
         NEW n \in 0 .. BitmapLen(Blocks), disk' = Append(disk, BitmapWrite(b, capacity, n)),
         UNCHANGED <<capacity, cutIn>>,
         OccupiedIn(b, Blocks) \in Copies',
         Copies \subseteq Copies' \/ n = BitmapLen(Blocks)
  PROVE  BitmapOK'
<1>1. ValidCapacity(capacity) /\ IsDisk(disk)
  BY DEF Shape, CreationOK
<1>2. Blocks \in Nat /\ BytePositions(capacity) = 0 .. BitmapLen(Blocks) - 1
      /\ SlotSize("bitmap", capacity) = BitmapLen(Blocks) /\ BitmapLen(Blocks) \in Nat
  BY <1>1, BitmapSlotFacts DEF Blocks, BytePositions
<1>3. cutIn = 0 => Len(disk) >= 2
  <2>1. Len(CreationOrder) = 6
    BY DEF CreationOrder
  <2>2. Len(disk) \in Nat
    BY <1>1 DEF IsDisk
  <2>3. \A m \in Nat : m >= 6 => m >= 2
    OBVIOUS
  <2> QED BY <2>1, <2>2, <2>3 DEF Creating, Created
<1> SUFFICES ASSUME NEW j \in BytePositions(capacity)
             PROVE  /\ IsByte(ByteCell(disk', capacity, j))
                    /\ cutIn = 0 =>
                         \E C \in Copies' : ByteSays(ByteCell(disk', capacity, j), j, Blocks, C)
  BY DEF BitmapOK, Blocks
<1>4. ByteCell(disk', capacity, j) = IF j < n THEN <<0, b[j]>> ELSE ByteCell(disk, capacity, j)
  <2> DEFINE d == BitmapWrite(b, capacity, n)
  <2>1. /\ d.at = SlotOffset("bitmap", 0, capacity) /\ d.stride = SlotSize("bitmap", capacity)
        /\ d.data = BytesOf(b) /\ d.bytes = n /\ d.bytes \in 0 .. SlotSize("bitmap", capacity)
    BY <1>2 DEF BitmapWrite
  <2>2. disk' = Append(disk, d)
    OBVIOUS
  <2> HIDE DEF d
  <2> QED BY <1>1, <2>1, <2>2, BytesWritten DEF Blocks
<1>5. CASE j < n
  <2>1. ByteSays(<<0, b[j]>>, j, Blocks, OccupiedIn(b, Blocks)) /\ IsByte(<<0, b[j]>>)
    BY <1>2, BytesSayTheSet
  <2> QED BY <1>4, <1>5, <2>1
<1>6. CASE ~ (j < n)
  <2>1. Copies \subseteq Copies'
    BY <1>2, <1>6
  <2>2. ByteCell(disk', capacity, j) = ByteCell(disk, capacity, j)
    BY <1>4, <1>6
  <2> QED BY <1>3, <2>1, <2>2 DEF BitmapOK
<1> QED BY <1>5, <1>6

(* The steps of create.                                                    *)
LEMMA EmptyBitmap ==
  ASSUME NEW n \in Nat PROVE EmptyBits(n) \in Bitmaps(n)
  BY DEF EmptyBits, Bitmaps, ByteValues

LEMMA CreationKeepsBytes ==
  ASSUME Shape, CreationOK, HistoryOK, BitmapOK, Creating,
         NEW d, d.at = CreationWrite(Len(disk) + 1, capacity).at,
         d.stride = CreationWrite(Len(disk) + 1, capacity).stride,
         d.data = CreationWrite(Len(disk) + 1, capacity).data,
         d.bytes \in 0 .. CreationWrite(Len(disk) + 1, capacity).bytes,
         cutIn' = 0 => d = CreationWrite(Len(disk) + 1, capacity),
         disk' = Append(disk, d), UNCHANGED <<capacity, region, saved, cut>>
  PROVE  BitmapOK'
<1> DEFINE m == Len(disk) + 1
           c == capacity
           w == CreationWrite(m, c)
<1>1. ValidCapacity(c) /\ IsDisk(disk) /\ Len(disk) \in Nat
  BY DEF Shape, CreationOK, IsDisk
<1>2. cutIn = 0 /\ m \in 1 .. 6
  BY RegionWriteIs
<1>3. Len(disk') = m
  BY <1>1, AppendTo DEF IsDisk
<1>4. w.at \in Nat /\ w.bytes \in Nat
  BY <1>1, <1>2, StepFacts
<1>5. Copies' = Copies /\ Blocks' = Blocks /\ Copies = {{}}
  BY DEF Copies, Blocks, BitmapSlot, HistoryOK
<1>6. "bitmap" \in RegionKinds /\ 0 \in Slots("bitmap", c) /\ Blocks \in Nat
  BY <1>1, BitmapSlotFacts DEF Blocks
<1>7. CASE m = 2
  <2> DEFINE b == EmptyBits(Blocks)
             L == BitmapLen(Blocks)
  <2>1. /\ w.at = SlotOffset("bitmap", 0, c) /\ w.stride = SlotSize("bitmap", c)
        /\ w.data = BytesOf(b) /\ w.bytes = SlotSize("bitmap", c)
    <3>1. StepKind(2) = "bitmap" /\ StepSlot(2) = 0 /\ StepCount(2, c) = 1
          /\ StepData(2, c) = BytesOf(EmptyBits(BlockCount(c)))
      BY DEF StepKind, StepSlot, StepCount, StepData, SlotCount
    <3>2. 1 * SlotSize("bitmap", c) = SlotSize("bitmap", c)
      BY <1>1, BitmapSlotFacts
    <3> QED BY <1>7, <3>1, <3>2 DEF CreationWrite, Blocks
  <2>2. SlotSize("bitmap", c) = L /\ L \in Nat /\ BytePositions(c) = 0 .. L - 1
    BY <1>1, BitmapSlotFacts DEF Blocks, BytePositions
  <2>3. b \in Bitmaps(Blocks) /\ OccupiedIn(b, Blocks) = {}
    BY <1>6, EmptyBitmap, BitmapsReopen
  <2> HIDE DEF b, L
  <2>4. ASSUME NEW j \in BytePositions(c)
        PROVE  /\ IsByte(ByteCell(disk', c, j))
               /\ cutIn' = 0 => ByteSays(ByteCell(disk', c, j), j, Blocks, {})
    <3>1. ByteCell(disk', c, j) = IF j < d.bytes THEN <<0, b[j]>> ELSE ByteCell(disk, c, j)
      BY <1>1, <2>1, <2>3, BytesWritten DEF Blocks
    <3>2. cutIn' = 0 => j < d.bytes
      BY <2>1, <2>2
    <3>3. ByteSays(<<0, b[j]>>, j, Blocks, {}) /\ IsByte(<<0, b[j]>>)
      BY <1>6, <2>2, <2>3, BytesSayTheSet DEF L
    <3>4. IsByte(ByteCell(disk, c, j))
      BY DEF BitmapOK
    <3> QED BY <3>1, <3>2, <3>3, <3>4
  <2> QED BY <1>5, <2>4 DEF BitmapOK
<1>8. CASE m # 2
  <2>1. CreatedBy("bitmap", 0) # m
    BY <1>8 DEF CreatedBy
  <2>2. Elsewhere(d, "bitmap", 0, c)
    BY <1>1, <1>2, <1>6, <2>1, OtherStepsElsewhere
  <2>3. d.at \in Nat /\ d.bytes \in Nat
    BY <1>4
  <2>4. \A p \in BytePositions(c) : ByteCell(disk', c, p) = ByteCell(disk, c, p)
    BY <1>1, <2>2, <2>3, BytesElsewhere
  <2>5. Len(disk') >= 2 => Len(disk) >= 2
    BY <1>1, <1>3, <1>8
  <2> QED BY <1>2, <1>5, <2>4, <2>5 DEF BitmapOK
<1> QED BY <1>7, <1>8


-------------------------------------------------------------------------------
(***************************************************************************)
(* Containers whose creation was cut off.  The slots of a table that was   *)
(* not completed hold only what create writes, and the last one lacks its  *)
(* digest: it is refused, and no call finds anything in the table.         *)
(***************************************************************************)
BlankCell(cell, kind, k) == cell = Hole \/ cell = Mixed \/ cell = Put(kind, k, 0)
Blank(ds, c, kind) ==
  /\ \A i \in {0, SlotCount(kind, c) - 1} : \A k \in DOMAIN FieldsOf(kind) :
       BlankCell(FieldCell(ds, c, kind, i, k), kind, k)
  /\ FieldCell(ds, c, kind, SlotCount(kind, c) - 1, DigestOf(kind)) = Hole

Tables == {"header", "entry", "recipient"}
InertOK ==
  \A kind \in Tables : cutIn \in 1 .. CreatedBy(kind, 0) => Blank(disk, capacity, kind)

LEMMA BlankIsRefused ==
  ASSUME Shape, IsDisk(disk), NEW kind \in Tables, Blank(disk, capacity, kind)
  PROVE  /\ \A i \in Watched(kind) : ~(Read(kind, i) > 0)
         /\ Read(kind, SlotCount(kind, capacity) - 1) = Refused
         /\ SlotCount(kind, capacity) - 1 \in Watched(kind)
<1> DEFINE f == FieldsOf(kind)
           D == Max(With("digest", f))
           last == SlotCount(kind, capacity) - 1
<1>1. kind \in RecordKinds /\ kind \in RegionKinds /\ kind # "chain"
  BY DEF Tables, RecordKinds, RegionKinds
<1>2. Watched(kind) = {0, last} /\ Watched(kind) \subseteq Slots(kind, capacity)
  BY <1>1, WatchedSlots
<1>3. /\ DOMAIN f = 1 .. LastField(kind)
      /\ DigestOf(kind) \in With("digest", f) /\ \A k \in With("digest", f) : k <= DigestOf(kind)
  BY <1>1, RecordFieldsOK DEF FieldsOK
<1>4. D = DigestOf(kind) /\ D \in DOMAIN f /\ f[D].role = "digest" /\ D \in With("digest", f)
  <2>1. With("digest", f) \in SUBSET Int
    BY <1>3 DEF With
  <2>2. D = DigestOf(kind)
    BY <1>3, <2>1, MaxIs
  <2> QED BY <1>3, <2>2 DEF With
<1> HIDE DEF f, D, last
<1>5. ASSUME NEW i \in Watched(kind)
      PROVE  /\ ~(Read(kind, i) > 0)
             /\ i = last => Read(kind, i) = Refused
  <2> DEFINE cells == [k \in DOMAIN f |-> FieldCell(disk, capacity, kind, i, k)]
  <2>1. Read(kind, i) = Decode(kind, cells)
    BY <1>1, <1>2, ReadsItsCells DEF f
  <2>2. cells[D] = FieldCell(disk, capacity, kind, i, D)
    BY <1>4
  <2>3. BlankCell(cells[D], kind, D)
    BY <1>2, <1>4, <2>2 DEF Blank, f, last
  <2>4. i = last => cells[D] = Hole
    BY <1>4, <2>2 DEF Blank, last
  <2> HIDE DEF cells
  <2>5. Sound(cells, f) => cells[D] = Put(kind, D, 0)
    BY <1>4, <2>3 DEF Sound, BlankCell
  <2>6. Put(kind, D, 0)[2] = 0
    BY <1>4, PutIsACell DEF f
  <2>7. Decode(kind, cells) = IF ~Sound(cells, f) THEN Refused
                              ELSE IF \A k \in With("content", f) : Agrees(cells, f, k, cells[D][2])
                                   THEN cells[D][2] ELSE Mixture
    BY <1>1 DEF Decode, NoRecordIn, f, D
  <2>8. ~(Decode(kind, cells) > 0)
    BY <2>5, <2>6, <2>7 DEF Refused, Mixture
  <2>9. i = last => ~Sound(cells, f)
    BY <1>4, <2>4 DEF Sound
  <2> QED BY <2>1, <2>7, <2>8, <2>9
<1> QED BY <1>2, <1>5 DEF last

(* Nothing is found in a table whose last slot is refused.                 *)
LEMMA BlankTableFindsNothing ==
  ASSUME Shape, IsDisk(disk), NEW kind \in Tables, Blank(disk, capacity, kind)
  PROVE  NothingFoundIn(kind)
  BY BlankIsRefused DEF LookupWorks, Finds, NothingFoundIn

LEMMA InertCannotWrite ==
  ASSUME Shape, CreationOK, InertOK
  PROVE  /\ cutIn \in 1 .. 3 => \A kind \in RegionKinds : \A i : ~CanWrite(kind, i)
         /\ cutIn \in 1 .. 4 => \A i : ~CanWrite("recipient", i)
<1>1. IsDisk(disk)
  BY DEF CreationOK
<1>2. CreatedBy("entry", 0) = 3 /\ CreatedBy("recipient", 0) = 4
  BY DEF CreatedBy
<1>3. cutIn \in 1 .. 3 => ~LookupWorks("entry") /\ \A i \in Watched("entry") : ~Finds("entry", i)
  BY <1>1, <1>2, BlankTableFindsNothing DEF InertOK, Tables, NothingFoundIn
<1>4. cutIn \in 1 .. 4 =>
        ~LookupWorks("recipient") /\ \A i \in Watched("recipient") : ~Finds("recipient", i)
  BY <1>1, <1>2, BlankTableFindsNothing DEF InertOK, Tables, NothingFoundIn
<1>5. cutIn \in 1 .. 3 => cutIn \in 1 .. 4
  OBVIOUS
<1>6. \A kind \in RegionKinds : LookedUpIn(kind) \subseteq {"entry", "recipient"}
  BY DEF LookedUpIn, RegionKinds
<1>7. LookedUpIn("recipient") = {"recipient"}
  BY DEF LookedUpIn
<1> QED BY <1>3, <1>4, <1>5, <1>6, <1>7 DEF CanWrite

LEMMA HalfCreated ==
  ASSUME Shape, CreationOK, HistoryOK, RecordsOK, InertOK PROVE HalfCreatedWorksInPart
<1>1. IsDisk(disk)
  BY DEF CreationOK
<1>2. CreatedBy("header", 0) = 1 /\ CreatedBy("entry", 0) = 3 /\ CreatedBy("recipient", 0) = 4
  BY DEF CreatedBy
<1>3. ASSUME cutIn = 1 PROVE Read("header", 0) = Refused
  <2>1. Blank(disk, capacity, "header")
    BY <1>2, <1>3 DEF InertOK, Tables
  <2>2. SlotCount("header", capacity) - 1 = 0
    BY DEF SlotCount
  <2>3. "header" \in Tables
    BY DEF Tables
  <2> QED BY <1>1, <2>1, <2>2, <2>3, BlankIsRefused
<1>4. cutIn \in 1 .. 3 => NothingFoundIn("entry")
  BY <1>1, <1>2, BlankTableFindsNothing DEF InertOK, Tables
<1>5. cutIn \in 1 .. 4 => NothingFoundIn("recipient")
  BY <1>1, <1>2, BlankTableFindsNothing DEF InertOK, Tables
<1>6. ASSUME cutIn \in 4 .. 6, NEW s \in RecordSlots,
             s[1] \in {"header", "entry"}, cut[s] = {}
      PROVE  Read(s[1], s[2]) = saved[s]
  <2>1. PICK kind \in RecordKinds : \E i \in Watched(kind) : s = <<kind, i>>
    BY RecordSlotKinds
  <2>2. PICK i \in Watched(kind) : s = <<kind, i>>
    BY <2>1
  <2>3. s[1] = kind /\ s[2] = i
    BY <2>2
  <2>4. ~Creating /\ NotCutOff(kind, i)
    <3>1. CreatedBy(kind, i) \in {1, 3}
      BY <1>6, <2>3 DEF CreatedBy
    <3> QED BY <1>6, <3>1 DEF Creating, NotCutOff
  <2>5. Read(kind, i) \in {saved[s]}
    BY <1>6, <2>2, <2>4, CreatedReadsBack
  <2> QED BY <2>3, <2>5
<1> QED BY <1>3, <1>4, <1>5, <1>6 DEF HalfCreatedWorksInPart


(* The digest of a table's record is in its second half.                   *)
LEMMA DigestsComeLast ==
  ASSUME NEW kind \in Tables
  PROVE  /\ FieldStarts[kind][DigestOf(kind)] \in Nat
         /\ RecordSize(kind) - RecordSize(kind) \div 2 - 1 <= FieldStarts[kind][DigestOf(kind)]
<1>1. CASE kind = "header"
  <2>1. FieldStarts["header"][6] = 726
    BY HeaderStarts DEF FieldStarts
  <2> QED BY <1>1, <2>1 DEF DigestOf, RecordSize, HeaderSize
<1>2. CASE kind = "entry"
  <2>1. FieldStarts["entry"][3] = 282
    BY EntryStarts DEF FieldStarts
  <2> QED BY <1>2, <2>1 DEF DigestOf, RecordSize, EntrySize
<1>3. CASE kind = "recipient"
  <2>1. FieldStarts["recipient"][3] = 170
    BY RecipientStarts DEF FieldStarts
  <2> QED BY <1>3, <2>1 DEF DigestOf, RecordSize, RecipientSlotSize
<1> QED BY <1>1, <1>2, <1>3 DEF Tables

(* The step of create that is cut off, in its first or its last record,    *)
(* leaves the tables blank that it did not complete.                       *)
LEMMA CreationCutIsInert ==
  ASSUME Shape, CreationOK, HistoryOK, RecordsOK, Creating,
         NEW d, d.at = CreationWrite(Len(disk) + 1, capacity).at,
         d.stride = CreationWrite(Len(disk) + 1, capacity).stride,
         d.data = CreationWrite(Len(disk) + 1, capacity).data,
         LET w == CreationWrite(Len(disk) + 1, capacity)
         IN  d.bytes \in {0, w.bytes - w.stride \div 2 - 1},
         d.bytes \in 0 .. CreationWrite(Len(disk) + 1, capacity).bytes,
         disk' = Append(disk, d), cutIn' = Len(disk) + 1,
         UNCHANGED <<capacity, region, saved, cut>>
  PROVE  InertOK'
<1> DEFINE m == Len(disk) + 1
           c == capacity
           w == CreationWrite(m, c)
<1>1. ValidCapacity(c) /\ IsDisk(disk) /\ Len(disk) \in Nat
  BY DEF Shape, CreationOK, IsDisk
<1>2. cutIn = 0 /\ m \in 1 .. 6
  BY RegionWriteIs
<1>3. w.at \in Nat /\ w.bytes \in Nat
  BY <1>1, <1>2, StepFacts
<1>4. d.at \in Nat /\ d.bytes \in Nat
  BY <1>3
<1> SUFFICES ASSUME NEW kind \in Tables, m \in 1 .. CreatedBy(kind, 0)
             PROVE  Blank(disk', c, kind)
  BY DEF InertOK
<1> DEFINE last == SlotCount(kind, c) - 1
           D == DigestOf(kind)
<1>5. kind \in RecordKinds /\ kind \in RegionKinds /\ kind # "chain" /\ kind # "bitmap"
      /\ kind # "block"
  BY DEF Tables, RecordKinds, RegionKinds
<1>6. Watched(kind) = {0, last} /\ Watched(kind) \subseteq Slots(kind, c)
  BY <1>5, WatchedSlots
<1>7. \A i : CreatedBy(kind, i) = CreatedBy(kind, 0) /\ CreatedBy(kind, i) \in Nat
  BY <1>5 DEF CreatedBy, Tables
<1>8. D \in DOMAIN FieldsOf(kind)
  BY <1>5, RecordFieldsOK DEF FieldsOK, With
<1>9. ASSUME NEW i \in {0, last}, NEW k \in DOMAIN FieldsOf(kind)
      PROVE  FieldCell(disk, c, kind, i, k) = Hole
  <2>1. i \in Watched(kind)
    BY <1>6
  <2>2. CreatedBy(kind, i) > Len(disk)
    BY <1>1, <1>7
  <2>3. Expected(kind, i) = Refused
    BY <1>1, <1>2, <1>7, <2>2 DEF Expected
  <2>4. cut[<<kind, i>>] = {}
    BY <1>5, <2>1 DEF HistoryOK
  <2>5. SlotHolds(disk, c, kind, i, Refused, {})
    BY <1>2, <1>5, <2>1, <2>3, <2>4 DEF RecordsOK, NotCutOff
  <2>6. FieldCell(disk, c, kind, i, k) = Put(kind, k, Refused)
    BY <2>5 DEF SlotHolds, CellHolds
  <2> QED BY <2>6 DEF Put, Refused
<1>10. CASE m # CreatedBy(kind, 0)
  <2>1. ASSUME NEW i \in {0, last}, NEW k \in DOMAIN FieldsOf(kind)
        PROVE  FieldCell(disk', c, kind, i, k) = Hole
    <3>1. i \in Slots(kind, c) /\ CreatedBy(kind, i) # m
      BY <1>6, <1>7, <1>10
    <3>2. Elsewhere(d, kind, i, c)
      BY <1>1, <1>2, <1>5, <3>1, OtherStepsElsewhere
    <3>3. FieldCell(disk', c, kind, i, k) = FieldCell(disk, c, kind, i, k)
      BY <1>1, <1>4, <1>5, <3>1, <3>2, FieldsElsewhere
    <3> QED BY <1>9, <3>3
  <2> QED BY <1>8, <2>1 DEF Blank, BlankCell
<1>11. CASE m = CreatedBy(kind, 0)
  <2>1. /\ StepKind(m) = kind /\ StepSlot(m) = 0 /\ m \in 1 .. 4 /\ m # 2
    BY <1>11 DEF Tables, CreatedBy, StepKind, StepSlot
  <2>2. StepData(m, c) = VersionOf(kind, 0)
    BY <2>1 DEF StepData
  <2>3. /\ w.at = SlotOffset(kind, 0, c) /\ w.stride = SlotSize(kind, c)
        /\ w.data = VersionOf(kind, 0) /\ w.at + w.bytes = RegionEndOf(kind, c)
    BY <1>1, <1>2, <2>1, <2>2, StepFacts
  <2>4. SlotSize(kind, c) = RecordSize(kind) /\ 0 \in Slots(kind, c) /\ last \in Slots(kind, c)
    BY <1>1, <1>5, <1>6, SlotFacts
  <2>5. ASSUME NEW i \in {0, last}, NEW k \in DOMAIN FieldsOf(kind)
        PROVE  LET o == SlotOffset(kind, i, c) + FieldStarts[kind][k]
                   wd == FieldsOf(kind)[k].width
               IN  FieldCell(disk', c, kind, i, k)
                     = IF o + wd <= d.at + d.bytes THEN Put(kind, k, 0)
                       ELSE IF d.at + d.bytes <= o THEN Hole ELSE Mixed
    <3>1. i \in Slots(kind, c) /\ 0 <= i
      <4>1. i \in Slots(kind, c)
        BY <2>4
      <4>2. i \in Nat
        BY <1>1, <1>5, <4>1, SlotFacts
      <4> QED BY <4>1, <4>2
    <3>2. CellIn(VersionOf(kind, 0), FieldStarts[kind][k]) = Put(kind, k, 0)
      BY <1>5, VersionCell
    <3>3. d.at = SlotOffset(kind, 0, c) /\ d.stride = RecordSize(kind)
          /\ d.data = VersionOf(kind, 0)
      BY <2>3, <2>4
    <3>4. FieldCell(Append(disk, d), c, kind, i, k)
            = IF SlotOffset(kind, i, c) + FieldStarts[kind][k] + FieldsOf(kind)[k].width
                   <= d.at + d.bytes
              THEN CellIn(d.data, FieldStarts[kind][k])
              ELSE IF d.at + d.bytes <= SlotOffset(kind, i, c) + FieldStarts[kind][k]
              THEN FieldCell(disk, c, kind, i, k)
              ELSE Mixed
      BY <1>1, <1>4, <1>5, <2>4, <3>1, <3>3, FieldsWritten
    <3> QED BY <1>9, <3>2, <3>3, <3>4
  <2>6. d.at + d.bytes <= SlotOffset(kind, last, c) + FieldStarts[kind][D]
    <3> DEFINE size == RecordSize(kind)
               o == SlotOffset(kind, last, c)
    <3>1. /\ o \in Nat /\ size \in Nat /\ SlotOffset(kind, 0, c) \in Nat
          /\ RegionOffset(kind, c) \in Nat
          /\ SlotOffset(kind, 0, c) = RegionOffset(kind, c) + 0 * size
          /\ o = RegionOffset(kind, c) + last * size /\ last * size \in Nat
          /\ last \in Nat /\ SlotCount(kind, c) \in Nat /\ SlotSize(kind, c) = size
      BY <1>1, <1>5, <2>4, SlotFacts
    <3>2. RegionEndOf(kind, c) = o + size
      <4>1. RegionEndOf(kind, c) = RegionOffset(kind, c) + SlotCount(kind, c) * size
        BY <3>1 DEF RegionEndOf, SlotOffset
      <4>2. SlotCount(kind, c) = last + 1
        BY <3>1
      <4> HIDE DEF last, size, o
      <4>3. (last + 1) * size = last * size + size
        BY <3>1
      <4> QED BY <3>1, <4>1, <4>2, <4>3
    <3>3. size - size \div 2 - 1 <= FieldStarts[kind][D] /\ FieldStarts[kind][D] \in Nat
      BY DigestsComeLast
    <3>4. d.bytes = 0 \/ d.bytes = w.bytes - size \div 2 - 1
      BY <2>3, <3>1
    <3>5. w.at + w.bytes = o + size /\ w.at = SlotOffset(kind, 0, c) /\ d.at = w.at
      BY <2>3, <3>2
    <3>6. size \div 2 \in Nat
      <4> HIDE DEF size
      <4> QED BY <3>1
    <3>7. SlotOffset(kind, 0, c) <= o
      BY <3>1
    <3> HIDE DEF size, o, D, w, last
    <3>8. ASSUME d.bytes = 0 PROVE d.at + d.bytes <= o + FieldStarts[kind][D]
      <4>1. o \in Nat /\ d.at \in Nat /\ d.at <= o /\ FieldStarts[kind][D] \in Nat
        BY <1>4, <3>1, <3>3, <3>5, <3>7
      <4>2. d.at + d.bytes = d.at
        BY <3>8, <4>1
      <4> QED BY <4>1, <4>2
    <3>9. ASSUME d.bytes = w.bytes - size \div 2 - 1
          PROVE  d.at + d.bytes <= o + FieldStarts[kind][D]
      <4> DEFINE F == FieldStarts[kind][D]
                 h == size \div 2
                 x == d.bytes
                 y == w.bytes
                 z == w.at
      <4>1. /\ x = y - h - 1 /\ z + y = o + size /\ d.at = z /\ size - h - 1 <= F
            /\ x \in Nat /\ y \in Nat /\ z \in Nat /\ o \in Nat /\ size \in Nat
            /\ h \in Nat /\ F \in Nat
        BY <1>3, <1>4, <3>1, <3>3, <3>5, <3>6, <3>9
      <4> HIDE DEF F, h, x, y, z
      <4>2. z + x <= o + F
        BY <4>1
      <4> QED BY <4>1, <4>2 DEF F, x
    <3> QED BY <3>4, <3>8, <3>9 DEF o
  <2>7. FieldCell(disk', c, kind, last, D) = Hole
    <3>1. SlotOffset(kind, last, c) + FieldStarts[kind][D] \in Nat
          /\ FieldsOf(kind)[D].width \in Nat \ {0}
      BY <1>1, <1>5, <1>8, <2>4, FieldsInSlot
    <3> DEFINE o == SlotOffset(kind, last, c) + FieldStarts[kind][D]
               wd == FieldsOf(kind)[D].width
    <3>2. FieldCell(disk', c, kind, last, D)
            = IF o + wd <= d.at + d.bytes THEN Put(kind, D, 0)
              ELSE IF d.at + d.bytes <= o THEN Hole ELSE Mixed
      BY <1>8, <2>5
    <3> HIDE DEF o, wd
    <3>3. ~ (o + wd <= d.at + d.bytes) /\ d.at + d.bytes <= o
      BY <1>4, <2>6, <3>1 DEF o, wd
    <3> QED BY <3>2, <3>3
  <2> QED BY <2>5, <2>7 DEF Blank, BlankCell
<1> QED BY <1>10, <1>11


(* Writes to what is left of such a container are elsewhere.               *)
LEMMA InertStays ==
  ASSUME Shape, CreationOK, InertOK,
         NEW l \in RegionKinds, NEW j \in Slots(l, capacity), NEW i, CanWrite(l, i),
         NEW d, d.at = SlotOffset(l, j, capacity), d.bytes \in 0 .. SlotSize(l, capacity),
         disk' = Append(disk, d), UNCHANGED <<capacity, region, cutIn>>
  PROVE  InertOK'
<1>1. ValidCapacity(capacity) /\ IsDisk(disk)
  BY DEF Shape, CreationOK
<1>2. d.at \in Nat /\ d.bytes \in Nat
  <2>1. SlotOffset(l, j, capacity) \in Nat /\ SlotSize(l, capacity) \in Nat
    BY <1>1, SlotFacts
  <2> QED BY <2>1
<1> SUFFICES ASSUME NEW kind \in Tables, cutIn \in 1 .. CreatedBy(kind, 0)
             PROVE  Blank(disk', capacity, kind)
  BY DEF InertOK
<1>3. cutIn \notin 1 .. 3
  BY InertCannotWrite
<1>4. kind = "recipient" /\ cutIn = 4
  BY <1>3 DEF Tables, CreatedBy
<1>5. l # "recipient"
  BY <1>4, InertCannotWrite
<1>6. kind \in RecordKinds /\ kind \in RegionKinds
  BY DEF Tables, RecordKinds, RegionKinds
<1>7. {0, SlotCount(kind, capacity) - 1} \subseteq Slots(kind, capacity)
  BY <1>6, WatchedSlots
<1>8. ASSUME NEW n \in {0, SlotCount(kind, capacity) - 1}, NEW k \in DOMAIN FieldsOf(kind)
      PROVE  FieldCell(disk', capacity, kind, n, k) = FieldCell(disk, capacity, kind, n, k)
  <2>1. n \in Slots(kind, capacity) /\ <<kind, n>> # <<l, j>>
    BY <1>4, <1>5, <1>7
  <2>2. Elsewhere(d, kind, n, capacity)
    BY <1>1, <1>6, <2>1, OtherSlotsElsewhere
  <2> QED BY <1>1, <1>2, <1>6, <2>1, <2>2, FieldsElsewhere
<1>9. Blank(disk, capacity, kind)
  BY DEF InertOK
<1>10. DigestOf(kind) \in DOMAIN FieldsOf(kind)
  BY <1>6, RecordFieldsOK DEF FieldsOK, With
<1> QED BY <1>8, <1>9, <1>10 DEF Blank

-------------------------------------------------------------------------------
(***************************************************************************)
(* The invariant of the file, and that every step keeps it.                *)
(***************************************************************************)
FileOK == CreationOK /\ HistoryOK /\ RecordsOK /\ BitmapOK /\ InertOK

LEMMA FileStays == ASSUME FileOK, SameDisk PROVE FileOK'
<1>1. CreationOK' /\ HistoryOK' /\ RecordsOK'
  BY SameDiskKeeps DEF FileOK
<1>2. BitmapOK'
  BY DEF FileOK, SameDisk, BitmapOK, Copies, Blocks, BitmapSlot
<1>3. InertOK'
  BY DEF FileOK, SameDisk, InertOK
<1> QED BY <1>1, <1>2, <1>3 DEF FileOK

LEMMA FileInit == ContainerInit => FileOK
<1> SUFFICES ASSUME ContainerInit PROVE FileOK
  OBVIOUS
<1>1. Shape /\ disk = <<>> /\ cutIn = 0
  BY DEF ContainerInit, Shape
<1>2. Len(disk) = 0
  BY <1>1
<1>3. CreationOK
  <2>1. IsDisk(disk)
    <3>1. <<>> \in Seq(Range(<<>>)) /\ Len(<<>>) = 0
      OBVIOUS
    <3> QED BY <1>1, <3>1 DEF IsDisk
  <2> QED BY <1>1, <2>1 DEF CreationOK
<1>4. ASSUME NEW kind \in RecordKinds, NEW i \in Watched(kind)
      PROVE  /\ saved[<<kind, i>>] = Initial(kind, i) /\ cut[<<kind, i>>] = {}
             /\ MayHold(kind, saved[<<kind, i>>], cut[<<kind, i>>])
  <2>1. <<kind, i>> \in RecordSlots /\ <<kind, i>> # BitmapSlot
    BY RecordSlotKinds
  <2>2. cut[<<kind, i>>] = {}
    BY <2>1 DEF ContainerInit
  <2>3. i \in Nat
    <3>1. kind \in RegionKinds /\ ValidCapacity(capacity)
      BY <1>1 DEF RecordKinds, Shape
    <3> QED BY <1>1, <3>1, WatchedSlots, SlotFacts
  <2>4. saved[<<kind, i>>] = IF kind = "block" THEN Refused
                             ELSE IF kind = "chain" /\ i > 0 THEN Empty ELSE 0
    <3> DEFINE s == <<kind, i>>
    <3>1. s[1] = kind /\ s[2] = i
      OBVIOUS
    <3> HIDE DEF s
    <3>2. saved[s] = CASE s = BitmapSlot -> {}
                       [] s[1] = "block" -> Refused
                       [] s[1] = "chain" /\ s[2] > 0 -> Empty
                       [] OTHER -> 0
      BY <2>1 DEF ContainerInit, s
    <3>3. s # BitmapSlot
      BY <2>1 DEF s
    <3>4. CASE kind = "block"
      BY <3>1, <3>2, <3>3, <3>4 DEF s
    <3>5. CASE kind # "block" /\ kind = "chain" /\ i > 0
      BY <3>1, <3>2, <3>3, <3>5 DEF s
    <3>6. CASE kind # "block" /\ ~ (kind = "chain" /\ i > 0)
      BY <3>1, <3>2, <3>3, <3>6 DEF s
    <3> QED BY <3>4, <3>5, <3>6
  <2>5. saved[<<kind, i>>] = Initial(kind, i)
    BY <2>4 DEF Initial
  <2>6. MayHold(kind, Initial(kind, i), {})
    BY <2>3 DEF Initial, MayHold
  <2> QED BY <2>2, <2>5, <2>6
<1>5. saved[BitmapSlot] = {} /\ cut[BitmapSlot] = {}
  <2> DEFINE s == BitmapSlot
  <2>1. s \in RecordSlots \union {BitmapSlot}
    OBVIOUS
  <2>2. saved[s] = CASE s = BitmapSlot -> {}
                     [] s[1] = "block" -> Refused
                     [] s[1] = "chain" /\ s[2] > 0 -> Empty
                     [] OTHER -> 0
    BY <2>1 DEF ContainerInit
  <2>3. s[1] = "bitmap"
    BY DEF BitmapSlot
  <2>4. cut[s] = {}
    BY <2>1 DEF ContainerInit
  <2> HIDE DEF s
  <2>5. s = BitmapSlot
    BY DEF s
  <2> QED BY <2>2, <2>3, <2>4, <2>5
<1>6. HistoryOK
  <2>1. DOMAIN saved = RecordSlots \union {BitmapSlot} /\ DOMAIN cut = DOMAIN saved
    BY DEF ContainerInit
  <2> QED BY <1>4, <1>5, <2>1 DEF HistoryOK
<1>7. RecordsOK
  <2> SUFFICES ASSUME NEW kind \in RecordKinds, NEW i \in Watched(kind),
                      NEW k \in DOMAIN FieldsOf(kind)
               PROVE  CellHolds(FieldCell(disk, capacity, kind, i, k), kind, k,
                                Expected(kind, i), cut[<<kind, i>>])
    BY DEF RecordsOK, SlotHolds
  <2>1. FieldCell(disk, capacity, kind, i, k) = Hole
    BY <1>1, EmptyCells DEF FieldCell
  <2>2. Expected(kind, i) \in {Refused, Empty}
    <3>1. CASE kind = "block"
      BY <1>2, <1>4, <3>1 DEF Expected, Initial
    <3>2. CASE kind # "block"
      <4>1. CreatedBy(kind, i) \in 1 .. 6
        BY <3>2 DEF CreatedBy, RecordKinds, RegionKinds
      <4> QED BY <1>1, <1>2, <4>1 DEF Expected
    <3> QED BY <3>1, <3>2
  <2>3. Put(kind, k, Expected(kind, i)) = Hole
    BY <2>2 DEF Put, Refused, Empty
  <2> QED BY <2>1, <2>3 DEF CellHolds
<1>8. BitmapOK
  BY <1>1, <1>2, EmptyCells DEF BitmapOK, ByteCell, IsByte
<1>9. InertOK
  BY <1>1 DEF InertOK
<1> QED BY <1>3, <1>6, <1>7, <1>8, <1>9 DEF FileOK


(* A write of module Container, in the terms of the lemmas.                *)
LEMMA WritesAre ==
  ASSUME Shape, NEW kind \in RegionKinds, NEW i \in Watched(kind), NEW data, NEW b,
         WriteTo(kind, i, data, b)
  PROVE  /\ disk' = Append(disk, [at |-> SlotOffset(kind, i, capacity),
                                  stride |-> SlotSize(kind, capacity),
                                  data |-> data, bytes |-> b])
         /\ UNCHANGED <<capacity, region, cutIn>>
         /\ i \in Slots(kind, capacity)
<1>1. SlotAt(kind, i) = SlotOffset(kind, i, capacity) /\ region[kind].size = SlotSize(kind, capacity)
      /\ i \in Slots(kind, capacity)
  BY WatchedSlots
<1> QED BY <1>1 DEF WriteTo

LEMMA CanWriteIsNoCreation == ASSUME NEW k, NEW i, CanWrite(k, i) PROVE ~Creating
  BY DEF CanWrite

LEMMA BitmapSlotStays ==
  ASSUME HistoryOK, NEW s \in RecordSlots, NEW v, NEW w,
         \/ UNCHANGED saved
         \/ saved' = [saved EXCEPT ![s] = v],
         cut' = [cut EXCEPT ![s] = w]
  PROVE  saved'[BitmapSlot] = saved[BitmapSlot] /\ cut'[BitmapSlot] = cut[BitmapSlot]
<1>1. s # BitmapSlot
  BY RecordSlotKinds
<1>2. BitmapSlot \in DOMAIN saved /\ BitmapSlot \in DOMAIN cut
  BY DEF HistoryOK
<1> QED BY <1>1, <1>2

LEMMA WriteRecordKeeps ==
  ASSUME Shape, FileOK, writes \in Nat, NEW kind \in RecordKinds, WriteRecord(kind)
  PROVE  FileOK'
<1>1. PICK i \in Watched(kind) :
        /\ CanWrite(kind, i)
        /\ WriteTo(kind, i, VersionOf(kind, writes + 1), region[kind].size)
        /\ Whole(<<kind, i>>, writes + 1)
  BY DEF WriteRecord
<1> DEFINE v == writes + 1
           size == SlotSize(kind, capacity)
           d == RecordWrite(kind, i, capacity, v, size)
<1>2. kind \in RegionKinds /\ region[kind].size = size /\ v \in Nat
  BY WatchedSlots DEF RecordKinds
<1>3. disk' = Append(disk, d) /\ UNCHANGED <<capacity, region, cutIn>>
      /\ i \in Slots(kind, capacity)
  BY <1>1, <1>2, WritesAre DEF RecordWrite
<1>4. ~Creating
  BY <1>1, CanWriteIsNoCreation
<1>5. saved' = [saved EXCEPT ![<<kind, i>>] = v] /\ cut' = [cut EXCEPT ![<<kind, i>>] = {}]
  BY <1>1 DEF Whole
<1>6. CreationOK' /\ HistoryOK' /\ RecordsOK'
  BY <1>2, <1>3, <1>4, <1>5, WholeWriteKeeps DEF FileOK
<1>7. /\ d.at = SlotOffset(kind, i, capacity) /\ d.bytes = size
      /\ size \in Nat
  <2>1. size \in Nat
    BY <1>2, <1>3, SlotFacts DEF Shape
  <2> QED BY <2>1 DEF RecordWrite
<1>8. saved'[BitmapSlot] = saved[BitmapSlot] /\ cut'[BitmapSlot] = cut[BitmapSlot]
  BY <1>5, RecordSlotKinds, BitmapSlotStays DEF FileOK
<1> HIDE DEF d, v
<1>9. BitmapOK'
  BY <1>3, <1>4, <1>7, <1>8, BytesStay DEF FileOK
<1>10. InertOK'
  BY <1>1, <1>2, <1>3, <1>7, InertStays DEF FileOK
<1> QED BY <1>6, <1>9, <1>10 DEF FileOK

LEMMA WriteCutOffKeeps ==
  ASSUME Shape, FileOK, writes \in Nat, NEW kind \in RecordKinds, WriteCutOff(kind)
  PROVE  FileOK'
<1>1. PICK i \in Watched(kind) : \E k \in DOMAIN FieldsOf(kind) :
        /\ CanWrite(kind, i)
        /\ WriteTo(kind, i, VersionOf(kind, writes + 1), HalfWay(kind, k))
        /\ CutOff(<<kind, i>>, writes + 1)
  BY DEF WriteCutOff
<1>2. PICK k \in DOMAIN FieldsOf(kind) :
        /\ CanWrite(kind, i)
        /\ WriteTo(kind, i, VersionOf(kind, writes + 1), HalfWay(kind, k))
        /\ CutOff(<<kind, i>>, writes + 1)
  BY <1>1
<1> DEFINE v == writes + 1
           size == SlotSize(kind, capacity)
           d == RecordWrite(kind, i, capacity, v, HalfWay(kind, k))
<1>3. kind \in RegionKinds /\ kind # "bitmap" /\ v \in Nat
  BY DEF RecordKinds
<1>4. disk' = Append(disk, d) /\ UNCHANGED <<capacity, region, cutIn>>
      /\ i \in Slots(kind, capacity)
  BY <1>2, <1>3, WritesAre DEF RecordWrite
<1>5. ~Creating
  BY <1>2, CanWriteIsNoCreation
<1>6. UNCHANGED saved /\ cut' = [cut EXCEPT ![<<kind, i>>] = @ \union {v}]
  BY <1>2 DEF CutOff
<1>7. CreationOK' /\ HistoryOK' /\ RecordsOK'
  BY <1>3, <1>4, <1>5, <1>6, CutWriteKeeps DEF FileOK
<1>8. d.at = SlotOffset(kind, i, capacity) /\ d.bytes \in 0 .. size
  <2>1. size = RecordSize(kind) /\ RecordSize(kind) \in Nat
    BY <1>3, <1>4, SlotFacts DEF Shape
  <2>2. /\ HalfWay(kind, k) \in Nat
        /\ FieldStarts[kind][k] \in Nat /\ FieldsOf(kind)[k].width \in Nat
        /\ HalfWay(kind, k) < FieldStarts[kind][k] + FieldsOf(kind)[k].width
        /\ FieldStarts[kind][k] + FieldsOf(kind)[k].width <= RecordSize(kind)
    BY RecordFieldsOK DEF FieldsOK, FieldOK
  <2>3. HalfWay(kind, k) \in 0 .. RecordSize(kind)
    BY <2>1, <2>2
  <2> QED BY <2>1, <2>3 DEF RecordWrite
<1>9. saved'[BitmapSlot] = saved[BitmapSlot] /\ cut'[BitmapSlot] = cut[BitmapSlot]
  BY <1>6, RecordSlotKinds, BitmapSlotStays DEF FileOK
<1> HIDE DEF d, v
<1>10. BitmapOK'
  BY <1>4, <1>5, <1>8, <1>9, BytesStay DEF FileOK
<1>11. InertOK'
  BY <1>2, <1>3, <1>4, <1>8, InertStays DEF FileOK
<1> QED BY <1>7, <1>10, <1>11 DEF FileOK

AllocatorOK == bits \in Bitmaps(Blocks) /\ OccupiedIn(bits, Blocks) = occupied

LEMMA WriteBitmapKeeps ==
  ASSUME Shape, FileOK, AllocatorOK, WriteBitmap \/ WriteBitmapCutOff
  PROVE  FileOK'
<1> DEFINE L == BitmapLen(Blocks)
<1>1. ValidCapacity(capacity)
  BY DEF Shape
<1>2. /\ "bitmap" \in RegionKinds /\ 0 \in Slots("bitmap", capacity)
      /\ SlotSize("bitmap", capacity) = L /\ L \in Nat \ {0}
  BY <1>1, BitmapSlotFacts DEF Blocks
<1>3. 0 \in Watched("bitmap")
  BY <1>2, WatchedSlots
<1>4. BitmapSlot \notin RecordSlots
  BY RecordSlotKinds
<1>5. BitmapSlot \in DOMAIN saved /\ BitmapSlot \in DOMAIN cut
  BY DEF FileOK, HistoryOK
<1>6. CanWrite("bitmap", 0)
  BY DEF WriteBitmap, WriteBitmapCutOff
<1>7. ~Creating
  BY <1>6, CanWriteIsNoCreation
<1> HIDE DEF L
<1>8. ASSUME NEW n \in 0 .. L, WriteTo("bitmap", 0, BytesOf(bits), n),
             \/ n = L /\ Whole(BitmapSlot, occupied)
             \/ CutOff(BitmapSlot, occupied)
      PROVE  FileOK'
  <2> DEFINE d == BitmapWrite(bits, capacity, n)
  <2>1. disk' = Append(disk, d) /\ UNCHANGED <<capacity, region, cutIn>>
    BY <1>2, <1>3, <1>8, WritesAre DEF BitmapWrite
  <2>2. d.at = SlotOffset("bitmap", 0, capacity) /\ d.bytes \in 0 .. SlotSize("bitmap", capacity)
    BY <1>2 DEF BitmapWrite
  <2>3. DOMAIN saved' = DOMAIN saved /\ DOMAIN cut' = DOMAIN cut
    BY <1>8 DEF Whole, CutOff
  <2>4. \A s \in RecordSlots : s # BitmapSlot => saved'[s] = saved[s] /\ cut'[s] = cut[s]
    BY <1>4, <1>8 DEF Whole, CutOff, FileOK, HistoryOK
  <2>5. occupied \in Copies' /\ (Copies \subseteq Copies' \/ n = L)
    <3>1. CASE n = L /\ Whole(BitmapSlot, occupied)
      <4>1. saved'[BitmapSlot] = occupied
        BY <1>5, <3>1 DEF Whole
      <4> QED BY <3>1, <4>1 DEF Copies
    <3>2. CASE CutOff(BitmapSlot, occupied)
      <4>1. saved' = saved /\ cut'[BitmapSlot] = cut[BitmapSlot] \union {occupied}
        BY <1>5, <3>2 DEF CutOff
      <4> QED BY <4>1 DEF Copies
    <3> QED BY <1>8, <3>1, <3>2
  <2>6. BitmapOK'
    BY <1>7, <2>1, <2>5, BitmapWriteKeeps DEF FileOK, AllocatorOK, L
  <2> HIDE DEF d
  <2>7. CreationOK' /\ HistoryOK' /\ RecordsOK'
    <3>1. <<"bitmap", 0>> = BitmapSlot
      BY DEF BitmapSlot
    <3> QED BY <1>2, <1>4, <1>7, <2>1, <2>2, <2>3, <2>4, <3>1, SlotWriteKeeps DEF FileOK
  <2>8. InertOK'
    BY <1>2, <1>6, <2>1, <2>2, InertStays DEF FileOK
  <2> QED BY <2>6, <2>7, <2>8 DEF FileOK
<1>9. CASE WriteBitmap
  <2>1. L \in 0 .. L
    BY <1>2
  <2> QED BY <1>8, <1>9, <2>1 DEF WriteBitmap, L
<1>10. CASE WriteBitmapCutOff
  <2>1. PICK n \in 0 .. L - 1 : WriteTo("bitmap", 0, BytesOf(bits), n)
    BY <1>10 DEF WriteBitmapCutOff, L
  <2>2. n \in 0 .. L
    BY <1>2
  <2> QED BY <1>8, <1>10, <2>1, <2>2 DEF WriteBitmapCutOff
<1> QED BY <1>9, <1>10


LEMMA CreateRegionKeeps == ASSUME Shape, FileOK, CreateRegion PROVE FileOK'
<1> DEFINE d == CreationWrite(Len(disk) + 1, capacity)
<1>1. Creating /\ UNCHANGED <<capacity, region, saved, cut, cutIn>>
  BY DEF CreateRegion, history
<1>2. disk' = Append(disk, d) /\ cutIn = 0 /\ Len(disk) + 1 \in 1 .. 6
  BY <1>1, RegionWriteIs DEF CreateRegion, FileOK
<1>3. CreationOK' /\ HistoryOK' /\ RecordsOK'
  BY <1>1, <1>2, CreateStepKeeps DEF FileOK
<1>4. BitmapOK'
  <2>1. d.at \in Nat /\ d.bytes \in Nat
    BY <1>2, StepFacts DEF Shape
  <2>2. d.bytes \in 0 .. d.bytes
    BY <2>1
  <2> QED BY <1>1, <1>2, <2>2, CreationKeepsBytes DEF FileOK
<1>5. InertOK'
  BY <1>1, <1>2 DEF InertOK
<1> QED BY <1>3, <1>4, <1>5 DEF FileOK

(* Each step of create writes at least one record.                         *)
LEMMA StepsHoldARecord ==
  ASSUME NEW c, ValidCapacity(c), NEW n \in 1 .. 6
  PROVE  LET w == CreationWrite(n, c)
         IN  w.stride \div 2 \in Nat /\ w.stride \div 2 + 1 \in 0 .. w.bytes
<1> DEFINE w == CreationWrite(n, c)
           size == SlotSize(StepKind(n), c)
           count == StepCount(n, c)
<1>1. w.bytes = count * size /\ w.stride = size
  BY DEF CreationWrite
<1>2. size \in Nat \ {0}
  <2>1. StepKind(n) \in RegionKinds /\ StepSlot(n) \in Slots(StepKind(n), c)
    BY StepFacts
  <2> QED BY <2>1, SlotFacts
<1>3. count \in Nat \ {0}
  <2>1. n = 1 \/ n = 2 \/ n = 3 \/ n = 4 \/ n = 5 \/ n = 6
    OBVIOUS
  <2>2. MaxFileSlots(c) \in Nat \ {0}
    BY SizesAreCounts
  <2>3. MaxChainRecords(c) \in Nat /\ MaxChainRecords(c) >= 8
    BY DEF MaxChainRecords, Clamp, MaxFileSlots, ValidCapacity
  <2>4. CASE n \in {1, 2, 3, 4}
    BY <2>1, <2>2, <2>4 DEF StepCount, StepKind, SlotCount, MaxRecipientSlots
  <2>5. CASE n = 5
    BY <2>5 DEF StepCount
  <2>6. CASE n = 6
    <3>1. SlotCount("chain", c) = MaxChainRecords(c) /\ StepKind(6) = "chain"
      BY DEF SlotCount, StepKind
    <3> QED BY <2>3, <2>6, <3>1 DEF StepCount
  <2> QED BY <2>1, <2>4, <2>5, <2>6
<1> HIDE DEF w, size, count
<1>4. size <= count * size /\ count * size \in Nat
  <2> DEFINE m == count - 1
  <2>1. m \in Nat /\ count = m + 1
    BY <1>3
  <2> HIDE DEF m
  <2>2. m * size \in Nat /\ (m + 1) * size = m * size + size
    BY <1>2, <2>1
  <2> QED BY <1>2, <2>1, <2>2
<1>5. size \div 2 \in Nat /\ size \div 2 + 1 <= size
  BY <1>2
<1> QED BY <1>1, <1>2, <1>4, <1>5 DEF w

LEMMA CreationCutOffKeeps == ASSUME Shape, FileOK, CreationCutOff PROVE FileOK'
<1> DEFINE w == CreationWrite(Len(disk) + 1, capacity)
<1>1. Creating /\ UNCHANGED <<capacity, region, saved, cut>> /\ cutIn' = Len(disk) + 1
  BY DEF CreationCutOff
<1>2. RegionWrite(Len(disk) + 1) = w /\ cutIn = 0 /\ Len(disk) + 1 \in 1 .. 6
  BY <1>1, RegionWriteIs DEF FileOK
<1>3. PICK b \in {0, w.bytes - w.stride \div 2 - 1} :
        disk' = Append(disk, [w EXCEPT !.bytes = b])
  BY <1>2 DEF CreationCutOff
<1> DEFINE d == [w EXCEPT !.bytes = b]
<1>4. d.at = w.at /\ d.stride = w.stride /\ d.data = w.data /\ d.bytes = b
  BY DEF CreationWrite
<1> HIDE DEF w
<1>5. w.at \in Nat /\ b \in 0 .. w.bytes
  <2>1. w.at \in Nat /\ w.bytes \in Nat
    BY <1>2, StepFacts DEF Shape, w
  <2>2. w.stride \div 2 + 1 \in 0 .. w.bytes /\ w.stride \div 2 \in Nat
    BY <1>2, StepsHoldARecord DEF Shape, w
  <2> QED BY <2>1, <2>2
<1>6. d.at \in Nat /\ d.bytes \in Nat /\ disk' = Append(disk, d)
  <2>1. w.bytes \in Nat
    BY <1>2, StepFacts DEF Shape, w
  <2> QED BY <1>3, <1>4, <1>5, <2>1
<1> HIDE DEF d
<1>7. CreationOK' /\ HistoryOK' /\ RecordsOK'
  BY <1>1, <1>4, <1>5, <1>6, CreationCutKeeps DEF FileOK, w
<1>8. cutIn' # 0
  BY <1>1, <1>2
<1>9. BitmapOK'
  BY <1>1, <1>4, <1>5, <1>6, <1>8, CreationKeepsBytes DEF FileOK, w
<1>10. InertOK'
  BY <1>1, <1>3, <1>4, <1>5, <1>6, CreationCutIsInert DEF FileOK, w
<1> QED BY <1>7, <1>9, <1>10 DEF FileOK


-------------------------------------------------------------------------------
(* The handle: its allocator's bytes, and the counts of the model.         *)
HandleOK ==
  /\ open \in BOOLEAN /\ writes \in 0 .. MaxWrites /\ asked \in 0 .. MaxAsked
  /\ AllocatorOK

LEMMA LosingTheHandle ==
  ASSUME Shape, LoseHandle, UNCHANGED capacity
  PROVE  AllocatorOK' /\ open' \in BOOLEAN
<1>1. Blocks \in Nat /\ Blocks' = Blocks
  BY BitmapSlotFacts DEF Shape, Blocks
<1>2. EmptyBits(Blocks) \in Bitmaps(Blocks) /\ OccupiedIn(EmptyBits(Blocks), Blocks) = {}
  BY <1>1, EmptyBitmap, BitmapsReopen
<1> QED BY <1>1, <1>2 DEF LoseHandle, AllocatorOK

LEMMA HandleInit == ContainerInit => HandleOK
<1> SUFFICES ASSUME ContainerInit PROVE HandleOK
  OBVIOUS
<1>1. Blocks \in Nat
  BY BitmapSlotFacts DEF Blocks, ContainerInit
<1>2. EmptyBits(Blocks) \in Bitmaps(Blocks) /\ OccupiedIn(EmptyBits(Blocks), Blocks) = {}
  BY <1>1, EmptyBitmap, BitmapsReopen
<1>3. 0 \in 0 .. MaxWrites /\ 0 \in 0 .. MaxAsked
  BY WriteBounds
<1> QED BY <1>2, <1>3 DEF ContainerInit, HandleOK, AllocatorOK

LEMMA WritingKeepsTheHandle ==
  ASSUME Shape, HandleOK, writes < MaxWrites, NEW k, NEW i, NEW data, NEW b,
         WriteTo(k, i, data, b), NEW s, NEW v, Whole(s, v) \/ CutOff(s, v)
  PROVE  HandleOK'
<1>1. writes' \in 0 .. MaxWrites /\ asked' = asked /\ capacity' = capacity
  BY WriteBounds DEF WriteTo, HandleOK
<1>2. CASE Whole(s, v)
  BY <1>1, <1>2 DEF Whole, HandleOK, AllocatorOK, Blocks
<1>3. CASE CutOff(s, v)
  BY <1>1, <1>3, LosingTheHandle DEF CutOff, HandleOK
<1> QED BY <1>2, <1>3

LEMMA AskingKeepsTheHandle ==
  ASSUME Shape, HandleOK
  PROVE  /\ \A count \in Counts : AllocateBlocks(count) => HandleOK'
         /\ \A indices \in SUBSET Nat : FreeBlocks(indices) => HandleOK'
<1>1. Blocks \in Nat /\ bits \in Bitmaps(Blocks) /\ OccupiedIn(bits, Blocks) = occupied
  BY BitmapSlotFacts DEF Shape, Blocks, HandleOK, AllocatorOK
<1>2. Ask => Blocks' = Blocks /\ open' \in BOOLEAN /\ writes' \in 0 .. MaxWrites
             /\ asked' \in 0 .. MaxAsked
  BY WriteBounds DEF Ask, HandleOK, Blocks
<1>3. ASSUME NEW count \in Counts, AllocateBlocks(count)
      PROVE  HandleOK'
  <2> DEFINE taken == ToSet(AllocateBits(bits, Blocks, count))
  <2>1. count \in Nat
    BY WriteBounds
  <2>2. taken = Pool!FirstFit(occupied, count) /\ taken \subseteq 0 .. Blocks - 1
    BY <1>1, <2>1, AllocatingIsFirstFit
  <2>3. taken \in SUBSET Nat
    BY <2>2
  <2>4. Ask /\ bits' = MarkBits(bits, Blocks, taken)
        /\ occupied' = occupied \union Pool!FirstFit(occupied, count)
    BY <1>3 DEF AllocateBlocks
  <2> HIDE DEF taken
  <2>5. MarkBits(bits, Blocks, taken) \in Bitmaps(Blocks)
        /\ OccupiedIn(MarkBits(bits, Blocks, taken), Blocks)
             = Pool!MarkOccupied(occupied, taken)
    BY <1>1, <2>3, MarkingIsUnion
  <2>6. Pool!MarkOccupied(occupied, taken) = occupied \union taken
    BY <2>2 DEF Pool!MarkOccupied, Pool!Blocks
  <2> QED BY <1>2, <2>2, <2>4, <2>5, <2>6 DEF HandleOK, AllocatorOK
<1>4. ASSUME NEW indices \in SUBSET Nat, FreeBlocks(indices)
      PROVE  HandleOK'
  <2>1. Ask /\ bits' = ClearBits(bits, Blocks, indices)
        /\ occupied' = Pool!Free(occupied, indices)
    BY <1>4 DEF FreeBlocks
  <2>2. ClearBits(bits, Blocks, indices) \in Bitmaps(Blocks)
        /\ OccupiedIn(ClearBits(bits, Blocks, indices), Blocks) = Pool!Free(occupied, indices)
    BY <1>1, ClearingIsDifference
  <2> QED BY <1>2, <2>1, <2>2 DEF HandleOK, AllocatorOK
<1> QED BY <1>3, <1>4

LEMMA OpeningKeepsTheHandle == ASSUME Shape, FileOK, HandleOK, Open PROVE HandleOK'
<1>1. ReadBitmap \in Bitmaps(Blocks)
  BY ReadBitmapReads DEF FileOK, CreationOK
<1>2. Blocks' = Blocks /\ open' \in BOOLEAN /\ writes' = writes /\ asked' = asked
      /\ bits' = ReadBitmap /\ occupied' = OccupiedIn(bits', Blocks)
  BY DEF Open, Blocks
<1> QED BY <1>1, <1>2 DEF HandleOK, AllocatorOK

-------------------------------------------------------------------------------
(* The invariant of the component.                                         *)
ContainerInv == FileOK /\ HandleOK

LEMMA StepKeepsContainer ==
  ASSUME Shape, ContainerInv, [ContainerNext]_containerVars
  PROVE  ContainerInv'
<1> USE DEF ContainerInv
<1>1. writes \in Nat /\ occupied \subseteq 0 .. Blocks - 1 /\ Blocks \in Nat
  BY BitmapSlotFacts, WriteBounds DEF HandleOK, AllocatorOK, OccupiedIn, Shape, Blocks
<1>2. CASE CreateRegion
  <2>1. HandleOK'
    BY <1>2 DEF CreateRegion, HandleOK, AllocatorOK, Blocks, history
  <2> QED BY <1>2, <2>1, CreateRegionKeeps
<1>3. CASE CreationCutOff
  <2>1. HandleOK'
    BY <1>3, LosingTheHandle DEF CreationCutOff, HandleOK
  <2> QED BY <1>3, <2>1, CreationCutOffKeeps
<1>4. ASSUME NEW kind \in RecordKinds, WriteRecord(kind) \/ WriteCutOff(kind)
      PROVE  ContainerInv'
  <2>1. CASE WriteRecord(kind)
    <3>1. HandleOK'
      BY <2>1, WritingKeepsTheHandle DEF WriteRecord
    <3> QED BY <1>1, <2>1, <3>1, WriteRecordKeeps
  <2>2. CASE WriteCutOff(kind)
    <3>1. HandleOK'
      BY <2>2, WritingKeepsTheHandle DEF WriteCutOff
    <3> QED BY <1>1, <2>2, <3>1, WriteCutOffKeeps
  <2> QED BY <1>4, <2>1, <2>2
<1>5. CASE WriteBitmap \/ WriteBitmapCutOff
  <2>1. HandleOK'
    <3>1. CASE WriteBitmap
      BY <3>1, WritingKeepsTheHandle DEF WriteBitmap
    <3>2. CASE WriteBitmapCutOff
      BY <3>2, WritingKeepsTheHandle DEF WriteBitmapCutOff
    <3> QED BY <1>5, <3>1, <3>2
  <2>2. FileOK'
    BY <1>5, WriteBitmapKeeps DEF HandleOK
  <2> QED BY <2>1, <2>2
<1>6. ASSUME NEW count \in Counts, AllocateBlocks(count)
      PROVE  ContainerInv'
  <2>1. SameDisk
    BY <1>6 DEF AllocateBlocks, Ask, SameDisk
  <2> QED BY <1>6, <2>1, FileStays, AskingKeepsTheHandle
<1>7. ASSUME NEW indices \in SUBSET Nat, FreeBlocks(indices)
      PROVE  ContainerInv'
  <2>1. SameDisk
    BY <1>7 DEF FreeBlocks, Ask, SameDisk
  <2> QED BY <1>7, <2>1, FileStays, AskingKeepsTheHandle
<1>8. CASE occupied # {}
           /\ (FreeBlocks({Min(occupied)}) \/ FreeBlocks(occupied \ {Min(occupied)}))
  <2>1. occupied \in SUBSET Nat
    BY <1>1
  <2>2. Min(occupied) \in occupied
    BY <1>8, <2>1, MinExists
  <2>3. {Min(occupied)} \in SUBSET Nat /\ occupied \ {Min(occupied)} \in SUBSET Nat
    BY <2>1, <2>2
  <2> QED BY <1>7, <1>8, <2>3
<1>9. CASE Open
  <2>1. SameDisk
    BY <1>9 DEF Open, SameDisk
  <2> QED BY <1>9, <2>1, FileStays, OpeningKeepsTheHandle
<1>10. CASE Close
  <2>1. SameDisk
    BY <1>10 DEF Close, SameDisk
  <2>2. HandleOK'
    BY <1>10, LosingTheHandle DEF Close, HandleOK
  <2> QED BY <2>1, <2>2, FileStays
<1>11. CASE UNCHANGED containerVars
  <2>1. SameDisk
    BY <1>11 DEF containerVars, history, SameDisk
  <2>2. HandleOK'
    BY <1>11 DEF containerVars, history, HandleOK, AllocatorOK, Blocks
  <2> QED BY <2>1, <2>2, FileStays
<1> QED
  BY <1>2, <1>3, <1>4, <1>5, <1>6, <1>8, <1>9, <1>10, <1>11 DEF ContainerNext


LEMMA ContainerInvHolds == ContainerSpec => [](Shape /\ ContainerInv)
<1>1. ContainerInit => ContainerInv
  BY FileInit, HandleInit DEF ContainerInv
<1>2. Shape /\ ContainerInv /\ [ContainerNext]_containerVars => ContainerInv'
  BY StepKeepsContainer
<1> QED
  BY <1>1, <1>2, ShapeHolds, PTL DEF ContainerSpec

(* Every variable of a container keeps its type: a handle's bitmap has one *)
(* byte for eight blocks, whatever was read from the file.                 *)
THEOREM ContainerTypesHold == ContainerSpec => []ContainerTypeOK
<1>1. Shape /\ ContainerInv => ContainerTypeOK
  <2> SUFFICES ASSUME Shape, ContainerInv PROVE ContainerTypeOK
    OBVIOUS
  <2>1. occupied \subseteq 0 .. Blocks - 1
    BY DEF ContainerInv, HandleOK, AllocatorOK, OccupiedIn
  <2>2. Len(CreationOrder) = 6
    BY DEF CreationOrder
  <2>3. DOMAIN saved = RecordSlots \union {BitmapSlot} /\ DOMAIN cut = DOMAIN saved
        /\ cutIn \in 0 .. 6
    BY DEF ContainerInv, FileOK, HistoryOK, CreationOK
  <2> QED
    BY <2>1, <2>2, <2>3 DEF ContainerTypeOK, Shape, ContainerInv, HandleOK, AllocatorOK
<1> QED
  BY <1>1, ContainerInvHolds, PTL

(* In a complete container of any capacity, after any number of writes     *)
(* and cut-off writes in any order, a record decodes to the last value     *)
(* written whole, and only where writes were cut off since then to one of  *)
(* theirs or not at all: never to a mixture (write_at, read_at and the     *)
(* checksums of src/core/format.rs).                                       *)
THEOREM RecordsAlwaysReadBack == ContainerSpec => []RecordsReadBack
<1>1. Shape /\ ContainerInv => RecordsReadBack
  BY HistoriesReadBack DEF ContainerInv, FileOK
<1> QED
  BY <1>1, ContainerInvHolds, PTL

(* The bitmap, which no checksum covers, reads as occupied what some copy  *)
(* written since the last whole one has as occupied, and as free what some *)
(* copy has as free (write_bitmap, Vault::open).                           *)
THEOREM BitmapAlwaysReadsBetween == ContainerSpec => []BitmapReadsBetween
<1>1. Shape /\ ContainerInv => BitmapReadsBetween
  BY BitmapReads DEF ContainerInv, FileOK
<1> QED
  BY <1>1, ContainerInvHolds, PTL

(* The bytes of the allocator always are those of the set of blocks that   *)
(* the calls leave occupied: what first fit takes, marking and freeing do  *)
(* to the bytes what module Allocator does to the set.                     *)
THEOREM BitsAlwaysAreTheSet == ContainerSpec => []BitsAreTheSet
<1>1. ContainerInv => BitsAreTheSet
  BY DEF ContainerInv, HandleOK, AllocatorOK, BitsAreTheSet
<1> QED
  BY <1>1, ContainerInvHolds, PTL

(* A container whose creation was cut off is refused in its header; before *)
(* its table was complete no file is ever found in it, before its keyring  *)
(* was no peer; behind its table its files can be used (Vault::create,     *)
(* Vault::open, the lookups).                                              *)
THEOREM HalfCreatedAlwaysWorksInPart == ContainerSpec => []HalfCreatedWorksInPart
<1>1. Shape /\ ContainerInv => HalfCreatedWorksInPart
  BY HalfCreated DEF ContainerInv, FileOK
<1> QED
  BY <1>1, ContainerInvHolds, PTL

===============================================================================
