------------------------------- MODULE BlockBitmap -------------------------------
(***************************************************************************)
(* The bytes behind the block allocator: one bit per block, eight to a     *)
(* byte.  A byte is the set of the numbers of its bits that are set, 0 for *)
(* the lowest.  Module Allocator says what the operations do to the set of *)
(* occupied blocks; here they are what BlockAllocator does to its bytes.   *)
(***************************************************************************)
EXTENDS Integers, Sequences, SequencesExt, Layout

ByteValues == SUBSET (0 .. 7)
Bitmaps(blocks) == [0 .. BitmapLen(blocks) - 1 -> ByteValues]

WholeBytesOnly(blocks) == [j \in 0 .. blocks \div 8 - 1 |-> {}]            \* mutant
EmptyBits(blocks) == [j \in 0 .. BitmapLen(blocks) - 1 |-> {}]

(* from_bytes resizes what it is given to the length needed.               *)
WithoutLastByte(bytes, blocks) ==                                       \* mutant
  [j \in 0 .. BitmapLen(blocks) - 1 |-> IF j < blocks \div 8 THEN bytes[j] ELSE {}]
FromBytes(bytes, blocks) ==
  [j \in 0 .. BitmapLen(blocks) - 1 |-> IF j \in DOMAIN bytes THEN bytes[j] ELSE {}]

HighBitFirst(bits, blocks, i) == i < blocks /\ 7 - (i % 8) \notin bits[i \div 8]  \* mutant
FreeBit(bits, blocks, i) == i < blocks /\ i % 8 \notin bits[i \div 8]
OccupiedIn(bits, blocks) == {i \in 0 .. blocks - 1 : ~FreeBit(bits, blocks, i)}

BitsIn(indices, j) == {i % 8 : i \in {x \in indices : x \div 8 = j}}
MarkBits(bits, blocks, indices) ==
  [j \in DOMAIN bits |-> bits[j] \union BitsIn({i \in indices : i < blocks}, j)]
ClearBits(bits, blocks, indices) ==
  [j \in DOMAIN bits |-> bits[j] \ BitsIn({i \in indices : i < blocks}, j)]

(* allocate scans from block 0 and takes what is free until it has enough: *)
(* the blocks taken among the first i.                                     *)
AllocateBits(bits, blocks, count) ==
  LET taken[i \in 0 .. blocks] ==
        IF i = 0 THEN <<>>
        ELSE LET soFar == taken[i - 1] IN
             IF Len(soFar) < count /\ FreeBit(bits, blocks, i - 1)
             THEN Append(soFar, i - 1) ELSE soFar
  IN  taken[blocks]
===============================================================================
