------------------------------- MODULE Allocator -------------------------------
(***************************************************************************)
(* BlockAllocator: the bitmap of data blocks, as the set of the blocks     *)
(* whose bit is set.  Allocation is first fit: the free blocks with the    *)
(* lowest numbers, in ascending order, and fewer than asked for only when  *)
(* no more are free.                                                       *)
(***************************************************************************)
EXTENDS Integers, FiniteSets, Sequences, FiniteSetsExt, SequencesExt

CONSTANT NumBlocks    \* block_count of the container

ASSUME NumBlocksAssumption == NumBlocks \in Nat \ {0}

Blocks == 0 .. NumBlocks - 1

IsFree(bits, b) == b \in Blocks /\ b \notin bits
FreeBlocks(bits) == {b \in Blocks : IsFree(bits, b)}
FreeCount(bits) == Cardinality(FreeBlocks(bits))

(* The blocks that allocate(count) hands out, and the order it does so in. *)
FirstFit(bits, count) ==
  {b \in FreeBlocks(bits) : Cardinality({c \in FreeBlocks(bits) : c < b}) < count}
InOrder(blocks) ==       \* the k-th block of them has k - 1 below it
  [k \in 1 .. Cardinality(blocks) |->
     CHOOSE b \in blocks : Cardinality({c \in blocks : c < b}) = k - 1]
Allocate(bits, count) == InOrder(FirstFit(bits, count))

MarkNext(bits, blocks) == bits \union {b + 1 : b \in blocks}     \* mutant
MarkNothing(bits, blocks) == bits                              \* mutant
MarkOccupied(bits, blocks) == bits \union (blocks \intersect Blocks)
Free(bits, blocks) == bits \ blocks
===============================================================================
