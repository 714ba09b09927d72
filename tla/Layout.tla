--------------------------------- MODULE Layout ---------------------------------
(***************************************************************************)
(* Where everything is in a container file of a given capacity: the        *)
(* regions that Vault::create lays out, and the offsets at which slots,    *)
(* records and blocks are read and written.  All numbers are bytes, and    *)
(* the sizes are the program's own.  The file offsets fit in 64 bits as    *)
(* long as the capacity stays below 2^63, which the model assumes.         *)
(***************************************************************************)
EXTENDS Integers

HeaderSize == 1024
BlockSize == 4096
EntrySize == 320
RecipientSlotSize == 192
ChainRecordSize == 224
MaxRecipientSlots == 16

Clamp(x, low, high) == IF x < low THEN low ELSE IF x > high THEN high ELSE x

BitmapLen(blocks) == (blocks + 7) \div 8

(* create scales the file table with the capacity, and the chain with it.  *)
BlockCount(capacity) == capacity \div BlockSize
MaxFileSlots(capacity) == Clamp(capacity \div 16384, 4, 4096)
MaxChainRecords(capacity) == Clamp(4 * MaxFileSlots(capacity), 8, 16384)

(* A capacity of less than one block is refused.                           *)
ValidCapacity(capacity) == capacity \in Nat /\ BlockCount(capacity) > 0

RegionKinds == {"header", "bitmap", "entry", "recipient", "chain", "block"}

SlotSize(kind, capacity) ==
  CASE kind = "header"    -> HeaderSize
    [] kind = "bitmap"    -> BitmapLen(BlockCount(capacity))
    [] kind = "entry"     -> EntrySize
    [] kind = "recipient" -> RecipientSlotSize
    [] kind = "chain"     -> ChainRecordSize
    [] kind = "block"     -> BlockSize

SlotCount(kind, capacity) ==
  CASE kind \in {"header", "bitmap"} -> 1
    [] kind = "entry"     -> MaxFileSlots(capacity)
    [] kind = "recipient" -> MaxRecipientSlots
    [] kind = "chain"     -> MaxChainRecords(capacity)
    [] kind = "block"     -> BlockCount(capacity)

RegionLen(kind, capacity) == SlotCount(kind, capacity) * SlotSize(kind, capacity)

(* The header's offsets: each region begins where the one before it ends.  *)
BitmapOffset == HeaderSize
FileTableOffset(capacity) == BitmapOffset + RegionLen("bitmap", capacity)
RecipientOffset(capacity) == FileTableOffset(capacity) + RegionLen("entry", capacity)
SlotsPerFile(capacity) ==                                               \* mutant
  RecipientOffset(capacity) + MaxFileSlots(capacity) * RecipientSlotSize
ChainOffset(capacity) == RecipientOffset(capacity) + RegionLen("recipient", capacity)
DataOffset(capacity) == ChainOffset(capacity) + RegionLen("chain", capacity)

RegionOffset(kind, capacity) ==
  CASE kind = "header"    -> 0
    [] kind = "bitmap"    -> BitmapOffset
    [] kind = "entry"     -> FileTableOffset(capacity)
    [] kind = "recipient" -> RecipientOffset(capacity)
    [] kind = "chain"     -> ChainOffset(capacity)
    [] kind = "block"     -> DataOffset(capacity)

TotalSize(capacity) == DataOffset(capacity) + BlockCount(capacity) * BlockSize

(* Slot i of a region, and the bytes it takes.                             *)
SlotOffset(kind, i, capacity) ==
  RegionOffset(kind, capacity) + i * SlotSize(kind, capacity)
SlotEnd(kind, i, capacity) == SlotOffset(kind, i, capacity) + SlotSize(kind, capacity)
===============================================================================
