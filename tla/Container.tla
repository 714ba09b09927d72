-------------------------------- MODULE Container --------------------------------
(***************************************************************************)
(* The bytes of a container file: creation region by region, single        *)
(* records written at their offsets, writes that are cut off in the middle *)
(* of a record, and what the decoders make of what they find.              *)
(*                                                                         *)
(* A record is a row of fields of fixed widths.  What a field holds is     *)
(* reduced to which write it comes from; a digest holds the fields that it *)
(* was computed over, a bitmap byte its set bits.  The file is the         *)
(* sequence of the writes made to it: what a field reads as is decided by  *)
(* the last write over its bytes, so records that overlap would damage     *)
(* each other.  A bitmap's bytes are its fields.                           *)
(*                                                                         *)
(* Modules Vault and HashChain take records for atomic cells of the file;  *)
(* here is what makes them so.                                             *)
(***************************************************************************)
EXTENDS Layout, BlockBitmap, FiniteSetsExt

CONSTANTS
  Capacities,   \* capacities of the containers that are created
  Counts,       \* how many blocks are allocated at once
  MaxWrites,    \* bound: number of writes after creation
  MaxAsked      \* bound: number of calls on the allocator

ASSUME CapacitiesAssumption == \A c \in Capacities : ValidCapacity(c)
ASSUME WriteBounds == Counts \subseteq Nat /\ MaxWrites \in Nat /\ MaxAsked \in Nat

VARIABLES
  capacity,   \* capacity_bytes of the container
  region,     \* offset, slot size and slot count of each region, from the header
  disk,       \* the writes made to the file, in order
  open,       \* whether a handle is open
  bits,       \* the handle's allocator: its bytes
  writes,     \* writes after creation
  asked,      \* calls on the allocator
  occupied,   \* history: the blocks that the calls on the allocator leave occupied
  saved,      \* history: what the last whole write put in each slot
  cut,        \* history: what writes cut off since then were putting there
  cutIn       \* history: the step of create that was cut off, 0 for none

history == <<occupied, saved, cut, cutIn>>
containerVars == <<capacity, region, disk, open, bits, writes, asked, history>>

Blocks == BlockCount(capacity)
Pool == INSTANCE Allocator WITH NumBlocks <- Blocks

(* What create puts into the header about each region.                     *)
RegionsFor(c) ==
  [kind \in RegionKinds |->
     [offset |-> RegionOffset(kind, c), size |-> SlotSize(kind, c),
      count |-> SlotCount(kind, c)]]
SlotAt(kind, i) == region[kind].offset + i * region[kind].size

(* Slots at both ends of each region stand for all of them.                *)
Watched(kind) == {0, region[kind].count - 1}
RecordSlots == UNION {{kind} \X Watched(kind) : kind \in RegionKinds \ {"bitmap"}}
BitmapSlot == <<"bitmap", 0>>

-------------------------------------------------------------------------------
(* The encoders.  A digest covers all fields before it: the checksum of    *)
(* the header, of an entry and of a recipient slot, the hash and the       *)
(* signature of a chain record, the authentication tag of a block.         *)
Fixed(width) == [width |-> width, role |-> "fixed"]
Content(width) == [width |-> width, role |-> "content"]
Digest(width) == [width |-> width, role |-> "digest"]

HeaderFields ==
  << Fixed(12 + 24 + 424),                   \* magic to capacity, names, key derivation
     Content(66),                            \* admin key slot
     Fixed(64 + 88),                         \* admin's public keys, the regions
     Content(8 + 32),                        \* chain_next_seq, chain_last_hash
     Fixed(8), Digest(32) >>                 \* data_offset, checksum
EntryFields ==
  << Content(16 + 130),                      \* id, name
     Content(12 + 72 + 32 + 16 + 4),         \* size, block numbers, hash, times, flags
     Digest(4) >>
RecipientFields ==
  << Content(64 + 94), Content(8 + 4),       \* public keys, wrapped key; time, flags
     Digest(4) >>
ChainFields ==
  << Content(8 + 32 + 1 + 16 + 32 + 8),      \* seq, prev_hash, op, target, data hash, time
     Digest(32), Digest(64), Fixed(1) >>     \* record hash, signature, occupied
BlockFields == << Content(BlockSize - 16), Digest(16) >>
FieldsOf(kind) ==
  CASE kind = "header"    -> HeaderFields
    [] kind = "entry"     -> EntryFields
    [] kind = "recipient" -> RecipientFields
    [] kind = "chain"     -> ChainFields
    [] kind = "block"     -> BlockFields

RecordKinds == RegionKinds \ {"bitmap"}

(* Where each field starts: where the one before it ends.                  *)
Starts(fields) ==
  LET start[k \in DOMAIN fields] ==
        IF k = 1 THEN 0 ELSE start[k - 1] + fields[k - 1].width
  IN  start
FieldStarts ==
  [header |-> Starts(HeaderFields), entry |-> Starts(EntryFields),
   recipient |-> Starts(RecipientFields), chain |-> Starts(ChainFields),
   block |-> Starts(BlockFields)]

(* A write of version v of a record puts into field k the cell <<k, v>>,   *)
(* with version 0 for what never changes; create fills the chain with      *)
(* zeros, and write_bitmap puts a byte into each cell.                     *)
VersionOf(kind, v) == [kind |-> kind, version |-> v]
Zeros == [kind |-> "zeros"]
BytesOf(b) == [kind |-> "bitmap", bytes |-> b]

Hole == <<>>
Mixed == <<"mixed">>
CellIn(data, o) ==
  CASE data.kind = "zeros"  -> Hole
    [] data.kind = "bitmap" -> IF o \in DOMAIN data.bytes THEN <<0, data.bytes[o]>> ELSE Mixed
    [] OTHER ->
         LET k == {n \in DOMAIN FieldStarts[data.kind] : FieldStarts[data.kind][n] = o} IN
         IF k = {} THEN Mixed
         ELSE <<Max(k), IF FieldsOf(data.kind)[Max(k)].role = "fixed" THEN 0
                        ELSE data.version>>

-------------------------------------------------------------------------------
(* Reading.  The last write over a cell decides: its value if the write    *)
(* covered all of it, a mixture if only a part.  set_len has filled the    *)
(* file with zeros.                                                        *)
Over(o, w, among) ==
  {n \in among : disk[n].at < o + w /\ o < disk[n].at + disk[n].bytes}
CellAt(o, w, among) ==
  LET over == Over(o, w, among) IN
  IF over = {} THEN Hole
  ELSE LET d == disk[Max(over)] IN
       IF o >= d.at /\ o + w <= d.at + d.bytes
       THEN CellIn(d.data, (o - d.at) % d.stride)
       ELSE Mixed

Refused == -1
Empty == -2
Mixture == -3

(* The decoders: the checksums, and the hash and signature of a record     *)
(* that verify_integrity recomputes.  What no digest covers is taken as it *)
(* is.  A chain record whose marker is zero is no record.                  *)
With(role, fields) == {k \in DOMAIN fields : fields[k].role = role}
Agrees(cells, fields, j, v) == cells[j] = <<j, IF fields[j].role = "fixed" THEN 0 ELSE v>>

CoversAllButLast(k, j) == j < k - 1                                     \* mutant
Covers(k, j) == j < k
Sound(cells, fields) ==
  \A k \in With("digest", fields) :
    /\ cells[k] \notin {Hole, Mixed} /\ cells[k][1] = k
    /\ \A j \in DOMAIN fields : Covers(k, j) => Agrees(cells, fields, j, cells[k][2])

ZerosAreNoRecord(kind, cells) == Last(cells) = Hole                    \* mutant
NoRecordIn(kind, cells) == kind = "chain" /\ Last(cells) = Hole
Decode(kind, cells) ==
  LET fields == FieldsOf(kind)
      version == cells[Max(With("digest", fields))][2]
  IN  IF NoRecordIn(kind, cells) THEN Empty
      ELSE IF ~Sound(cells, fields) THEN Refused
      ELSE IF \A k \in With("content", fields) : Agrees(cells, fields, k, version)
      THEN version ELSE Mixture

Read(kind, i) ==
  LET at == SlotAt(kind, i)
      among == Over(at, region[kind].size, DOMAIN disk)
  IN  Decode(kind, [k \in DOMAIN FieldsOf(kind) |->
                      CellAt(at + FieldStarts[kind][k], FieldsOf(kind)[k].width, among)])

ReadBitmap ==
  LET byte(j) == CellAt(SlotAt("bitmap", 0) + j, 1, DOMAIN disk) IN
  FromBytes([j \in 0 .. BitmapLen(Blocks) - 1 |->
               IF Len(byte(j)) = 2 THEN byte(j)[2] ELSE {}], Blocks)

(* A lookup by name or by peer reads slot after slot, up to the one it     *)
(* looks for, and fails at the first that does not decode.                 *)
LookupWorks(kind) == \A i \in Watched(kind) : Read(kind, i) # Refused
Finds(kind, i) ==
  /\ Read(kind, i) > 0
  /\ \A j \in Watched(kind) : j < i => Read(kind, j) # Refused

-------------------------------------------------------------------------------
(* create: set_len, then one region after the other, written where the one *)
(* before it ended.  The genesis record precedes the empty ones.           *)
CreationOrder == <<"header", "bitmap", "entry", "recipient", "genesis", "chain">>
RegionWrite(step) ==
  LET kind == CreationOrder[step]
      size == IF kind = "genesis" THEN ChainRecordSize ELSE region[kind].size
      count == CASE kind = "genesis" -> 1
                 [] kind = "chain" -> region["chain"].count - 1
                 [] OTHER -> region[kind].count
      data == CASE kind = "bitmap" -> BytesOf(EmptyBits(Blocks))
                [] kind = "genesis" -> VersionOf("chain", 0)
                [] kind = "chain" -> Zeros
                [] OTHER -> VersionOf(kind, 0)
  IN  [at |-> IF disk = <<>> THEN 0 ELSE Last(disk).at + Last(disk).bytes,
       stride |-> size, data |-> data, bytes |-> count * size]

Created == cutIn = 0 /\ Len(disk) >= Len(CreationOrder)
Creating == cutIn = 0 /\ ~Created

LoseHandle ==
  /\ open' = FALSE
  /\ bits' = EmptyBits(Blocks)
  /\ occupied' = {}

CreateRegion ==
  /\ Creating
  /\ disk' = Append(disk, RegionWrite(Len(disk) + 1))
  /\ UNCHANGED <<capacity, region, open, bits, writes, asked, history>>

(* The process dies at the beginning of a region or in its last record.    *)
CreationCutOff ==
  /\ Creating
  /\ LET w == RegionWrite(Len(disk) + 1) IN
       \E bytes \in {0, w.bytes - w.stride \div 2 - 1} :
         disk' = Append(disk, [w EXCEPT !.bytes = bytes])
  /\ cutIn' = Len(disk) + 1
  /\ LoseHandle
  /\ UNCHANGED <<capacity, region, writes, asked, saved, cut>>

-------------------------------------------------------------------------------
(* write_at of one record, whole or up to a byte.  Every mutating call     *)
(* looks up a file in the table or a peer in the keyring before it writes: *)
(* one that takes a free slot reads all of them, and a revocation, which   *)
(* finds its peer, all entries as well.                                    *)
LookedUpIn(kind) ==
  CASE kind \in {"entry", "recipient"} -> {kind}
    [] kind \in {"bitmap", "block"} -> {"entry"}
    [] kind \in {"chain", "header"} -> {"entry", "recipient"}
CanWrite(kind, i) ==
  /\ open /\ ~Creating
  /\ \E table \in LookedUpIn(kind) :
       \/ LookupWorks(table)
       \/ \E found \in Watched(table) :
            /\ Finds(table, found) /\ (table = kind => found = i)
            /\ table = "recipient" => LookupWorks("entry")

WriteTo(kind, i, data, bytes) ==
  /\ writes' = writes + 1
  /\ disk' = Append(disk, [at |-> SlotAt(kind, i),
                           stride |-> region[kind].size,
                           data |-> data, bytes |-> bytes])
  /\ UNCHANGED <<capacity, region, asked, cutIn>>

Whole(slot, value) ==
  /\ saved' = [saved EXCEPT ![slot] = value]
  /\ cut' = [cut EXCEPT ![slot] = {}]
  /\ UNCHANGED <<open, bits, occupied>>
CutOff(slot, value) ==
  /\ cut' = [cut EXCEPT ![slot] = @ \union {value}]
  /\ LoseHandle
  /\ UNCHANGED saved

WriteRecord(kind) ==
  /\ writes < MaxWrites
  /\ \E i \in Watched(kind) :
       /\ CanWrite(kind, i)
       /\ WriteTo(kind, i, VersionOf(kind, writes + 1), region[kind].size)
       /\ Whole(<<kind, i>>, writes + 1)

(* ... the process dies in the middle of a field; half a field that does   *)
(* not change makes no difference.                                         *)
HalfWay(kind, k) ==
  LET field == FieldsOf(kind)[k] IN
  FieldStarts[kind][k] + (IF field.role = "fixed" THEN 0 ELSE field.width \div 2)
WriteCutOff(kind) ==
  /\ writes < MaxWrites
  /\ \E i \in Watched(kind), k \in DOMAIN FieldsOf(kind) :
       /\ CanWrite(kind, i)
       /\ WriteTo(kind, i, VersionOf(kind, writes + 1), HalfWay(kind, k))
       /\ CutOff(<<kind, i>>, writes + 1)

(* write_bitmap copies the allocator to the file, or some bytes of it.     *)
WriteBitmap ==
  /\ writes < MaxWrites /\ CanWrite("bitmap", 0)
  /\ WriteTo("bitmap", 0, BytesOf(bits), BitmapLen(Blocks))
  /\ Whole(BitmapSlot, occupied)

WriteBitmapCutOff ==
  /\ writes < MaxWrites /\ CanWrite("bitmap", 0)
  /\ \E bytes \in 0 .. BitmapLen(Blocks) - 1 : WriteTo("bitmap", 0, BytesOf(bits), bytes)
  /\ CutOff(BitmapSlot, occupied)

(* The calls on the allocator change the handle's memory.                  *)
Ask ==
  /\ asked < MaxAsked /\ CanWrite("bitmap", 0)
  /\ asked' = asked + 1
  /\ UNCHANGED <<capacity, region, disk, open, writes, saved, cut, cutIn>>

AllocateBlocks(count) ==
  /\ Ask
  /\ bits' = MarkBits(bits, Blocks, ToSet(AllocateBits(bits, Blocks, count)))
  /\ occupied' = occupied \union Pool!FirstFit(occupied, count)

FreeBlocks(indices) ==
  /\ Ask
  /\ bits' = ClearBits(bits, Blocks, indices)
  /\ occupied' = Pool!Free(occupied, indices)

(* open: the header has to decode; the bitmap is taken as it is.           *)
Open ==
  /\ ~open
  /\ Read("header", 0) # Refused
  /\ open' = TRUE
  /\ bits' = ReadBitmap
  /\ occupied' = OccupiedIn(bits', Blocks)
  /\ UNCHANGED <<capacity, region, disk, writes, asked, saved, cut, cutIn>>

Close ==
  /\ open /\ ~Creating
  /\ LoseHandle
  /\ UNCHANGED <<capacity, region, disk, writes, asked, saved, cut, cutIn>>

ContainerInit ==
  /\ capacity \in Capacities
  /\ region = RegionsFor(capacity)
  /\ disk = <<>>
  /\ open = TRUE
  /\ bits = EmptyBits(Blocks)
  /\ writes = 0
  /\ asked = 0
  /\ occupied = {}
  /\ saved = [s \in RecordSlots \union {BitmapSlot} |->
                CASE s = BitmapSlot -> {}
                  [] s[1] = "block" -> Refused
                  [] s[1] = "chain" /\ s[2] > 0 -> Empty
                  [] OTHER -> 0]
  /\ cut = [s \in RecordSlots \union {BitmapSlot} |-> {}]
  /\ cutIn = 0

ContainerNext ==
  \/ CreateRegion
  \/ CreationCutOff
  \/ \E kind \in RecordKinds : WriteRecord(kind) \/ WriteCutOff(kind)
  \/ WriteBitmap
  \/ WriteBitmapCutOff
  \/ \E count \in Counts : AllocateBlocks(count)
  \/ occupied # {} /\ (FreeBlocks({Min(occupied)}) \/ FreeBlocks(occupied \ {Min(occupied)}))
  \/ Open
  \/ Close

ContainerSpec == ContainerInit /\ [][ContainerNext]_containerVars

-------------------------------------------------------------------------------
ContainerTypeOK ==
  /\ capacity \in Capacities
  /\ region = RegionsFor(capacity)
  /\ open \in BOOLEAN
  /\ bits \in Bitmaps(Blocks)
  /\ writes \in 0 .. MaxWrites
  /\ asked \in 0 .. MaxAsked
  /\ occupied \subseteq 0 .. Blocks - 1
  /\ DOMAIN saved = RecordSlots \union {BitmapSlot}
  /\ DOMAIN cut = DOMAIN saved
  /\ cutIn \in 0 .. Len(CreationOrder)

(* Records are apart: no region reaches into another or beyond the end     *)
(* that total_container_size gives the file (Vault::create).               *)
RegionEnd(kind) == SlotAt(kind, region[kind].count)
RecordsApart ==
  \A k, l \in RegionKinds :
    /\ RegionEnd(k) <= TotalSize(capacity)
    /\ k # l => RegionEnd(k) <= SlotAt(l, 0) \/ RegionEnd(l) <= SlotAt(k, 0)

(* A record of a complete container reads as the last write put it there,  *)
(* whatever has been written before, after and next to it; one over which  *)
(* a write was cut off reads as one of the two or is refused, and never as *)
(* a mixture.  A header that is refused is what no call can repair: there  *)
(* is no second one.                                                       *)
RecordsReadBack ==
  Created => \A s \in RecordSlots :
    Read(s[1], s[2]) \in
      {saved[s]} \union (IF cut[s] = {} THEN {} ELSE cut[s] \union {Refused})

(* The bitmap has no checksum: one that was cut off is opened, and marks   *)
(* every block that all the copies marked that were being written since    *)
(* the last whole one, and no block that none of them did.                 *)
BitmapReadsBetween ==
  Created =>
    LET marked == OccupiedIn(ReadBitmap, Blocks)
        copies == cut[BitmapSlot] \union {saved[BitmapSlot]}
    IN  marked \subseteq UNION copies /\ \A b \in 0 .. Blocks - 1 :
          (\A c \in copies : b \in c) => b \in marked

(* The allocator's bytes always say what the allocator of the vault's      *)
(* model says.                                                             *)
BitsAreTheSet == OccupiedIn(bits, Blocks) = occupied

(* What is left of a container whose creation was cut off.  Cut off in its *)
(* header, it does not open.  Cut off before its table was complete, every *)
(* lookup of a file fails in the slots that were never written, and before *)
(* its keyring was, every lookup of a peer: whatever is tried on it, no    *)
(* file is ever found in it, or no peer.  Cut off behind its table, it     *)
(* opens and its files can be used like those of any other vault, as long  *)
(* as no write to the header or the table is cut off; if it is the keyring *)
(* that was cut off, it is a vault to which nobody can be given access.    *)
NothingFoundIn(kind) ==
  ~LookupWorks(kind) /\ \A i \in Watched(kind) : ~Finds(kind, i)
HalfCreatedWorksInPart ==
  /\ cutIn = 1 => Read("header", 0) = Refused
  /\ cutIn \in 1 .. 3 => NothingFoundIn("entry")
  /\ cutIn \in 1 .. 4 => NothingFoundIn("recipient")
  /\ cutIn \in 4 .. 6 => \A s \in RecordSlots :
       s[1] \in {"header", "entry"} /\ cut[s] = {} => Read(s[1], s[2]) = saved[s]
===============================================================================
