------------------------------ MODULE FileLayout ------------------------------
(***************************************************************************)
(* How a file's content is laid over data blocks (store_new_content) and   *)
(* found again (collect_data_blocks, collect_all_blocks).                  *)
(*                                                                         *)
(* A file of `size' chunks takes one block per chunk.  The first Direct    *)
(* block numbers are in the file's table entry; the others are listed,     *)
(* PerIndex at a time, in a chain of index blocks that are allocated after *)
(* the data blocks.  Block number 0 as an overflow pointer means "none",   *)
(* although block 0 is an ordinary block.                                  *)
(*                                                                         *)
(* A size counts chunks of plain_chunk_len bytes.  What a block holds is   *)
(* encrypted under a key and bound to the file's id and the block number:  *)
(* a block only reads back under the key and the id it was written with.   *)
(* Nothing tells an index block from a block of data: data that is read as *)
(* an index block is taken for one if it parses, and then it points and    *)
(* lists wherever its bytes say.                                           *)
(***************************************************************************)
EXTENDS Allocator

CONSTANTS
  Direct,     \* DIRECT_BLOCKS: block numbers a table entry holds
  PerIndex,   \* index_block_capacity(): block numbers an index block holds
  IndexLike   \* the chunks, <<version, number>>, that parse as an index block, and as which

ASSUME DirectAssumption == Direct \in Nat \ {0}
ASSUME PerIndexAssumption == PerIndex \in Nat \ {0}
ASSUME IndexLikeAssumption ==
  \A c \in DOMAIN IndexLike : IndexLike[c].next \in Nat /\ IndexLike[c].list \in Seq(Nat)

AtMost(a, b) == IF a < b THEN a ELSE b

IndexBlocksNeeded(size) ==
  IF size <= Direct THEN 0 ELSE (size - Direct + PerIndex - 1) \div PerIndex
BlocksNeeded(size) == size + IndexBlocksNeeded(size)

(* The entry's pointers, given the blocks allocated for `size' chunks.     *)
DirectOf(blocks, size) == SubSeq(blocks, 1, AtMost(size, Direct))
OverflowAtLast(blocks, size) == IF size > Direct THEN blocks[size] ELSE 0     \* mutant
OverflowOf(blocks, size) == IF size > Direct THEN blocks[size + 1] ELSE 0

(* What each allocated block is to hold: the k-th chunk of content         *)
(* `version', or the k-th block is the (k - size)-th index block.          *)
Chunk(version, k) == [kind |-> "chunk", version |-> version, number |-> k]
Index(next, list) == [kind |-> "index", next |-> next, list |-> list]

BodyOf(blocks, size, version, k) ==
  IF k <= size
  THEN Chunk(version, k)
  ELSE LET first == Direct + (k - size - 1) * PerIndex + 1
           last  == AtMost(first + PerIndex - 1, size)
       IN  Index(IF k < Len(blocks) THEN blocks[k + 1] ELSE 0,
                 SubSeq(blocks, first, last))

Sealed(key, id, body) == [key |-> key, id |-> id, body |-> body]
NeverWritten == Sealed(-1, -1, Chunk(-1, 0))     \* a zeroed block decrypts under no key

(* read_physical_block succeeds: there is nothing to read past the end.    *)
Readable(store, key, id, b) ==
  b \in Blocks /\ store[b].key = key /\ store[b].id = id

(* read_index_block: the next block and the blocks listed.                 *)
Parses(body) ==
  body.kind = "index" \/ <<body.version, body.number>> \in DOMAIN IndexLike
Parsed(body) ==
  IF body.kind = "index" THEN body ELSE IndexLike[<<body.version, body.number>>]
ReadableIndex(store, key, id, b) ==
  Readable(store, key, id, b) /\ Parses(store[b].body)

(* The walk along the overflow chain from block b on: how it ends, all     *)
(* blocks met (index blocks and the blocks they list) and the data blocks. *)
(* Block 0 is never read as an index block, so a walk that is still        *)
(* reading after NumBlocks turns of the loop reads a block again and never *)
(* ends: the call that walks does not return, and has no step.             *)
OverflowWalk(store, key, id, overflow) ==
  LET walk[turns \in 0 .. NumBlocks] ==
        [b \in Nat |->
           IF b = 0 THEN [end |-> "reached", all |-> <<>>, data |-> <<>>]
           ELSE IF ~ReadableIndex(store, key, id, b)
           THEN [end |-> "error", all |-> <<b>>, data |-> <<>>]
           ELSE IF turns = 0
           THEN [end |-> "never", all |-> <<b>>, data |-> <<>>]
           ELSE LET here == Parsed(store[b].body)
                    rest == walk[turns - 1][here.next]
                IN  [end  |-> rest.end,
                     all  |-> <<b>> \o here.list \o rest.all,
                     data |-> here.list \o rest.data]]
  IN  walk[NumBlocks][overflow]

(* collect_all_blocks, and whether it returns without an error.            *)
CollectOk(store, key, e) == OverflowWalk(store, key, e.id, e.overflow).end = "reached"
AllBlocks(store, key, e) == e.direct \o OverflowWalk(store, key, e.id, e.overflow).all

(* collect_data_blocks: it also checks the number of blocks.               *)
DataBlocks(store, key, e) == e.direct \o OverflowWalk(store, key, e.id, e.overflow).data
CollectDataOk(store, key, e) ==
  CollectOk(store, key, e) /\ Len(DataBlocks(store, key, e)) = e.size

(* read_file returns the content that the entry's hash stands for.         *)
ReadsBack(store, key, e) ==
  \/ e.size = 0
  \/ /\ CollectDataOk(store, key, e)
     /\ \A k \in 1 .. e.size :
          LET b == DataBlocks(store, key, e)[k] IN
          /\ Readable(store, key, e.id, b)
          /\ store[b].body = Chunk(e.version, k)
===============================================================================
