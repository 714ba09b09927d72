------------------------------- MODULE HashChain -------------------------------
(***************************************************************************)
(* The integrity chain of a ReVault container: a ring buffer of Window     *)
(* records in the container file, and the pair (next sequence number, last *)
(* hash) that the header keeps about it.  The header exists twice: in the  *)
(* file and, while a vault handle is open, in the handle's memory.         *)
(*                                                                         *)
(* An append is two writes.  The record goes to its ring slot, the header  *)
(* in memory moves on, then the header in the file is rewritten.  Between  *)
(* the two the process may die, and either write may fail and leave the    *)
(* handle open.                                                            *)
(*                                                                         *)
(* Hash stands for SHA-256 over a record's fields.  A record's self-hash   *)
(* and its signature always hold here, because records are written whole   *)
(* and only by the admin.                                                  *)
(*                                                                         *)
(* In this and the other modules, a definition marked `mutant' is a slip   *)
(* that the code could have made.  It stands in for the definition after   *)
(* it when the properties are tested against it, and nothing refers to it. *)
(***************************************************************************)
EXTENDS Integers

CONSTANTS
  Window,          \* max_chain_records: slots in the ring
  MaxSeq,          \* bound: no record gets a sequence number above MaxSeq
  Payloads,        \* what a record attests: operation, target and data hash
  Hashes,          \* record hashes
  Hash(_, _, _),   \* the hash of a record: sequence number, previous hash, payload
  ZeroHash         \* the previous hash of the genesis record

ASSUME WindowAssumption == Window \in Nat \ {0}
ASSUME MaxSeqAssumption == MaxSeq \in Nat
ASSUME HashAssumption ==
  /\ ZeroHash \in Hashes
  /\ \A n \in 0 .. MaxSeq, h \in Hashes, p \in Payloads : Hash(n, h, p) \in Hashes

VARIABLES
  chain,      \* the ring in the file, by slot
  header,     \* chain_next_seq and chain_last_hash in the file's header
  cached,     \* the same pair in the open handle's header
  appending   \* the record of an append is in its slot, its header is not in the file

chainVars == <<chain, header, cached, appending>>

Slots == 0 .. Window - 1
SlotFromOne(n) == (n + 1) % Window                              \* mutant
SlotOf(n) == n % Window

Record == [seq : Nat, prev : Hashes, hash : Hashes]
NoRecord == [seq |-> -1, prev |-> ZeroHash, hash |-> ZeroHash]
Position == [next : Nat, last : Hashes]
Handle == [open : BOOLEAN, next : Nat, last : Hashes]
NoHandle == [open |-> FALSE, next |-> 0, last |-> ZeroHash]

RecordBehind(n, prev, payload) ==                               \* mutant
  [seq |-> n - 1, prev |-> prev, hash |-> Hash(n, prev, payload)]
NewRecord(n, prev, payload) == [seq |-> n, prev |-> prev, hash |-> Hash(n, prev, payload)]

HashChainTypeOK ==
  /\ chain \in [Slots -> Record \union {NoRecord}]
  /\ header \in Position
  /\ cached \in Handle
  /\ appending \in BOOLEAN

-------------------------------------------------------------------------------
(* A container as Vault::create leaves it, its handle open. *)
ChainInit ==
  \E payload \in Payloads :
    LET genesis == NewRecord(0, ZeroHash, payload) IN
    /\ chain = [i \in Slots |-> IF i = 0 THEN genesis ELSE NoRecord]
    /\ header = [next |-> 1, last |-> genesis.hash]
    /\ cached = [open |-> TRUE, next |-> 1, last |-> genesis.hash]
    /\ appending = FALSE

OpenWithoutAnchor ==                                            \* mutant
  /\ ~cached.open
  /\ cached' = [open |-> TRUE, next |-> header.next, last |-> ZeroHash]
  /\ UNCHANGED <<chain, header, appending>>

(* Vault::open and Vault::open_as_recipient read the header from the file. *)
OpenChain ==
  /\ ~cached.open
  /\ cached' = [open |-> TRUE, next |-> header.next, last |-> header.last]
  /\ UNCHANGED <<chain, header, appending>>

(* The handle is dropped, or its process dies, between any two writes. *)
CloseChain ==
  /\ cached.open
  /\ cached' = NoHandle
  /\ appending' = FALSE
  /\ UNCHANGED <<chain, header>>

(* append_signed_chain_record up to the header write: the record reaches   *)
(* its slot and the header in memory advances.                             *)
WriteRecord(payload) ==
  LET rec == NewRecord(cached.next, cached.last, payload) IN
  /\ cached.open
  /\ ~appending
  /\ cached.next <= MaxSeq
  /\ chain' = [chain EXCEPT ![SlotOf(rec.seq)] = rec]
  /\ cached' = [cached EXCEPT !.next = rec.seq + 1, !.last = rec.hash]
  /\ appending' = TRUE
  /\ UNCHANGED header

WriteHeaderWithoutAnchor ==                                     \* mutant
  /\ cached.open
  /\ header' = [header EXCEPT !.next = cached.next]
  /\ appending' = FALSE
  /\ UNCHANGED <<chain, cached>>

(* write_header: the whole header in memory replaces the one in the file.  *)
(* It ends an append; revoke_access also calls it on its own.              *)
WriteHeader ==
  /\ cached.open
  /\ header' = [next |-> cached.next, last |-> cached.last]
  /\ appending' = FALSE
  /\ UNCHANGED <<chain, cached>>

(* The header write of an append fails: the operation returns the error    *)
(* and the handle keeps the advanced header in memory.                     *)
HeaderWriteFails ==
  /\ appending
  /\ appending' = FALSE
  /\ UNCHANGED <<chain, header, cached>>

ChainNext ==
  \/ OpenChain
  \/ CloseChain
  \/ \E payload \in Payloads : WriteRecord(payload)
  \/ WriteHeader
  \/ HeaderWriteFails

ChainSpec == ChainInit /\ [][ChainNext]_chainVars

-------------------------------------------------------------------------------
(* verify_integrity's walk over the ring, from position h.                 *)
WindowTooLong(h) == IF h.next > Window THEN h.next - Window - 1 ELSE 0      \* mutant
Oldest(h) == IF h.next > Window THEN h.next - Window ELSE 0
Retained(h) == Oldest(h) .. h.next - 1
Kept(h) == {n \in Retained(h) : chain[SlotOf(n)] # NoRecord}

VerifyChain(h) ==
  /\ \A n \in Kept(h) : chain[SlotOf(n)].seq = n
  /\ \A m, n \in Kept(h) :
       m < n /\ (\A k \in Kept(h) : k <= m \/ k >= n)
         => chain[SlotOf(n)].prev = chain[SlotOf(m)].hash
  /\ \A n \in Kept(h) :
       (\A k \in Kept(h) : k <= n) => chain[SlotOf(n)].hash = h.last

(* A record whose header never reached position h: its append was cut off. *)
Torn(h) == {i \in Slots : chain[i] # NoRecord /\ chain[i].seq >= h.next}
Intact(n) == chain[SlotOf(n)].seq = n

-------------------------------------------------------------------------------
(* verify_integrity rejects the chain of an open handle only if some       *)
(* append was cut off between its record and its header: no sequence of    *)
(* completed appends, reopenings and wraps of the ring makes it fail.      *)
VerifyFailsOnlyIfTorn ==
  cached.open /\ Torn(cached) = {} => VerifyChain(cached)

(* A cut-off append damages the oldest end of the retained window only:    *)
(* behind the first intact record every younger one is intact, and they    *)
(* form one linked history.                                                *)
IntactSuffix(h) ==
  \A m, n \in Retained(h) : m < n /\ Intact(m) =>
    /\ Intact(n)
    /\ n = m + 1 => chain[SlotOf(n)].prev = chain[SlotOf(m)].hash
DamageIsOldest ==
  /\ IntactSuffix(header)
  /\ cached.open => IntactSuffix(cached)

(* The position in the file only moves forward, and the first record it    *)
(* moves past descends from the anchor it had: a header write never        *)
(* rewrites the history that an earlier one committed.                     *)
HistoryOnlyGrows ==
  [][ header' # header =>
        /\ header'.next > header.next
        /\ header'.next <= header.next + Window =>
             chain'[SlotOf(header.next)].prev = header.last ]_chainVars

-------------------------------------------------------------------------------
(* The inductive invariant behind them.  A position h describes the ring   *)
(* when every record is in its own slot and none is older than the window, *)
(* every retained slot holds its record or a younger one that was cut off, *)
(* only the oldest are lost, and the newest hashes to h's anchor.          *)
Resident(h) ==
  \A i \in Slots : chain[i] # NoRecord =>
    SlotOf(chain[i].seq) = i /\ chain[i].seq >= h.next - Window
Filled(h) ==
  \A n \in Retained(h) :
    chain[SlotOf(n)] # NoRecord /\ (Intact(n) \/ chain[SlotOf(n)].seq >= h.next)
Anchored(h) == Intact(h.next - 1) => chain[SlotOf(h.next - 1)].hash = h.last
Describes(h) ==
  h.next >= 1 /\ Resident(h) /\ Filled(h) /\ IntactSuffix(h) /\ Anchored(h)

(* The header in memory is the one in the file or a continuation of it.    *)
Continues ==
  /\ cached.next >= header.next
  /\ cached.next = header.next => cached.last = header.last
  /\ header.next < cached.next /\ cached.next <= header.next + Window =>
       chain[SlotOf(header.next)].prev = header.last

ChainInv ==
  /\ HashChainTypeOK
  /\ Describes(header)
  /\ cached.open => Describes(cached) /\ Continues
  /\ appending => cached.open
===============================================================================
