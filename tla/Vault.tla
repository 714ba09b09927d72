--------------------------------- MODULE Vault ---------------------------------
(***************************************************************************)
(* A ReVault container file and the one handle (core::vault::Vault) that   *)
(* may be open on it.                                                      *)
(*                                                                         *)
(* A mutating call first reads what it needs and checks its arguments,     *)
(* then makes a sequence of writes to the file, one region at a time.  The *)
(* model starts a call in one step, which puts the writes still to be made *)
(* in `todo' in the order in which the code makes them, and then makes one *)
(* write per step.  Between two writes the process may die, and a write    *)
(* may fail, which returns the call and leaves the handle open with what   *)
(* it has in memory.  A call that returns an error before its first write  *)
(* changes nothing and has no step.                                        *)
(*                                                                         *)
(* A write is atomic and writes reach the file in order: a torn sector and *)
(* a write reordered by the disk are outside the model.  Every call that   *)
(* starts gets the next number: the fresh file id, content, key or hash it *)
(* generates is that number.                                               *)
(*                                                                         *)
(* The container is the admin's own.  What apply_remote_patch writes to a  *)
(* peer's replica, through a handle without admin rights, is in module     *)
(* Replication.                                                            *)
(***************************************************************************)
EXTENDS HashChain, FileLayout

CONSTANTS
  MaxFiles,        \* max_files: slots of the file table
  MaxRecipients,   \* max_recipients: slots of the keyring
  Names,           \* file names
  NoName,
  Peers,           \* peer identities
  NoPeer,
  Passwords,       \* what may be typed as the admin password
  AdminPassword,   \* the password the vault was created with
  Sizes,           \* sizes of the contents stored, in chunks
  MaxCalls,        \* bound: number of mutating calls
  MaxFaults,       \* bound: number of faults
  FaultPoints      \* <<call, region>>: where a call may be cut off by a fault

ASSUME MaxFilesAssumption == MaxFiles \in Nat \ {0}
ASSUME MaxRecipientsAssumption == MaxRecipients \in Nat \ {0}
ASSUME NamesAssumption == NoName \notin Names /\ NoPeer \notin Peers
ASSUME PasswordsAssumption == AdminPassword \in Passwords
ASSUME SizesAssumption == Sizes \subseteq Nat
ASSUME BoundsAssumption ==
  /\ MaxCalls \in Nat /\ MaxFaults \in Nat
  /\ MaxCalls <= MaxSeq
  /\ Payloads = 0 .. MaxCalls

VARIABLES
  adminSlot,   \* in the file: admin_key_slot of the header
  bitmap,      \* in the file: the allocator's bits
  table,       \* in the file: the file table
  keyring,     \* in the file: the recipient slots
  store,       \* in the file: the data blocks
  handle,      \* the open handle: key, allocator, cached admin slot, admin rights
  changeLog,   \* the handle's change log, as the set of the regions written
  doing,       \* the call in progress
  todo,        \* the writes it still has to make
  calls,       \* calls started so far
  faults,      \* faults so far
  held,        \* history, read by no action: the keys ever wrapped for each peer
  hurt         \* history, read by no action: the files that a fault may have damaged

fileVars == <<adminSlot, bitmap, table, keyring, store>>
callVars == <<doing, todo, calls>>
history == <<held, hurt>>
vaultVars == <<chainVars, fileVars, handle, changeLog, callVars, faults, history>>

FileSlots == 0 .. MaxFiles - 1
RecipientSlots == 0 .. MaxRecipients - 1
Calls == {"add", "update", "delete", "grant", "revoke"}
Regions == {"block", "bitmap", "slot", "recipient", "keyslot", "chain", "header"}

Keys == 0 .. MaxCalls
Ids == 1 .. MaxCalls
Entry == [listed : BOOLEAN, name : Names, id : Ids, version : Ids, size : Sizes,
          direct : Seq(Blocks), overflow : Blocks]
NoEntry == [listed |-> FALSE, name |-> NoName, id |-> 0, version |-> 0, size |-> 0,
            direct |-> <<>>, overflow |-> 0]
NoRecipient == [peer |-> NoPeer, dek |-> 0]
AdminSlot == [password : Passwords, dek : Keys]
NoCall == [call |-> "none", name |-> NoName]
NoVault == [admin |-> FALSE, key |-> 0, alloc |-> {},
            adminSlot |-> [password |-> AdminPassword, dek |-> 0]]

-------------------------------------------------------------------------------
(* Lookups in the file table and the keyring.                              *)
ListedSlots == {i \in FileSlots : table[i].listed}
SlotsNamed(n) == {i \in ListedSlots : table[i].name = n}
FreeSlots == FileSlots \ ListedSlots
SlotByName(n) == Min(SlotsNamed(n))
GrantedSlots == {i \in RecipientSlots : keyring[i].peer # NoPeer}
SlotsOfPeer(p) == {i \in GrantedSlots : keyring[i].peer = p}

(* The content key: the open handle's, or the one the admin slot wraps.    *)
CurrentKey == IF cached.open THEN handle.key ELSE adminSlot.dek
BlocksOf(e) == ToSet(AllBlocks(store, CurrentKey, e))

(* The writes of a call.  Those that follow a change of the allocator in   *)
(* memory carry its new bits.                                              *)
BlockWrite(b, sealed, bits) ==
  [region |-> "block", at |-> b, value |-> sealed, bits |-> bits]
BitmapWrite(bits) == [region |-> "bitmap", at |-> 0, bits |-> bits]
SlotWrite(i, entry) == [region |-> "slot", at |-> i, value |-> entry]
RecipientWrite(i, recipient) == [region |-> "recipient", at |-> i, value |-> recipient]
KeySlotWrite(slot) == [region |-> "keyslot", at |-> 0, value |-> slot]
AppendWrites == <<[region |-> "chain", at |-> 0], [region |-> "header", at |-> 0]>>

(* store_new_content: data blocks, index blocks, bitmap.                   *)
StoreBlocks(bits, size) == Allocate(bits, BlocksNeeded(size))
StoreWrites(bits, id, size, version) ==
  LET blocks == StoreBlocks(bits, size)
      after  == MarkOccupied(bits, ToSet(blocks))
  IN  [k \in 1 .. Len(blocks) |->
         BlockWrite(blocks[k],
                    Sealed(handle.key, id, BodyOf(blocks, size, version, k)), after)]
      \o <<BitmapWrite(after)>>

(* The entry is written when the content is stored.                        *)
EntryFirst(i, entry, writes) == <<SlotWrite(i, entry)>> \o writes        \* mutant
ThenEntry(i, entry, writes) == writes \o <<SlotWrite(i, entry)>>

NewEntry(n, id, size, version, blocks) ==
  [listed |-> TRUE, name |-> n, id |-> id, version |-> version, size |-> size,
   direct |-> DirectOf(blocks, size), overflow |-> OverflowOf(blocks, size)]

(* revoke_access: the blocks of the file in slot i, written again under    *)
(* the key `new'.                                                          *)
ResealEach(i, blocks, new) ==
  [k \in 1 .. Len(blocks) |->
     LET b == blocks[k] IN
     BlockWrite(b, Sealed(new, table[i].id, store[b].body), handle.alloc)]
ResealDataBlocks(i, new) ==                                     \* mutant
  ResealEach(i, DataBlocks(store, handle.key, table[i]), new)
ResealWrites(i, new) ==
  ResealEach(i, AllBlocks(store, handle.key, table[i]), new)
ResealAll(new) ==
  FlattenSeq([i \in 1 .. MaxFiles |->
    IF i - 1 \in ListedSlots THEN ResealWrites(i - 1, new) ELSE <<>>])

(* ... the revoked slot is emptied, then `new' is wrapped for the others.  *)
Rewrap(slots, new) ==
  FlattenSeq([i \in 1 .. MaxRecipients |->
    IF i - 1 \in slots
    THEN <<RecipientWrite(i - 1, [keyring[i - 1] EXCEPT !.dek = new])>> ELSE <<>>])
RewrapThenDrop(revoked, new) ==                                 \* mutant
  Rewrap(GrantedSlots, new) \o <<RecipientWrite(revoked, NoRecipient)>>
KeyringWrites(revoked, new) ==
  <<RecipientWrite(revoked, NoRecipient)>> \o Rewrap(GrantedSlots \ {revoked}, new)

-------------------------------------------------------------------------------
(* The calls.                                                              *)
Idle == cached.open /\ todo = <<>>
CanMutate == Idle /\ handle.admin /\ calls < MaxCalls

Begin(call, name, writes) ==
  /\ doing' = [call |-> call, name |-> name]
  /\ todo' = writes
  /\ calls' = calls + 1
  /\ hurt' = IF call \in {"update", "delete"} /\ name \in hurt THEN Names ELSE hurt
  /\ UNCHANGED <<chainVars, fileVars, changeLog, faults, held>>

AddFile(n, size) ==
  LET new == calls + 1
      slot == Min(FreeSlots)
      blocks == StoreBlocks(handle.alloc, size)
  IN
  /\ CanMutate
  /\ SlotsNamed(n) = {}
  /\ FreeSlots # {}
  /\ FreeCount(handle.alloc) >= BlocksNeeded(size)
  /\ Begin("add", n,
           ThenEntry(slot, NewEntry(n, new, size, new, blocks),
                     StoreWrites(handle.alloc, new, size, new))
           \o AppendWrites)
  /\ UNCHANGED handle

(* The old blocks are freed in the bitmap of the file before the new       *)
(* content is stored, under the id that the file already has.  Storing     *)
(* checks for space once more: the first check takes all the old blocks    *)
(* for occupied ones.                                                      *)
UpdateFile(n, size) ==
  LET new == calls + 1
      slot == SlotByName(n)
      old == table[slot]
      oldBlocks == AllBlocks(store, handle.key, old)
      freed == Free(handle.alloc, ToSet(oldBlocks))
      blocks == StoreBlocks(freed, size)
  IN
  /\ CanMutate
  /\ SlotsNamed(n) # {}
  /\ CollectOk(store, handle.key, old)
  /\ FreeCount(handle.alloc) + Len(oldBlocks) >= BlocksNeeded(size)
  /\ Begin("update", n,
           <<BitmapWrite(freed)>>
           \o IF FreeCount(freed) < BlocksNeeded(size)
              THEN <<>>
              ELSE ThenEntry(slot, NewEntry(n, old.id, size, new, blocks),
                             StoreWrites(freed, old.id, size, new))
                   \o AppendWrites)
  /\ UNCHANGED handle

DeleteFile(n) ==
  LET slot == SlotByName(n)
      old == table[slot]
      freed == Free(handle.alloc, BlocksOf(old))
  IN
  /\ CanMutate
  /\ SlotsNamed(n) # {}
  /\ CollectOk(store, handle.key, old)
  /\ Begin("delete", n,
           <<BitmapWrite(freed), SlotWrite(slot, [old EXCEPT !.listed = FALSE])>>
           \o AppendWrites)
  /\ UNCHANGED handle

GrantAccess(p) ==
  LET free == RecipientSlots \ GrantedSlots IN
  /\ CanMutate
  /\ SlotsOfPeer(p) = {}
  /\ free # {}
  /\ Begin("grant", NoName,
           <<RecipientWrite(Min(free), [peer |-> p, dek |-> handle.key])>>
           \o AppendWrites)
  /\ UNCHANGED handle

(* The new key replaces the one in memory before anything is written, then *)
(* every block in use is written again under it, the keyring follows, and  *)
(* the header last.  The password is used as typed.                        *)
RevokeAccess(p, password) ==
  LET new == calls + 1
      revoked == Min(SlotsOfPeer(p))
  IN
  /\ CanMutate
  /\ SlotsOfPeer(p) # {}
  /\ \A i \in ListedSlots :
       /\ CollectOk(store, handle.key, table[i])
       /\ \A b \in BlocksOf(table[i]) : Readable(store, handle.key, table[i].id, b)
  /\ Begin("revoke", NoName,
           ResealAll(new)
           \o KeyringWrites(revoked, new)
           \o <<KeySlotWrite([password |-> password, dek |-> new])>>
           \o AppendWrites)
  /\ handle' = [handle EXCEPT !.key = new]

-------------------------------------------------------------------------------
(* One write of the call in progress: write_at.                            *)
Written(w) == <<w.region, w.at>>

Advance(w) ==
  /\ todo' = Tail(todo)
  /\ doing' = IF Len(todo) = 1 THEN NoCall ELSE doing
  /\ changeLog' = changeLog \union {Written(w)}
  /\ held' = IF w.region = "recipient" /\ w.value # NoRecipient
             THEN [held EXCEPT ![w.value.peer] = @ \union {w.value.dek}]
             ELSE held
  /\ UNCHANGED <<calls, faults, hurt>>

WriteBlock(w) ==
  /\ w.region = "block"
  /\ store' = [store EXCEPT ![w.at] = w.value]
  /\ handle' = [handle EXCEPT !.alloc = w.bits]
  /\ UNCHANGED <<chainVars, adminSlot, bitmap, table, keyring>>

WriteBitmap(w) ==
  /\ w.region = "bitmap"
  /\ bitmap' = w.bits
  /\ handle' = [handle EXCEPT !.alloc = w.bits]
  /\ UNCHANGED <<chainVars, adminSlot, table, keyring, store>>

WriteSlot(w) ==
  /\ w.region = "slot"
  /\ table' = [table EXCEPT ![w.at] = w.value]
  /\ UNCHANGED <<chainVars, adminSlot, bitmap, keyring, store, handle>>

WriteRecipient(w) ==
  /\ w.region = "recipient"
  /\ keyring' = [keyring EXCEPT ![w.at] = w.value]
  /\ UNCHANGED <<chainVars, adminSlot, bitmap, table, store, handle>>

WriteKeySlot(w) ==
  /\ w.region = "keyslot"
  /\ adminSlot' = w.value
  /\ handle' = [handle EXCEPT !.adminSlot = w.value]
  /\ WriteHeader
  /\ UNCHANGED <<bitmap, table, keyring, store>>

WriteChainRecord(w) ==
  /\ w.region = "chain"
  /\ WriteRecord(calls)
  /\ UNCHANGED <<fileVars, handle>>

WriteAppendHeader(w) ==
  /\ w.region = "header"
  /\ WriteHeader
  /\ adminSlot' = handle.adminSlot
  /\ UNCHANGED <<bitmap, table, keyring, store, handle>>

Write ==
  /\ todo # <<>>
  /\ LET w == Head(todo) IN
       /\ Advance(w)
       /\ \/ WriteBlock(w)
          \/ WriteBitmap(w)
          \/ WriteSlot(w)
          \/ WriteRecipient(w)
          \/ WriteKeySlot(w)
          \/ WriteChainRecord(w)
          \/ WriteAppendHeader(w)

(* The write by which a call takes effect: of a table entry, of a new      *)
(* recipient slot or of an emptied one.                                    *)
TakesEffect(w) ==
  \/ w.region = "slot"
  \/ w.region = "recipient" /\ (doing.call = "grant" \/ w.value = NoRecipient)
Pending == \E k \in 1 .. Len(todo) : TakesEffect(todo[k])

(* What a fault at this point may damage.  An update or a deletion has     *)
(* freed the blocks of an entry that still stands; a revocation has blocks *)
(* under a key that only the memory knows.  Calling update or delete on a  *)
(* damaged file frees blocks that may be another file's by now: see Begin. *)
HurtByFault ==
  CASE doing.call \in {"update", "delete"} /\ Pending -> {doing.name}
    [] doing.call = "revoke" /\ \E k \in 1 .. Len(todo) : todo[k].region = "keyslot" -> Names
    [] OTHER -> {}

(* The write fails: the call returns the error and leaves the rest undone. *)
(* The handle stays open with what the call had changed in memory.         *)
WriteFails ==
  /\ todo # <<>>
  /\ faults < MaxFaults
  /\ LET w == Head(todo) IN
       /\ <<doing.call, w.region>> \in FaultPoints
       /\ handle' = CASE w.region \in {"block", "bitmap"} -> [handle EXCEPT !.alloc = w.bits]
                      [] w.region = "keyslot" -> [handle EXCEPT !.adminSlot = w.value]
                      [] OTHER -> handle
       /\ IF w.region = "header" THEN HeaderWriteFails ELSE UNCHANGED chainVars
  /\ todo' = <<>>
  /\ doing' = NoCall
  /\ faults' = faults + 1
  /\ hurt' = hurt \union HurtByFault
  /\ UNCHANGED <<fileVars, changeLog, calls, held>>

(* The process dies before the next write.                                 *)
Crash ==
  /\ todo # <<>>
  /\ faults < MaxFaults
  /\ <<doing.call, Head(todo).region>> \in FaultPoints
  /\ CloseChain
  /\ handle' = NoVault
  /\ todo' = <<>>
  /\ doing' = NoCall
  /\ changeLog' = {}
  /\ faults' = faults + 1
  /\ hurt' = hurt \union HurtByFault
  /\ UNCHANGED <<fileVars, calls, held>>

-------------------------------------------------------------------------------
(* Opening and closing the handle, and draining its change log.            *)
OpenWithEmptyBitmap(key, admin) ==                              \* mutant
  /\ OpenChain
  /\ handle' = [admin |-> admin, key |-> key, alloc |-> {}, adminSlot |-> adminSlot]
  /\ UNCHANGED <<fileVars, changeLog, callVars, faults, history>>

OpenWith(key, admin) ==
  /\ OpenChain
  /\ handle' = [admin |-> admin, key |-> key, alloc |-> bitmap, adminSlot |-> adminSlot]
  /\ UNCHANGED <<fileVars, changeLog, callVars, faults, history>>

(* Vault::open: the identity file of the device decides on admin rights.   *)
Open(password, admin) ==
  /\ password = adminSlot.password
  /\ OpenWith(adminSlot.dek, admin)

OpenAsRecipient(p) ==
  /\ SlotsOfPeer(p) # {}
  /\ OpenWith(keyring[Min(SlotsOfPeer(p))].dek, FALSE)

Close ==
  /\ Idle
  /\ CloseChain
  /\ handle' = NoVault
  /\ changeLog' = {}
  /\ UNCHANGED <<fileVars, callVars, faults, history>>

TakeChangeLog ==
  /\ Idle
  /\ changeLog # {}
  /\ changeLog' = {}
  /\ UNCHANGED <<chainVars, fileVars, handle, callVars, faults, history>>

VaultInit ==
  /\ ChainInit
  /\ cached.last = Hash(0, ZeroHash, 0)
  /\ adminSlot = [password |-> AdminPassword, dek |-> 0]
  /\ bitmap = {}
  /\ table = [i \in FileSlots |-> NoEntry]
  /\ keyring = [i \in RecipientSlots |-> NoRecipient]
  /\ store = [b \in Blocks |-> NeverWritten]
  /\ handle = [admin |-> TRUE, key |-> 0, alloc |-> {}, adminSlot |-> adminSlot]
  /\ changeLog = {}
  /\ doing = NoCall
  /\ todo = <<>>
  /\ calls = 0
  /\ faults = 0
  /\ held = [p \in Peers |-> {}]
  /\ hurt = {}

VaultNext ==
  \/ \E n \in Names, size \in Sizes : AddFile(n, size) \/ UpdateFile(n, size)
  \/ \E n \in Names : DeleteFile(n)
  \/ \E p \in Peers : GrantAccess(p)
  \/ \E p \in Peers, password \in Passwords : RevokeAccess(p, password)
  \/ Write
  \/ WriteFails
  \/ Crash
  \/ \E password \in Passwords, admin \in BOOLEAN : Open(password, admin)
  \/ \E p \in Peers : OpenAsRecipient(p)
  \/ Close
  \/ TakeChangeLog

VaultSpec == VaultInit /\ [][VaultNext]_vaultVars

-------------------------------------------------------------------------------
AtRest == todo = <<>>
KeysWrapped == {adminSlot.dek} \union {keyring[i].dek : i \in GrantedSlots}

VaultTypeOK ==
  /\ HashChainTypeOK
  /\ adminSlot \in AdminSlot
  /\ bitmap \subseteq Blocks
  /\ \A i \in FileSlots : table[i] \in Entry \union {NoEntry}
  /\ \A i \in RecipientSlots : keyring[i] \in [peer : Peers, dek : Keys] \union {NoRecipient}
  /\ \A b \in Blocks :
       store[b] = NeverWritten \/ (store[b].key \in Keys /\ store[b].id \in Ids)
  /\ handle \in [admin : BOOLEAN, key : Keys, alloc : SUBSET Blocks, adminSlot : AdminSlot]
  /\ changeLog \subseteq Regions \X Nat
  /\ doing \in [call : Calls \union {"none"}, name : Names \union {NoName}]
  /\ \A k \in 1 .. Len(todo) : todo[k].region \in Regions
  /\ calls \in 0 .. MaxCalls
  /\ faults \in 0 .. MaxFaults
  /\ held \in [Peers -> SUBSET Keys]
  /\ hurt \subseteq Names

(* Between calls, everyone who holds a key -- the open handle, the admin   *)
(* slot, every granted peer -- reads every listed file back as it was last *)
(* stored: all files if every call ran to its end or was cut off where     *)
(* nothing is lost, and otherwise all but those of the calls cut off.      *)
SoundSlots == {i \in ListedSlots : table[i].name \notin hurt}
KeyholdersReadAllFiles ==
  AtRest =>
    \A key \in KeysWrapped \union {CurrentKey} :
      \A i \in SoundSlots : ReadsBack(store, key, table[i])

(* Revocation is strict: between calls, a peer that is not granted reads   *)
(* nothing of what the sound files hold now, whichever keys were ever      *)
(* wrapped for it -- unless a fault has hurt all files, as one during a    *)
(* revocation does.  Of a hurt file nothing is promised: its entry may     *)
(* name blocks that a later file was given and that a fault left half      *)
(* written, so that a walk along it meets what an older key still reads.   *)
RevokedPeersReadNothing ==
  AtRest /\ hurt # Names =>
    \A p \in Peers : SlotsOfPeer(p) = {} =>
      /\ CurrentKey \notin held[p]
      /\ \A i \in SoundSlots : \A b \in BlocksOf(table[i]) : store[b].key \notin held[p]

(* Between calls, no block belongs to two files or twice to one, and every *)
(* block of a file is marked in the bitmap of the file and of the handle,  *)
(* except for what calls were cut off on.  As long as nothing failed, no   *)
(* other block is marked.                                                  *)
BlocksAccountedFor ==
  AtRest =>
    LET marked == IF cached.open THEN bitmap \intersect handle.alloc ELSE bitmap
        inUse  == UNION {BlocksOf(table[i]) : i \in SoundSlots}
    IN
    /\ \A i \in SoundSlots : IsInjective(AllBlocks(store, CurrentKey, table[i]))
    /\ \A i, j \in SoundSlots : i # j => BlocksOf(table[i]) \intersect BlocksOf(table[j]) = {}
    /\ inUse \subseteq marked
    /\ faults = 0 => bitmap = inUse /\ (cached.open => handle.alloc = inUse)

(* Between calls, when walks begin, a walk along the overflow chain of a   *)
(* listed file only goes round for ever if a fault cut off a call on that  *)
(* file and the walk meets data that parses as an index block: index       *)
(* blocks point to higher blocks or to none, those that old entries still  *)
(* lead to included, and nothing else is ever on a sound file's chain.     *)
EndlessWalksAreMisled ==
  AtRest =>
    \A key \in KeysWrapped \union {CurrentKey}, i \in ListedSlots :
      LET walk == OverflowWalk(store, key, table[i].id, table[i].overflow) IN
      walk.end = "never" =>
        /\ table[i].name \in hurt
        /\ \E b \in ToSet(walk.all) \intersect Blocks :
             store[b].body.kind = "chunk" /\ Parses(store[b].body)

(* verify_integrity accepts every vault at rest in which no append was cut *)
(* off and no file was hurt.                                               *)
VerifyIntegrity ==
  VerifyChain(cached) /\ \A i \in ListedSlots : ReadsBack(store, handle.key, table[i])
HealthyVaultVerifies == Idle /\ Torn(cached) = {} /\ hurt = {} => VerifyIntegrity

(* Adding, updating or deleting one file leaves the table entry and the    *)
(* blocks of every other file as they are, of all that are not hurt.       *)
SpareOtherFiles(slots) ==
  \A i \in slots : table[i].name # doing.name =>
    /\ table'[i] = table[i]
    /\ \A b \in BlocksOf(table[i]) \intersect Blocks : store'[b] = store[b]
OtherFilesUntouched == [][ doing.name # NoName => SpareOtherFiles(SoundSlots) ]_vaultVars

(* update_file by itself: "only this file's blocks and its single          *)
(* file-table slot are touched".                                           *)
UpdateTouchesOnlyItsFile == [][ doing.call = "update" => SpareOtherFiles(ListedSlots) ]_vaultVars

(* No block is overwritten with other content under the same key and file  *)
(* id: the nonce of a block is derived from the id and the block number    *)
(* alone, so that would use a nonce twice.                                 *)
NonceFresh ==
  [][ \A b \in Blocks :
        store'[b] # store[b] /\ store[b] # NeverWritten =>
          <<store'[b].key, store'[b].id>> # <<store[b].key, store[b].id>> ]_vaultVars

(* The password the vault was created with opens it.                       *)
AdminPasswordOpens == AtRest => adminSlot.password = AdminPassword

-------------------------------------------------------------------------------
(* What a user sees of the container.  Until a call takes effect nobody    *)
(* can look at the file that it is replacing, and during a revocation at   *)
(* none: the one handle is busy.  A hurt file counts as lost, even where   *)
(* it can still be read for a while.                                       *)
Unreadable == -1
LostFile == -2
VisibleFile(n) ==
  IF n \in hurt THEN LostFile
  ELSE IF SlotsNamed(n) = {} THEN 0
  ELSE LET e == table[SlotByName(n)] IN
       IF \/ doing.call = "revoke"
          \/ Pending /\ doing.name = n
          \/ \A key \in KeysWrapped \union {CurrentKey} : ReadsBack(store, key, e)
       THEN e.version
       ELSE Unreadable
VisibleReaders ==
  {p \in Peers : hurt # Names /\ \E i \in SlotsOfPeer(p) :
     doing.call = "revoke" \/ keyring[i].dek = CurrentKey}

Promise == INSTANCE VaultPromise WITH
  files <- [n \in Names |-> VisibleFile(n)],
  readers <- VisibleReaders,
  call <- calls,
  pending <- Pending,
  atRisk <- HurtByFault \ hurt

(* The container implements the promise: whatever the order of calls,      *)
(* faults and reopenings, each call takes effect in one write or never,    *)
(* every file reads back as the last call to store it left it, and a cut   *)
(* off call loses no more than what the promise says it puts at risk.      *)
KeepsPromise == Promise!PromiseSpec
===============================================================================
