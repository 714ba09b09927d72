# A TLA+ model of ReVault

ReVault keeps files in one encrypted container file, lets its admin grant and revoke access for peers, and hands replicas of the container to those peers over the network.
This directory holds TLA+ modules for its core, the TLC configurations that check them on small instances, and proofs that TLAPS checks.
Paths below are relative to the repository.

## The system

| part | code | state | operations | interacts with |
|---|---|---|---|---|
| integrity chain | `src/core/vault.rs`, `src/core/format.rs` | ring of signed records in the file, next sequence number and last hash in the header, once in the file and once in memory | append, header write, read at open, walk of `verify_integrity` | every mutating call of the vault |
| block allocator | `src/core/allocator.rs` | bitmap in memory, copied to the file by `write_bitmap` | first-fit allocation, free, reload at open | vault |
| file layout | `src/core/vault.rs` | direct block numbers in a table entry, overflow chain of index blocks | lay out, walk, read | allocator, block encryption |
| vault | `src/core/vault.rs` | header, bitmap, file table, keyring, chain, data blocks; per handle: key, allocator, header, identity, change log | create, two ways to open, add, read, update, delete, grant, revoke, verify, drain the change log, export, apply a patch | all of the above, synchronisation |
| crypto | `src/core/crypto.rs` | keys | block encryption bound to file id and block number, wrapping of the content key | vault, secure channel |
| patch journal | `src/net/journal.rs` | the last 64 patches with their sequence numbers, in memory | record, ranges since | synchronisation |
| synchronisation | `src/net/sync.rs`, `src/net/protocol.rs` | none beyond a connection | serve a stream: handshake, grant check, patch or full copy; join | vault, journal, channel |
| secure channel | `src/net/handshake.rs` | keys and two nonce counters | handshake, send, receive | synchronisation |
| container format | `src/core/format.rs` | region offsets in the header, records with checksums | create, encode, decode | vault, allocator |
| identity file | `src/core/identity.rs` | the node's key pair on disk | load or create | vault, channel, invites |
| network bridge | `src/tui/network_bridge.rs`, `src/tui/widgets/network_tab.rs` | listener thread, a task per connection, request and event queues | start, stop, poll | terminal interface, vault |
| serve console | `src/cli/commands/network.rs` | vault, journal, listener, standard input | select between a connection and a command | vault, synchronisation |
| session and screens | `src/core/session.rs`, `src/tui/` | mode, time of the last activity | unlock, lock, time out, keys | vault, bridge |

What is hard in it:

* **Many writes per call.** Each mutating call writes several regions of the file, with nothing that makes the group atomic. A write can fail and leave the handle open with memory ahead of the file; the process can die between any two.
* **Ring and anchor.** A chain record is in the file before the header knows of it, and it has overwritten the oldest record of the window by then.
* **Reuse of blocks.** Files are laid out first-fit over blocks freed by others. Whether a block has exactly one owner is not recorded anywhere; it follows from the bitmap, the table and the index blocks staying in step.
* **Change of key.** A revocation rewrites every block, slot and header with a new key that is already the only one in memory.
* **Replicas.** A peer's replica is brought up to date by sequence number alone, from a journal that only some call sites feed.
* **Bytes.** Five regions lie back to back; a write that is cut off leaves part of a record, and only some records have a checksum.
* **Two ends.** Both directions of a connection share one key and count their nonces separately; either end may close, die, or be someone else.
* **Concurrency.** The network bridge has a thread, a task per connection and queues beside the interface loop; the serve console has one loop for connections and commands.

What makes each part correct:

* chain: verification accepts whatever completed calls produce, and a cut-off append costs at most the oldest retained records;
* allocator and layout: every block of a file is marked and owned once, and every file reads back;
* vault: a call takes effect at once or not at all, everyone granted reads everything, and everyone revoked nothing;
* container: a record reads back as it was last written or is refused, and of a container whose creation was cut off only what was written whole is used;
* channel: no nonce is used twice, and what arrives opens;
* identity: what an invite names is what serves;
* synchronisation: a replica that a sync reports as up to date is a copy of the served container;
* bridge, console, session: every request of a peer is answered or dropped, and nothing is served from a locked vault.

`PROJECT.json` lists the hazards of this code at their lines, each with the properties that cover it or the reason why none does.

## Modules

| module | models | extends |
|---|---|---|
| `HashChain` | the integrity chain in the file and in memory | |
| `HashChainProofs` | its theorems | `HashChain` |
| `Allocator` | `BlockAllocator` as operators on a set of occupied blocks | |
| `FileLayout` | the layout of content over blocks and the walks that find it | `Allocator` |
| `Vault` | the container file, one open handle, every mutating call write by write, faults | `HashChain`, `FileLayout` |
| `VaultPromise` | what users are promised: named files, readers, calls that take effect atomically | |
| `SequenceLemmas` | lemmas: induction over a set of numbers, recursive functions, parts of sequences | |
| `VaultProofs` | theorems about `Vault` | `Vault`, `HashChainProofs`, `SequenceLemmas` |
| `Replication` | change log, journal, serving sessions, answers to sync requests, replicas | |
| `ReplicationProofs` | theorems about `Replication` | `Replication`, `SequenceLemmas` |
| `Layout` | regions and offsets of a container, with the program's own sizes | |
| `BlockBitmap` | `BlockAllocator` on its bytes | `Layout` |
| `Container` | creation, records and bitmap in bytes, writes cut off inside a record | `Layout`, `BlockBitmap`; instantiates `Allocator` |
| `ContainerProofs` | theorems about layout, bitmap, records and torn writes | `Container`, `SequenceLemmas` |
| `SecureChannel` | handshake and frames of a connection | |
| `IdentityFile` | `load_or_create` in the processes of a node | |
| `ServeConsole` | `whoami`, `serve` and `join` | `SecureChannel`, `IdentityFile` |
| `ServeProofs` | theorems about nonces and frames | `ServeConsole` |
| `GrantProofs` | theorems about copies and identities | `ServeProofs` |
| `Terminal` | loop, tabs, screens and dialogs of the terminal interface, timeout, network bridge | |
| `TerminalProofs` | theorems about the interface | `Terminal` |
| `MCHashChain`, `MCVault`, `MCReplication`, `MCTerminal`, `MCContainer`, `MCServe` | small instances for TLC | |

### HashChain

`chain` is the ring by slot, `header` the pair (next sequence number, last hash) in the file, `cached` the same pair in the memory of the open handle, `appending` says that a record is in its slot and the header that follows it is not.
`append_signed_chain_record` is `WriteRecord`, then `WriteHeader` or `HeaderWriteFails`; opening is `OpenChain`; `CloseChain` is the end of the handle or of its process at any moment.
`VerifyChain` is the walk of `verify_integrity`: a slot without a record is skipped, a record must carry the expected number, link to the record met before it, and the last one met must hash to the anchor.
Hashing is an operator constant; the self-hash and the signature of a record always hold because records are written whole and by the admin only.

### Allocator and FileLayout

Bits are a set of block numbers.
`Allocate` is the scan from block 0: the lowest free blocks, `InOrder`.
A block holds a key, the id of its file and a body; it reads back only under that key and that id, which is what AES-GCM with a nonce derived from file id and block number gives.
A body is the k-th chunk of a version of the content, or an index block with its list and its `next`.
Sizes count chunks of `plain_chunk_len` bytes, so the partial last chunk is not told apart from a full one.
`read_index_block` has no tag to tell an index block by: what it decrypts is an index block if it parses as one.
`IndexLike`, a constant, says which chunks of which contents parse, and as which next block and which list; `ReadableIndex` accepts them.
`OverflowWalk` is the walk with how it ends: it reaches 0, it meets an error, or it still reads after as many turns as there are blocks and then never ends (block 0 is never read as an index block, so some block has been read twice by then).
A call whose walk never ends does not return and has no step.

### Vault

A mutating call reads and checks before it writes.
In the model it starts in one step (`AddFile`, `UpdateFile`, `DeleteFile`, `GrantAccess`, `RevokeAccess`), which puts its writes in `todo` in the order of the code, and `Write` performs them one per step.
`WriteFails` ends the call at a write and keeps what it had changed in memory: bits of the allocator, the new key, the new admin slot, the advanced chain position.
`Crash` ends the process before a write.
Both happen only at the points in `FaultPoints`, at most `MaxFaults` times.
A call that returns an error before its first write changes nothing and has no step.
The fresh file id, content, key or hash of a call is the number of the call.
`held` and `hurt` are history variables that no action reads: every key ever wrapped for a peer, and the files that a fault may have damaged.
A fault hurts the file of the update or deletion that it cuts off, and every file when it cuts off a revocation before the new key is in the file.
An update or a deletion of a hurt file hurts all files, because the blocks it frees may belong to others by then (`vault_update` shows this happening).

`apply_remote_patch`, which writes to a replica through a handle without admin rights and asks for none, is not a call of the admin's container: `Replication` has it.

Assumptions of the model: a write is atomic and writes reach the file in order (the code calls neither `sync_all` nor `sync_data` between them); one handle at a time, as the documentation asks; a fresh random key or id is new; contents stored by different calls differ.
Deleted entries stay in their slots as tombstones, as in the code.

### VaultPromise

The abstract specification has five variables: the content of each file as the number of the call that stored it, the set of readers, the number of the latest call, whether that call may still take effect, and the files that are lost if it is cut off now.
It names what a call may lose: an update or a deletion its own file, a revocation all files, and nothing else anything.
A call on a file that is already lost may lose the others.
`Vault` maps to it: a file is visible with its version when every holder of a key reads it back, a peer is a reader when the key wrapped for it is the current one.
While a call is replacing a file, or rewriting all of them under a new key, the one handle is busy and nobody can look; in the mapping such files keep the version of their entry.
A file that does not read back maps to a value that no step of the promise produces.

### Replication

A container is a function from byte ranges to the call that wrote them last; one range is the header, whose value is the chain position.
The contents of `Vault` do not matter here, only which bytes a call has written and which of them a replica has.
A mutating call writes some ranges and the header last, as every successful call of `Vault` does, and puts them in `log`, the change log of the handle.
`Mutate` is a call from the serve console, or from the file list of the terminal interface: while a session is running, the log is drained into the journal under the position that the handle had before the call.
The batch of a call is `CallBatch`: each range it wrote carries the number of the call, the header the new position.
`MutateUnrecorded` is a grant or a revocation in the terminal interface (`submit_grant`, `submit_revoke`), which leaves journal and log alone; the console has neither command.
`program` says which of the two has the container open; `Reopen` may change it.
`MutateFails` leaves a batch without a header behind, in the container and in the log.
`Reopen` is the end of the handle and a new one: log, session and journal are gone.
With the log go the bytes of a failed call that nothing has recorded: `forgotten`, a history variable, is the set of their ranges, each until a call writes it again.

`Request` is the peer's request and the choice of the answer (`serve_stream`, `poll_network`); the answer stays on its way while other things happen, until it is lost, stored or applied, the latter in whole or in part (`ApplyPartly`: some whole batches and some ranges of the next, but not its header, which comes last).
`join` always reports position 0 and so always gets a full copy.
Patches are answered to peers that report a position of their own and applied by `apply_incoming`; both are in the library and in its tests, and no command calls them yet.
They are modelled because the journal exists for them.

Assumptions: one answer on its way to a peer at a time; a full copy is stored at once; all peers hold a grant; a failing revocation, which writes the header once in the middle, does not happen while serving.

### Layout, BlockBitmap and Container

`Layout` is the arithmetic of `Vault::create` and of the offset functions with the program's constants, for any capacity.
`BlockBitmap` is the allocator on its bytes, a byte being the set of its bits.

In `Container` a record is a row of fields with their widths in bytes, and the content of a field is the number of the write that it comes from.
A digest (checksum, record hash, signature, authentication tag) names the write whose fields it was computed over.
`disk` is the sequence of all writes with their offset and length; what a field reads as is decided by the last write that overlaps it, so a record that reached into its neighbour would spoil it.
Creation is one `CreateRegion` per region in the order of the code, each after the end of the one before; `CreationCutOff` ends it in any of them.
Raw zeros never decode as an entry or a recipient slot, because their checksum is not zero.
`Decode` is what the decoders make of a slot's fields: the write that all of them and their digests agree on, no record, or a refusal.
`CanWrite` follows the lookups that calls make before their first write.
A container whose creation was cut off before its table was complete fails at the first lookup of a file; one cut off in its keyring fails at the first lookup of a peer, but its files can be added, read, updated and deleted, and the model does so.
`WriteCutOff` stops in any field of a record, `WriteBitmapCutOff` after any byte; both end the process.

Assumptions: each write reaches the file up to some byte and no further; a checksum over mixed fields never agrees; slots at both ends of a region stand for those between them.
What a decoder rejects before its checksum (magic, version, lengths) is not told apart from a wrong checksum.

### SecureChannel

A connection has two ends, `dial` and `serve`, each with a stage (`none`, `open`, `offered`, `ready`, `closed`), the peer it has verified, its key and its two counters.
`wire` is what is under way from each end: it keeps its order, loses its tail when the stream is cut, and may lose everything when the other end closes without having read all that arrived, as the kernel resets such a stream.
`OfferHello`, `AnswerHello` and `FinishHello` are the handshake of initiator and responder; `Send`, `SendLast` and `Receive` are `send` and `recv` with their counters.
`send` counts a nonce and encrypts before `write_frame` may refuse the frame, so `sealed`, the history of all encryptions, contains frames that were never written.
A hello proves who sent it, by a signature over the ephemeral key; one that is replayed is no use without that key and is left out.

### IdentityFile

`load_or_create` takes any failure to read the file for a missing one (`LoadIdentity`), then truncates it (`TruncateIdentity`) and writes it (`WriteIdentity`).
Processes interleave between these steps.
`unsettled` is a history variable: two processes were creating the file at a time, or it was lost later.

### ServeConsole

`whoami` and `serve` are two processes of the administrator's node; every peer has one join.
`server` is where the serve process is: before its listener, at `select!`, or in `serve_stream` with the connection `serving`.
At `select!` the next step is either `AcceptPeer` or a line of the console, `HandleLine` or `Quit`; `serve_stream` then runs to its end before the loop looks at either again, as the `await` inside the branch does.
The identity is loaded again for each connection.
A join is `StartJoin`, `JoinHello`, `JoinVerify`, `JoinAsk`, `JoinReceive`, then `Truncate` and `FinishJoin`, the two halves of `fs::write`; `WrongIdentity`, `Refused` and `JoinReadFails` are its error returns.
Faults: a stream is cut, a host falls silent, another node has the address by now, any of the processes dies, the identity file is lost.
`disturbed` is the history of the connections that a fault or the end of the session has touched, `since` the version of the vault when a join began.

Assumptions: the vault is the number of changes made to it; a connection is used by one join; a peer that dies comes back with what its file holds.
The console handles one line at a time; what is typed while it is busy waits in `typed`.

### Terminal

Each node runs the loop of `start.rs`: `phase` is before the key, before the tick, or inside a join.
Keys go through `intercepts_quit` and `blocks_tab_switch` to the tab that is selected; the Vaults tab has `screen` and `vault`, the Network tab has `dialog`.
`Tick` is `check_timeout`: lock, or answer one request.
`bridge` holds the listener of each port, `queue` the requests that tasks have sent to the loop, `conn` the connection over which a node joins.
`DropSession` is what happens when the `UnlockedState` or its `NetworkSession` is dropped: the listener is told to stop, but stops only later (`ListenerStops`), and then takes the tasks with it; the receiver of requests is gone at once.
A port is free again when its listener is gone.
`SubmitJoin` and `EndJoin` are `try_join`: between them the loop does nothing else.

Assumptions: all nodes are nodes of this kind, and a joining process is not killed (it may quit before and after); dialling a live listener succeeds; I/O errors of the vault are left out, broken connections are in.
Vaults exist from the beginning; replicas cannot be unlocked in the interface, which asks for a password that peers do not have.

## Runs

| run | instance | result |
|---|---|---|
| `hash_chain` | ring of 3, records 0 to 7, two payloads: the ring wraps twice, every history has its own hash | passes |
| `vault` | 6 blocks, 1 direct block, 1 number per index block, 2 table slots, 2 recipient slots, 2 names, 2 peers, sizes 0 to 3, a content with a chunk that parses as an index block for each call, ring of 3, 4 calls, 1 fault at any write of any call | passes |
| `vault_password` | as `vault`, 2 calls, no fault, a second password that can be typed | violation of `AdminPasswordOpens` |
| `vault_update` | as `vault`, size 1, updates may be cut off at a block | violation of `UpdateTouchesOnlyItsFile` |
| `vault_nonce` | as `vault`, size 1, 2 calls, no fault | violation of `NonceFresh` |
| `replication` | two ranges and the header, one peer, a journal of 2, 4 calls, 1 of them may fail, console and terminal interface in any order | passes |
| `terminal` | two nodes, one with two vaults and two ports, the other with an invite of it | passes |
| `terminal_mutual` | two nodes with a vault and a port each, and each other's invite | violation of `JoinsEnd` |
| `replication_restart` | as `replication`, the console alone | violation of `RestartsCatchUp` |
| `container` | capacities of 9 and of 20 blocks, 2 writes after creation, each whole or cut off, 2 calls on the allocator | passes |
| `serve` | `whoami`, `serve`, two peers of which one is granted, 2 connections, 2 versions, 1 fault of any kind | passes |
| `serve_large` | as `serve`, no fault, a container that does not fit a frame | violation of `JoinsFailForAReason` |

Why the bounds suffice: a file of 3 chunks needs a direct block, two listed blocks and a chain of two index blocks, which is every branch of the layout; with 6 blocks two such files do not fit, so the space checks bite, and a small file between deletions gives fragmented layouts.
Four calls are enough for add, grant, revoke and one more, for the ring of 3 to wrap, and for an interrupted call, its repetition and what comes after.
Names and peers are symmetric; the symmetry set permutes both independently, and the properties checked under it are invariants and step properties, for which it is sound.
`CHECK_DEADLOCK` is left on: some handle can always be opened or closed.

`vault` cuts off any call at any write, by a failing write or by the end of the process.
Its properties exempt the files that the fault has hurt: everything else still reads back and still owns its blocks alone.
The walk along the index blocks of a hurt file may never end: `MCIndexLike` has contents of which a chunk points to the block that it lies on, and an update that is cut off behind its blocks leaves the old entry pointing there.
`EndlessWalksAreMisled` says that it takes both, the cut-off call on that file and data that parses: index blocks themselves, those of old and overwritten entries included, never form a ring.
`RevokedPeersReadNothing` exempts them too: the entry of a file whose update or deletion was cut off may name blocks that are free by then, a later file may be given them, and a later fault may leave them half written, some still under an older key.
`KeepsPromise` says the same towards users: a cut-off call takes effect or not, and loses no more than `VaultPromise` puts at risk for it.
At those points the code does lose something, and `vault_update` shows how far it goes: not only the file whose update was cut off is lost, but another file that was stored completely afterwards.
`vault_nonce` needs no fault at all: the update of a file stores new content, first fit, in the blocks of the old, under the same file id and key, from which the nonce is derived.
`vault_password` is a misuse that nothing stops: `revoke_access` wraps the new key under whatever was typed.

For replication, one peer suffices because a peer affects neither the container nor another peer, and so no symmetry is used; two ranges tell a complete patch from a partial one; four calls overflow a journal of two and leave calls before, between and after.
`SyncCatchesUp` asks of every state in which a session is running: would the answer that a peer gets now make its replica a copy of the container, whatever the replica is?
It exempts only the bytes of failed calls that nobody has recorded yet, because the call's handle is still open or because they are forgotten, and it is a property of the console.
In the terminal interface it does not hold: `submit_grant` and `submit_revoke` leave the journal alone (`network_tab.rs:154`), so a peer that is behind by a grant asks for a position that the journal claims to cover, and gets a patch without it, where `README.md:210` says that the admin sends the missing records and the changed bytes.
`NextRecordCatchesUp` shows for both programs that this is a delay and not a loss: whatever an answer leaves out, but for what is forgotten, is in the change log, and the next recorded call ships it.
What is forgotten is a loss, which `replication_restart` shows with `RestartsCatchUp`, the property without the exemption: a failed call does not advance the chain, the restart forgets its bytes, and after one recorded call the journal claims to cover the position of a replica that never had them. `README.md:323` says that after a restart a full copy is always sent.

For the container, 9 blocks are the smallest number that needs a second byte of bitmap, and their table and chain have the smallest size that `create` allows; 20 blocks scale the table beyond it and leave the last byte of the bitmap partly used.
Two writes let one record be overwritten, or two neighbours be written in either order, with one or both cut off; `Counts` of 9 blocks at once cross a byte.
`CHECK_DEADLOCK` is off because every write and call is bounded.

For the console, two peers and two connections give a connection that waits while another is served, a refused peer before a granted one and the reverse, and a second join by the same peer over what a first one left; one fault is followed by everything that can come after it.
Two versions tell a copy that is older than its join from one that is not.
`CHECK_DEADLOCK` is off because sessions and joins end.
`JoinsFailForAReason` and `CopiesAreRecent` are about the steps that end a join.
`serve_large` sets `FitsFrame` to FALSE and nothing else goes wrong: no join succeeds.

For the interface, two vaults and two ports are needed for a request, a dialog or a listener that outlives its vault to meet another one; everything is finite, so there is no bound on the length of a run.
`TerminalFairness` is weak fairness of each node's loop, of the tasks of each connection and of a listener that has been told to stop.
The loop polls for a key for at most 200 ms and then ticks, and the bridge has a runtime of its own, so neither depends on what users do; no key, no quit and no passing of time is assumed.
Under it `JoinsEnd` and `IdleVaultsLock` hold as long as nobody joins a node that is joining him.
`terminal_mutual` shows the case where both do: each loop waits for the answer of the other, nothing ends the wait, and both vaults stay unlocked.
Deadlock checking is off in that run because the two nodes really stop.

`Fairness` of `ServeConsole` is weak fairness of each process on its own: the server, each peer's join, the other node, the creation of the identity.
A task or a process that can take its next step does so in the end; one that waits for a silent host cannot, which the model says in the guards.
`select!` picks among its ready branches at random, so neither a waiting connection nor a waiting line is passed over for ever: each of the two branches has weak fairness of its own.
Nothing is assumed of users, who type and start joins when they like, or of faults.
Under it `LinesAreHandled` and `JoinsFinish` hold unless the connection being served has fallen silent: the loop then waits without a timeout, and the properties name this case instead of excluding it.

The other modules make safety claims only and state no fairness.

Definitions marked `mutant` are slips the code could have made. Replacing the definition that follows by its mutant makes the property named with it in `PROJECT.json` fail: this is how the properties are tested.

## Proofs

`ChainInv` is the inductive invariant of the chain.
`DamageIsOldest` and `VerifyFailsOnlyIfTorn` are not inductive: a header write can make the memory's position the file's, so both positions have to describe the ring, and a record can be overwritten by one that was cut off and then by the regular one.
`ChainInv` says of the position in the file and, when a handle is open, of the position in memory: every record is in its own slot and none is older than the window; every retained slot holds its record or a younger cut-off one; behind an intact record all younger ones are intact and linked; and the newest, when intact, hashes to the anchor.
It also says how the memory's position continues the file's.
From it follow, for every ring size, every bound and every hash function: `ChainTypeCorrect`, `DamageIsAlwaysOldest`, `VerifyFailsOnlyAfterTornAppend` and `CommittedHistoryOnlyGrows`.
That no two records collide is not assumed anywhere.
The arithmetic of the ring is in lemmas of its own (`SlotsDiffer`, `SlotRepeats`): two numbers less than a window apart have different slots.

`VaultImplementsChain` shows that each step of the vault is a step of the chain or leaves it alone, so all of this holds inside a vault, for any number of files, peers and blocks and with faults at any write (`VaultChainInvariant`, `VaultVerifiesUnlessTorn`, `VaultHistoryOnlyGrows`).

The rest of `VaultProofs` is in five layers.

* *Shape.* `ShapeInv` gives the type of everything in the file, in memory and still in `todo`, and says that the index block at `b` of any file points to 0 or to a block above `b`. From it follow `VaultTypesHold` and, with the `CallInv` below, `EndlessWalksAlwaysMisled`: a walk over index blocks alone ascends, and so ends within as many turns as there are blocks, and the blocks of a sound file's chain are its own index blocks. `WalkExists` builds the walk by the number of turns left, so that it has a value whatever the blocks hold.
* *Layout.* `LaidFile`: content written over blocks that ascend reads back, its walk meets exactly those blocks, once each, and no write elsewhere changes that (`LegibleAgrees`).
* *Calls.* The properties speak of a vault between calls, and a call passes through states in which none of them holds: blocks of a new file that no entry names, blocks sealed with a new key that no slot wraps. So the invariant `CallInv` is about the goal of the call: there are a store, a table, a keyring, a key, a bitmap and a set of allocated blocks (`Working`) in which all sound files stand apart and are marked (`FilesStand`, `Marked`) and all keyholders hold the key (`GrantsHolders`), and to which the writes of `todo`, performed in order, lead. It also says what must be true if the call is cut off at once: before its decisive write (`Decisive`: the table slot, the recipient slot, or the header with the new key) the files that the call does not put at risk still stand as they were (`Spares`), and `Target` names them. A step of `Write` leaves the goal where it is (`WriteKeepsWorking`); an empty `todo` means the goal is reached, which is `Rests`, what holds between calls; a fault leaves `Rests` for the files that it has not hurt (`FaultRests`); each call is shown to have a goal (`AddFileWorks`, `UpdateFileWorks`, `DeleteFileWorks`, `GrantAccessWorks`, `RevokeAccessWorks`).
* *Results.* `KeyholdersAlwaysRead`, `RevokedNeverRead`, `BlocksAlwaysAccounted`, `HealthyAlwaysVerifies` and `OtherFilesStayUntouched`, for any number of files, peers, blocks, sizes, calls and faults.
* *Promise.* `VaultKeepsPromise`: `VaultSpec => KeepsPromise`, the refinement of `VaultPromise`. The mapping is awkward to reason about, because whether a file is visible depends on keys, blocks and the call in progress; `InvSeen` shows from `CallInv` that what users see can be read off table, keyring and hurt files alone (`Listing`, `Readers`): whatever can be looked at reads back. `PromiseInv` says what the writes still to come may assume of table and keyring until they are made: an added or updated file's entry carries the number of the call, the slot of a grant is free and its peer nowhere else, a revocation empties its slot before it wraps the new key for the others (`DropsFirst`) and leaves their peers as they are, no peer has two slots, and a file that is hurt is still listed. With it each kind of write is a step of the promise or none: `SlotWriteKeeps` (a file is put or removed), `GrantWriteKeeps`, `DropWriteKeeps`, `KeySlotWriteKeeps` (a revocation settles), `RewrapWriteKeeps` and `QuietWriteKeeps` (nobody sees them); a fault gives up (`FaultKeeps`), and a call begins by putting at risk no more than the promise allows (`BeginKeeps`).

For revocation the point is that the number of the call, which stands for its fresh key, is greater than that of every key a peer ever held, and that every block of every listed file gets it before the header does.
The hypothesis `Undamaged` of `CallInv` excludes the states in which a fault has hurt every file: there the properties promise nothing either.

`SequenceLemmas` holds what these proofs need of data.
The induction theorems of the library take a predicate as a parameter, which the provers cannot instantiate; `SetInduction` says the same of a set, from the fact that `<` is well-founded on the naturals, and every other induction in the project is an application of it.

`ReplicationProofs` rests on `ReplicationInv`.
`SyncCatchesUp` is not inductive: it compares the container with what the journal yields now, and says nothing of a journal that drops its oldest entry or of an answer that is half applied.
`StreamOK` says of log and journal that between them they hold the last value of every range that they mention, in order of position; `CopiesOK` that every replica, and everything the answer on its way can make of it, *may follow* (`MayFollow`): it is not beyond the container, at the same position it differs by bytes of failed calls only, and where the journal claims to cover its position, whatever it lacks is in the journal from that position on or in the log.
The last part is what survives when entries are added (the position before a call is the one it is recorded under), dropped (the claim shrinks with them) and applied in part (the header comes last, so a copy that was cut off keeps an old position).
From it follow `SyncAlwaysCatchesUp` and `NextRecordAlwaysCatchesUp`, for any number of ranges, peers, calls and any capacity of the journal.
They have no hypothesis: a handle may end with a failed call's bytes in its log, and the forgotten ranges, which the properties exempt, are where `MayFollow` claims nothing. `replication_restart` shows that they do not hold without the exemption.

The other proofs rest on the assumptions stated with the constants: the ring has at least one slot, the hash of a record is a hash, there are as many payloads as calls, the capacities are ones that `create` accepts, the console's vault may have at least the version it begins with.

`ContainerProofs` is about every such capacity, any number of writes and any number of crashes.
`RegionsStayApart` and `SlotsAreApart` follow from the arithmetic of `Layout` (the header's offsets never change: `Shape`).
`MarkingIsUnion`, `ClearingIsDifference`, `AllocatingIsFirstFit` and `BitmapsReopen` connect the bytes of the allocator with the sets of `Allocator`, for bitmaps of any size: a block is a byte and a bit in it, and different blocks differ in one of the two (`BitsOfBlocks`).
What a field reads as is a function of the writes made so far (`CellAfter`: the last write that overlaps it decides), a write leaves the cells of every other slot alone (`FieldsElsewhere`), and so `ContainerInv` can relate the cells of each slot to the history of that slot only: what was saved there, and what was cut off there since.
A record that was cut off after its first fields keeps the digest of the one before, and the digests come last (`DigestsComeLast`) and cover all the other fields, so it decodes to what it was, to what it should have become, or is refused.
This gives `ContainerTypesHold`, `RecordsAlwaysReadBack`, `BitmapAlwaysReadsBetween`, `BitsAlwaysAreTheSet` and `HalfCreatedAlwaysWorksInPart`: the file table is created before the regions behind it and blank entries are refused, so in a container without a table no file is ever found; and what was created before the cut keeps its cells, so header and entries of one with a table read as they were saved.

`ServeProofs` rests on one picture of a connection, `ChannelInv`.
Number the messages of an end: its hello is -1, its frames 0, 1, 2, ...
What is under way from an end is a run of consecutive messages that begins with the one the other end reads next, and ends before the one the first end writes next unless something was lost (`LinksOK`); what an end has encrypted carries its own key, parity and a number below its counter (`SealedOK`).
`NoncesOnce` alone is not inductive, as it says nothing of the counters; `FramesOpen` alone says nothing of the messages behind the first.
Each operation of the channel is shown to preserve the picture by a lemma of its own, then each action of the console to use the operations as they are meant (`UsesOK`: who uses which end in which stage).
From `ServeInv`, the conjunction, follow `NoncesAreUsedOnce` and `ArrivingFramesOpen`, for any number of connections, peers, changes and faults.

`GrantProofs` adds whose connection it is.
`OwnedOK` says that a connection in use by a join carries only that peer's hello, and in the other direction only refusals if the peer has no slot, and only the hello of the stranger if it leads elsewhere; `ServingOK` that whoever has got past the check has a slot; `JoinsOK` that two joins never share a connection.
`CopiesStayGranted` follows.
`IdentityStaysStable` has an invariant of its own, `SettledOK`, over the identity file only: as long as it is settled, at most one process is creating it, and all others have what it holds.
`ServeTypesHold` needs the bounds of copies, which `RecentOK` gives, and those of identities (`BoundsOK`).

`CopiesAreRecent` is a property of the last step of a join, and what that step stores was decided when the server sealed it.
`NextTold` says what any step can put on the way to a peer: a hello of the identity loaded, a refusal, or a copy of the vault as it is now (`SaidOn`).
So `RecentOK` can say that every copy under way to a join, and every one received, is of the version at which it began or of a later one; `CopiesStayRecent` follows.

`JoinsFailForReasons` takes each way in which a join can fail.
The wrong identity: `NamesOK` says that, as long as the identity is settled, invites in use name the identity in the file and that connections to this node carry no other hello.
A refusal: a peer with a slot is never sent one (`FairOK`, with `RefusedIsNoOwner`).
The end of the stream: here one has to know that the server has not left too early.
`DialsOK` and `AnswersOK` say how far each end has got, one as far as the join, the other as far as the server; as a join sends one request and no more, the server has nothing left to read when it seals its answer (`CopyIsSaid`), so closing destroys nothing, and from then on what the peer has read and what is under way make up a hello and an answer (`SaidAll`), unless a fault or the end of the session touched the connection.
A join that still has something to read therefore finds it.
The theorem's hypothesis `FitsFrame`, that a full copy fits a frame, cannot be dropped: `serve_large` is the counterexample.

`TerminalProofs` rests on `TerminalInv`, which says when a session exists: exactly while the vault it serves is open and its listener has not been told to stop (`SessionOK`).
A connection has been dialled to a listener that is still there, or is queued at a session of its own vault, and each queue holds the connections that are queued at its node, once each (`LinksOK`, `QueuesOK`).
A dialog, as long as it is open, keeps the Network tab selected (`LoopOK`): the timeout can lock the vault under it, but nothing else can be unlocked there.
`LockEndsServing` alone is not inductive, since a lock tells the listener of the current session to stop and no other, so it has to be the only one that listens; `DialogsActOnTheirVault` needs the part about tabs.
From it follow `TerminalTypesHold`, `LockAlwaysEndsServing`, `CopiesAreAlwaysOfTheServedVault` and `DialogsAlwaysActOnTheirVault`, for any number of nodes, vaults, ports and invites.
`DropKeeps` is the lemma that locking by a key, by the timeout and stopping by hand share.

Every safety and step property of the passing runs is the subject of a theorem.
Only model-checked: `JoinsEnd`, `IdleVaultsLock`, `LinesAreHandled` and `JoinsFinish`, which are liveness under fairness and out of the prover's reach.

## Not modelled

* Argon2, AES-GCM, X25519, Ed25519 and SHA-256: opaque operations that do what their interfaces say.
* `error.rs`, which has no state, and the argument parsing of `cli/commands/vault.rs`, one call of the vault per command.
* Drawing, text entry, forms, creation of vaults in the interface, settings and logs. The file forms' calls are in `Vault` and `Replication`.
* The text of invites and the encoding of sync messages: both are read back by the same module that writes them, in one step.
* `serve_one` and `push_patch`, which no program calls; patches and `apply_incoming` are in `Replication` because the journal exists for them.
* Disk writes out of order, and two handles on one container, which the code does not guard against.
* The growth of the change log in a vault that is never served, which has no bound to check.
* A container restored from an older copy and served to peers that had followed the newer one: `serve_stream` ignores the hash that would tell. The container of `Replication` only moves on.
* Keys pressed in the Logs and Settings tabs, which `event.rs:20` does not count as activity: `Terminal` has them as one tab, in which no key is activity.

## What could come next

A history of the container with branches in `Replication`, for the ignored hash.
