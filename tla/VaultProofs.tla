------------------------------ MODULE VaultProofs ------------------------------
(***************************************************************************)
(* What is proved of a vault, for any number of files, peers, blocks and   *)
(* calls, with faults at any write.                                        *)
(*                                                                         *)
(*   - Every step of the vault is a step of the integrity chain or leaves  *)
(*     the chain alone.                                                    *)
(*   - What is in the file, in memory and still to be written keeps its    *)
(*     shape; overflow chains ascend, so that walks along them end unless  *)
(*     they meet data that parses as an index block.                       *)
(*   - What storing lays out reads back, and allocation, walk and bitmap   *)
(*     agree on which blocks a file has.                                   *)
(*   - A call works towards a goal in which every sound file stands and    *)
(*     every keyholder has the key; each call that starts has such a goal, *)
(*     each write leads there and no fault leaves less than it may.        *)
(*   - The vault implements VaultPromise: what users see changes by one    *)
(*     write of a call, or by what a fault may lose.                       *)
(***************************************************************************)
EXTENDS Vault, HashChainProofs, SequenceLemmas, FiniteSetTheorems, TLAPS

(* The number of calls started stays below its bound, so that each call    *)
(* number is a payload of the chain.                                       *)
CallsInv == calls \in 0 .. MaxCalls

LEMMA InitCallsInv == VaultInit => CallsInv
  BY BoundsAssumption DEF VaultInit, CallsInv

LEMMA NextCallsInv == CallsInv /\ [VaultNext]_vaultVars => CallsInv'
<1> SUFFICES ASSUME CallsInv, [VaultNext]_vaultVars PROVE CallsInv'
  OBVIOUS
<1> USE BoundsAssumption DEF CallsInv
<1>1. ASSUME NEW c, NEW n, NEW w, CanMutate, Begin(c, n, w) PROVE CallsInv'
  BY <1>1 DEF CanMutate, Begin
<1>2. CASE UNCHANGED vaultVars
  BY <1>2 DEF vaultVars, callVars
<1>3. ASSUME NEW n \in Names, NEW size \in Sizes, AddFile(n, size) PROVE CallsInv'
  BY <1>3, <1>1 DEF AddFile
<1>4. ASSUME NEW n \in Names, NEW size \in Sizes, UpdateFile(n, size) PROVE CallsInv'
  BY <1>4, <1>1 DEF UpdateFile
<1>5. ASSUME NEW n \in Names, DeleteFile(n) PROVE CallsInv'
  BY <1>5, <1>1 DEF DeleteFile
<1>6. ASSUME NEW p \in Peers, GrantAccess(p) PROVE CallsInv'
  BY <1>6, <1>1 DEF GrantAccess
<1>7. ASSUME NEW p \in Peers, NEW password \in Passwords, RevokeAccess(p, password)
      PROVE CallsInv'
  BY <1>7, <1>1 DEF RevokeAccess
<1>8. ASSUME Write \/ WriteFails \/ Crash \/ Close \/ TakeChangeLog PROVE CallsInv'
  BY <1>8 DEF Write, Advance, WriteFails, Crash, Close, TakeChangeLog, callVars
<1>9. ASSUME NEW password \in Passwords, NEW admin \in BOOLEAN, Open(password, admin)
      PROVE CallsInv'
  BY <1>9 DEF Open, OpenWith, callVars
<1>10. ASSUME NEW p \in Peers, OpenAsRecipient(p) PROVE CallsInv'
  BY <1>10 DEF OpenAsRecipient, OpenWith, callVars
<1> QED
  BY <1>2, <1>3, <1>4, <1>5, <1>6, <1>7, <1>8, <1>9, <1>10 DEF VaultNext

-------------------------------------------------------------------------------
LEMMA WriteStepsChain ==
  ASSUME CallsInv, Write PROVE [ChainNext]_chainVars
<1> DEFINE w == Head(todo)
<1>1. \/ WriteBlock(w) \/ WriteBitmap(w) \/ WriteSlot(w) \/ WriteRecipient(w)
      \/ WriteKeySlot(w) \/ WriteChainRecord(w) \/ WriteAppendHeader(w)
  BY DEF Write
<1>2. CASE WriteBlock(w) \/ WriteBitmap(w) \/ WriteSlot(w) \/ WriteRecipient(w)
  BY <1>2 DEF WriteBlock, WriteBitmap, WriteSlot, WriteRecipient
<1>3. CASE WriteKeySlot(w) \/ WriteAppendHeader(w)
  BY <1>3 DEF WriteKeySlot, WriteAppendHeader, ChainNext
<1>4. CASE WriteChainRecord(w)
  <2>1. calls \in Payloads
    BY BoundsAssumption DEF CallsInv
  <2> QED
    BY <1>4, <2>1 DEF WriteChainRecord, ChainNext
<1> QED
  BY <1>1, <1>2, <1>3, <1>4

LEMMA VaultStepsChain ==
  CallsInv /\ [VaultNext]_vaultVars => [ChainNext]_chainVars
<1> SUFFICES ASSUME CallsInv, [VaultNext]_vaultVars PROVE [ChainNext]_chainVars
  OBVIOUS
<1>1. ASSUME NEW c, NEW n, NEW w, Begin(c, n, w) PROVE UNCHANGED chainVars
  BY <1>1 DEF Begin
<1>2. CASE UNCHANGED vaultVars
  BY <1>2 DEF vaultVars
<1>3. ASSUME NEW n \in Names, NEW size \in Sizes, AddFile(n, size) \/ UpdateFile(n, size)
      PROVE UNCHANGED chainVars
  BY <1>3, <1>1 DEF AddFile, UpdateFile
<1>4. ASSUME NEW n \in Names, DeleteFile(n) PROVE UNCHANGED chainVars
  BY <1>4, <1>1 DEF DeleteFile
<1>5. ASSUME NEW p \in Peers, GrantAccess(p) PROVE UNCHANGED chainVars
  BY <1>5, <1>1 DEF GrantAccess
<1>6. ASSUME NEW p \in Peers, NEW password \in Passwords, RevokeAccess(p, password)
      PROVE UNCHANGED chainVars
  BY <1>6, <1>1 DEF RevokeAccess
<1>7. CASE Write
  BY <1>7, WriteStepsChain
<1>8. CASE WriteFails
  <2>1. HeaderWriteFails \/ UNCHANGED chainVars
    BY <1>8 DEF WriteFails
  <2> QED
    BY <2>1 DEF ChainNext
<1>9. CASE Crash \/ Close
  BY <1>9 DEF Crash, Close, ChainNext
<1>10. ASSUME NEW password \in Passwords, NEW admin \in BOOLEAN, Open(password, admin)
       PROVE ChainNext
  BY <1>10 DEF Open, OpenWith, ChainNext
<1>11. ASSUME NEW p \in Peers, OpenAsRecipient(p) PROVE ChainNext
  BY <1>11 DEF OpenAsRecipient, OpenWith, ChainNext
<1>12. CASE TakeChangeLog
  BY <1>12 DEF TakeChangeLog
<1> QED
  BY <1>2, <1>3, <1>4, <1>5, <1>6, <1>7, <1>8, <1>9, <1>10, <1>11, <1>12 DEF VaultNext

(* The vault implements the integrity chain: whatever file calls, grants,  *)
(* revocations, failed writes and crashes do to the container, its chain   *)
(* region and its header only ever take the steps of HashChain.            *)
THEOREM VaultImplementsChain == VaultSpec => ChainSpec
<1>1. VaultInit => ChainInit
  BY DEF VaultInit
<1>2. VaultSpec => []CallsInv
  BY InitCallsInv, NextCallsInv, PTL DEF VaultSpec
<1> QED
  BY <1>1, <1>2, VaultStepsChain, PTL DEF VaultSpec, ChainSpec

-------------------------------------------------------------------------------
(* What this carries over from the chain to the vault.                     *)

(* In every reachable state of a vault the ring and both copies of the     *)
(* header satisfy the inductive invariant of the chain.                    *)
THEOREM VaultChainInvariant == VaultSpec => []ChainInv
  BY VaultImplementsChain, ChainInvariant, PTL

(* No sequence of calls, faults and reopenings makes verify_integrity      *)
(* reject the chain of a vault, unless an append was cut off.              *)
THEOREM VaultVerifiesUnlessTorn == VaultSpec => []VerifyFailsOnlyIfTorn
  BY VaultImplementsChain, VerifyFailsOnlyAfterTornAppend, PTL

(* No header write of a vault rewrites committed history.                  *)
THEOREM VaultHistoryOnlyGrows == VaultSpec => HistoryOnlyGrows
  BY VaultImplementsChain, CommittedHistoryOnlyGrows, PTL

-------------------------------------------------------------------------------
(* A call in progress belongs to an open handle with admin rights.         *)
WriterInv ==
  /\ DOMAIN handle = {"admin", "key", "alloc", "adminSlot"}
  /\ todo # <<>> => cached.open /\ handle.admin

LEMMA InitWriterInv == VaultInit => WriterInv
  BY DEF VaultInit, WriterInv

LEMMA WriteKeepsWriter ==
  ASSUME WriterInv, Write PROVE WriterInv'
<1> DEFINE w == Head(todo)
<1>1. todo # <<>> /\ cached.open /\ handle.admin
  BY DEF Write, WriterInv
<1>2. /\ \/ WriteBlock(w) \/ WriteBitmap(w) \/ WriteSlot(w) \/ WriteRecipient(w)
         \/ WriteKeySlot(w) \/ WriteChainRecord(w) \/ WriteAppendHeader(w)
  BY DEF Write
<1> HIDE DEF w
<1>3. CASE WriteBlock(w) \/ WriteBitmap(w)
  BY <1>1, <1>3 DEF WriteBlock, WriteBitmap, WriterInv, chainVars
<1>4. CASE WriteSlot(w) \/ WriteRecipient(w)
  BY <1>1, <1>4 DEF WriteSlot, WriteRecipient, WriterInv, chainVars
<1>5. CASE WriteKeySlot(w)
  BY <1>1, <1>5 DEF WriteKeySlot, WriteHeader, WriterInv
<1>6. CASE WriteAppendHeader(w)
  BY <1>1, <1>6 DEF WriteAppendHeader, WriteHeader, WriterInv
<1>7. CASE WriteChainRecord(w)
  BY <1>1, <1>7 DEF WriteChainRecord, WriteRecord, WriterInv
<1> QED
  BY <1>2, <1>3, <1>4, <1>5, <1>6, <1>7

LEMMA NextWriterInv == WriterInv /\ [VaultNext]_vaultVars => WriterInv'
<1> SUFFICES ASSUME WriterInv, [VaultNext]_vaultVars PROVE WriterInv'
  OBVIOUS
<1> USE DEF WriterInv
<1>1. ASSUME NEW c, NEW n, NEW w, CanMutate, Begin(c, n, w),
             handle' = handle \/ handle' = [handle EXCEPT !.key = calls + 1]
      PROVE WriterInv'
  BY <1>1 DEF CanMutate, Idle, Begin, chainVars
<1>2. CASE UNCHANGED vaultVars
  BY <1>2 DEF vaultVars, callVars, chainVars
<1>3. ASSUME NEW n \in Names, NEW size \in Sizes, AddFile(n, size) \/ UpdateFile(n, size)
      PROVE WriterInv'
  BY <1>3, <1>1 DEF AddFile, UpdateFile
<1>4. ASSUME NEW n \in Names, DeleteFile(n) PROVE WriterInv'
  BY <1>4, <1>1 DEF DeleteFile
<1>5. ASSUME NEW p \in Peers, GrantAccess(p) PROVE WriterInv'
  BY <1>5, <1>1 DEF GrantAccess
<1>6. ASSUME NEW p \in Peers, NEW password \in Passwords, RevokeAccess(p, password)
      PROVE WriterInv'
  BY <1>6, <1>1 DEF RevokeAccess
<1>7. CASE Write
  BY <1>7, WriteKeepsWriter
<1>8. CASE WriteFails
  <2>1. todo' = <<>>
    BY <1>8 DEF WriteFails
  <2>2. DOMAIN handle' = DOMAIN handle
    BY <1>8 DEF WriteFails
  <2> QED
    BY <2>1, <2>2
<1>9. CASE Crash \/ Close
  BY <1>9 DEF Crash, Close, Idle, NoVault, callVars
<1>10. ASSUME NEW key, NEW admin, OpenWith(key, admin) PROVE WriterInv'
  BY <1>10 DEF OpenWith, OpenChain, callVars
<1>11. CASE TakeChangeLog
  BY <1>11 DEF TakeChangeLog, Idle, callVars
<1>12. ASSUME NEW password \in Passwords, NEW admin \in BOOLEAN, Open(password, admin)
       PROVE WriterInv'
  BY <1>12, <1>10 DEF Open
<1>13. ASSUME NEW p \in Peers, OpenAsRecipient(p) PROVE WriterInv'
  BY <1>13, <1>10 DEF OpenAsRecipient
<1> QED
  BY <1>2, <1>3, <1>4, <1>5, <1>6, <1>7, <1>8, <1>9, <1>11, <1>12, <1>13 DEF VaultNext

-------------------------------------------------------------------------------
(***************************************************************************)
(* The walk along the overflow chain of a file, turn by turn.  Index       *)
(* blocks point to higher blocks; data that parses as an index block       *)
(* points anywhere.                                                        *)
(***************************************************************************)
ChainsAscend(s) ==
  \A b \in Blocks : s[b].body.kind = "index" =>
    /\ s[b].body.list \in Seq(Blocks)
    /\ s[b].body.next \in Blocks
    /\ s[b].body.next = 0 \/ s[b].body.next > b

LEMMA BlocksAreNumbers ==
  /\ NumBlocks \in Nat /\ NumBlocks # 0
  /\ \A b \in Blocks : b \in Nat /\ b < NumBlocks
  /\ 0 \in Blocks
  BY NumBlocksAssumption DEF Blocks

NextOf(s, b) == Parsed(s[b].body).next
ListOf(s, b) == Parsed(s[b].body).list

LEMMA ParsedTyped ==
  ASSUME NEW s, ChainsAscend(s), NEW b \in Blocks, Parses(s[b].body)
  PROVE  NextOf(s, b) \in Nat /\ ListOf(s, b) \in Seq(Nat)
<1> DEFINE body == s[b].body
           c == <<body.version, body.number>>
<1>1. CASE body.kind = "index"
  <2>1. Parsed(body) = body
    BY <1>1 DEF Parsed
  <2>2. body.list \in Seq(Blocks) /\ body.next \in Blocks
    BY <1>1 DEF ChainsAscend
  <2>3. body.next \in Nat
    BY <2>2, BlocksAreNumbers
  <2>4. body.list \in Seq(Nat)
    <3>1. Blocks \subseteq Nat
      BY BlocksAreNumbers
    <3> HIDE DEF body
    <3> QED BY <2>2, <3>1, SequenceOverMore
  <2> QED BY <2>1, <2>3, <2>4 DEF NextOf, ListOf
<1>2. CASE ~ (body.kind = "index")
  <2>1. c \in DOMAIN IndexLike /\ Parsed(body) = IndexLike[c]
    BY <1>2 DEF Parses, Parsed
  <2>2. IndexLike[c].next \in Nat /\ IndexLike[c].list \in Seq(Nat)
    BY <2>1, IndexLikeAssumption
  <2> QED BY <2>1, <2>2 DEF NextOf, ListOf
<1> QED BY <1>1, <1>2

Reached == [end |-> "reached", all |-> <<>>, data |-> <<>>]
StopsAt(how, b) == [end |-> how, all |-> <<b>>, data |-> <<>>]
WalkFrom(s, b, rest) ==
  [end  |-> rest.end,
   all  |-> <<b>> \o ListOf(s, b) \o rest.all,
   data |-> ListOf(s, b) \o rest.data]

(* One turn of the walk, given the walks that may still take one turn less. *)
WalkTurn(s, key, id, turns, b, shorter) ==
  IF b = 0 THEN Reached
  ELSE IF ~ReadableIndex(s, key, id, b) THEN StopsAt("error", b)
  ELSE IF turns = 0 THEN StopsAt("never", b)
  ELSE WalkFrom(s, b, shorter[NextOf(s, b)])
WalkTurns(walk, s, key, id, n) ==
  \A turns \in 0 .. n :
    walk[turns] = [b \in Nat |-> WalkTurn(s, key, id, turns, b, walk[turns - 1])]

LEMMA WalkExists ==
  ASSUME NEW s, NEW key, NEW id
  PROVE  \E walk : DOMAIN walk = 0 .. NumBlocks /\ WalkTurns(walk, s, key, id, NumBlocks)
<1> DEFINE U == {n \in Nat : n <= NumBlocks =>
                   \E walk : DOMAIN walk = 0 .. NumBlocks /\ WalkTurns(walk, s, key, id, n)}
<1>1. 0 \in U
  <2> DEFINE first == [b \in Nat |-> WalkTurn(s, key, id, 0, b, 0)]
             walk == [turns \in 0 .. NumBlocks |-> first]
  <2>1. \A b, shorter : WalkTurn(s, key, id, 0, b, shorter) = WalkTurn(s, key, id, 0, b, 0)
    BY DEF WalkTurn
  <2>2. walk[0] = first /\ DOMAIN walk = 0 .. NumBlocks
    BY BlocksAreNumbers
  <2>3. first = [b \in Nat |-> WalkTurn(s, key, id, 0, b, walk[0 - 1])]
    BY <2>1
  <2> HIDE DEF first, walk
  <2>4. WalkTurns(walk, s, key, id, 0)
    <3>1. \A turns \in 0 .. 0 : turns = 0
      OBVIOUS
    <3> QED BY <2>2, <2>3, <3>1 DEF WalkTurns
  <2> QED BY <2>2, <2>4
<1>2. \A n \in Nat : n \in U => n + 1 \in U
  <2> SUFFICES ASSUME NEW n \in Nat, n \in U, n + 1 <= NumBlocks
               PROVE  \E walk : DOMAIN walk = 0 .. NumBlocks /\ WalkTurns(walk, s, key, id, n + 1)
    OBVIOUS
  <2>1. PICK f : DOMAIN f = 0 .. NumBlocks /\ WalkTurns(f, s, key, id, n)
    BY BlocksAreNumbers
  <2> DEFINE last == [b \in Nat |-> WalkTurn(s, key, id, n + 1, b, f[n])]
             walk == [turns \in 0 .. NumBlocks |-> IF turns = n + 1 THEN last ELSE f[turns]]
  <2>2. walk[n + 1] = last /\ DOMAIN walk = 0 .. NumBlocks
    BY BlocksAreNumbers
  <2>3. \A turns \in 0 .. n : walk[turns] = f[turns]
    BY BlocksAreNumbers
  <2> HIDE DEF walk
  <2>4. ASSUME NEW turns \in 0 .. n + 1
        PROVE  walk[turns] = [b \in Nat |-> WalkTurn(s, key, id, turns, b, walk[turns - 1])]
    <3>1. CASE turns = n + 1
      <4>1. turns - 1 = n /\ walk[n] = f[n]
        BY <2>3, <3>1
      <4> QED BY <2>2, <3>1, <4>1
    <3>2. CASE turns \in 1 .. n
      <4>1. turns \in 0 .. n /\ turns - 1 \in 0 .. n
        BY <3>2
      <4>2. walk[turns] = f[turns] /\ walk[turns - 1] = f[turns - 1]
        BY <2>3, <4>1
      <4>3. f[turns] = [b \in Nat |-> WalkTurn(s, key, id, turns, b, f[turns - 1])]
        BY <2>1, <4>1 DEF WalkTurns
      <4> QED BY <4>2, <4>3
    <3>3. CASE turns = 0
      <4>1. \A b, g, h : WalkTurn(s, key, id, 0, b, g) = WalkTurn(s, key, id, 0, b, h)
        BY DEF WalkTurn
      <4>2. f[0] = [b \in Nat |-> WalkTurn(s, key, id, 0, b, f[0 - 1])]
        BY <2>1 DEF WalkTurns
      <4>3. walk[0] = f[0]
        BY <2>3
      <4>4. \A b \in Nat : WalkTurn(s, key, id, 0, b, f[0 - 1]) = WalkTurn(s, key, id, 0, b, walk[0 - 1])
        BY <4>1
      <4>5. f[0] = [b \in Nat |-> WalkTurn(s, key, id, 0, b, walk[0 - 1])]
        BY <4>2, <4>4
      <4> QED BY <3>3, <4>3, <4>5
    <3> QED BY <3>1, <3>2, <3>3
  <2>5. WalkTurns(walk, s, key, id, n + 1)
    BY <2>4 DEF WalkTurns
  <2> QED BY <2>2, <2>5
<1>3. NumBlocks \in U
  <2> HIDE DEF U
  <2> QED BY <1>1, <1>2, BlocksAreNumbers, SetInduction
<1> QED BY <1>3, BlocksAreNumbers

(* The walks as OverflowWalk defines them: Walks(..)[turns][b] is the walk *)
(* from block b on that may take so many turns.                            *)
IsWalk(walk, s, key, id) ==
  walk = [turns \in 0 .. NumBlocks |->
    [b \in Nat |->
       IF b = 0 THEN [end |-> "reached", all |-> <<>>, data |-> <<>>]
       ELSE IF ~ReadableIndex(s, key, id, b)
       THEN [end |-> "error", all |-> <<b>>, data |-> <<>>]
       ELSE IF turns = 0
       THEN [end |-> "never", all |-> <<b>>, data |-> <<>>]
       ELSE LET here == Parsed(s[b].body)
                rest == walk[turns - 1][here.next]
            IN  [end  |-> rest.end,
                 all  |-> <<b>> \o here.list \o rest.all,
                 data |-> here.list \o rest.data]]]
Walks(s, key, id) ==
  CHOOSE walk : walk = [turns \in 0 .. NumBlocks |->
    [b \in Nat |->
       IF b = 0 THEN [end |-> "reached", all |-> <<>>, data |-> <<>>]
       ELSE IF ~ReadableIndex(s, key, id, b)
       THEN [end |-> "error", all |-> <<b>>, data |-> <<>>]
       ELSE IF turns = 0
       THEN [end |-> "never", all |-> <<b>>, data |-> <<>>]
       ELSE LET here == Parsed(s[b].body)
                rest == walk[turns - 1][here.next]
            IN  [end  |-> rest.end,
                 all  |-> <<b>> \o here.list \o rest.all,
                 data |-> here.list \o rest.data]]]
Walk(s, key, id, turns, b) == Walks(s, key, id)[turns][b]

LEMMA WalkIsChosen ==
  ASSUME NEW s, NEW key, NEW id, NEW b
  PROVE  OverflowWalk(s, key, id, b) = Walk(s, key, id, NumBlocks, b)
  BY DEF OverflowWalk, Walk, Walks

LEMMA WalksAre ==
  ASSUME NEW s, NEW key, NEW id, NEW walk
  PROVE  IsWalk(walk, s, key, id)
           <=> walk = [turns \in 0 .. NumBlocks |->
                         [b \in Nat |-> WalkTurn(s, key, id, turns, b, walk[turns - 1])]]
  BY DEF IsWalk, WalkTurn, WalkFrom, Reached, StopsAt, NextOf, ListOf

LEMMA WalkUnfolds ==
  ASSUME NEW s, NEW key, NEW id, NEW turns \in 0 .. NumBlocks, NEW b \in Nat
  PROVE  Walk(s, key, id, turns, b)
           = WalkTurn(s, key, id, turns, b, Walks(s, key, id)[turns - 1])
<1>1. PICK g : DOMAIN g = 0 .. NumBlocks /\ WalkTurns(g, s, key, id, NumBlocks)
  BY WalkExists
<1> DEFINE h == [n \in 0 .. NumBlocks |-> g[n]]
           outer(walk) == [n \in 0 .. NumBlocks |->
                             [c \in Nat |-> WalkTurn(s, key, id, n, c, walk[n - 1])]]
<1>2. h = outer(h)
  <2>1. ASSUME NEW n \in 0 .. NumBlocks, NEW c \in Nat
        PROVE  WalkTurn(s, key, id, n, c, g[n - 1]) = WalkTurn(s, key, id, n, c, h[n - 1])
    <3>1. CASE n = 0
      BY <3>1 DEF WalkTurn
    <3>2. CASE n # 0
      <4>1. n - 1 \in 0 .. NumBlocks
        BY <3>2, BlocksAreNumbers
      <4>2. h[n - 1] = g[n - 1]
        BY <4>1
      <4> HIDE DEF h
      <4> QED BY <4>2
    <3> QED BY <3>1, <3>2
  <2>2. \A n \in 0 .. NumBlocks : g[n] = [c \in Nat |-> WalkTurn(s, key, id, n, c, g[n - 1])]
    BY <1>1 DEF WalkTurns
  <2>3. ASSUME NEW n \in 0 .. NumBlocks
        PROVE  g[n] = [c \in Nat |-> WalkTurn(s, key, id, n, c, h[n - 1])]
    <3> HIDE DEF h
    <3>1. \A c \in Nat : WalkTurn(s, key, id, n, c, g[n - 1]) = WalkTurn(s, key, id, n, c, h[n - 1])
      BY <2>1
    <3> QED BY <2>2, <3>1
  <2>4. \A n \in 0 .. NumBlocks : h[n] = outer(h)[n]
    BY <2>3
  <2> QED BY <2>4
<1> HIDE DEF h
<1>3. IsWalk(h, s, key, id)
  BY <1>2, WalksAre
<1>4. IsWalk(Walks(s, key, id), s, key, id)
  BY <1>3 DEF IsWalk, Walks
<1> DEFINE w == Walks(s, key, id)
<1>5. w = [n \in 0 .. NumBlocks |->
             [c \in Nat |-> WalkTurn(s, key, id, n, c, w[n - 1])]]
  BY <1>4, WalksAre
<1> HIDE DEF w
<1>6. w[turns][b] = WalkTurn(s, key, id, turns, b, w[turns - 1])
  <2> DEFINE row(n) == [c \in Nat |-> WalkTurn(s, key, id, n, c, w[n - 1])]
  <2>1. w = [n \in 0 .. NumBlocks |-> row(n)]
    BY <1>5
  <2>2. row(turns)[b] = WalkTurn(s, key, id, turns, b, w[turns - 1])
    OBVIOUS
  <2> HIDE DEF row
  <2>3. w[turns] = row(turns)
    BY <2>1
  <2> QED BY <2>2, <2>3
<1> QED BY <1>6 DEF Walk, w

(* What one turn of a walk finds.                                          *)
LEMMA WalkStops ==
  ASSUME NEW s, NEW key, NEW id, NEW turns \in 0 .. NumBlocks, NEW b \in Nat
  PROVE  /\ b = 0 => Walk(s, key, id, turns, b) = Reached
         /\ b # 0 /\ ~ReadableIndex(s, key, id, b)
              => Walk(s, key, id, turns, b) = StopsAt("error", b)
         /\ b # 0 /\ ReadableIndex(s, key, id, b) /\ turns = 0
              => Walk(s, key, id, turns, b) = StopsAt("never", b)
         /\ b # 0 /\ ReadableIndex(s, key, id, b) /\ turns # 0
              => Walk(s, key, id, turns, b)
                   = WalkFrom(s, b, Walk(s, key, id, turns - 1, NextOf(s, b)))
  BY WalkUnfolds DEF WalkTurn, Walk

(* What holds where a walk stops, and before a turn if after it, holds of  *)
(* all walks.                                                              *)
GoesOn(s, key, id, turns, b) == b # 0 /\ turns # 0 /\ ReadableIndex(s, key, id, b)

LEMMA WalkInduction ==
  ASSUME NEW s, ChainsAscend(s), NEW key, NEW id, NEW T,
         \A turns \in 0 .. NumBlocks, b \in Nat :
           (GoesOn(s, key, id, turns, b) => <<turns - 1, NextOf(s, b)>> \in T)
             => <<turns, b>> \in T
  PROVE  \A turns \in 0 .. NumBlocks, b \in Nat : <<turns, b>> \in T
<1> DEFINE U == {n \in Nat : n <= NumBlocks => \A b \in Nat : <<n, b>> \in T}
<1>1. 0 \in U
  <2>1. \A b \in Nat : ~GoesOn(s, key, id, 0, b)
    BY DEF GoesOn
  <2>2. 0 \in 0 .. NumBlocks
    BY BlocksAreNumbers
  <2>3. \A b \in Nat : <<0, b>> \in T
    BY <2>1, <2>2
  <2> QED BY <2>3
<1>2. \A n \in Nat : n \in U => n + 1 \in U
  <2> SUFFICES ASSUME NEW n \in Nat, n \in U, n + 1 <= NumBlocks, NEW b \in Nat
               PROVE  <<n + 1, b>> \in T
    OBVIOUS
  <2>1. \A c \in Nat : <<n, c>> \in T
    BY BlocksAreNumbers
  <2>2. n + 1 \in 0 .. NumBlocks /\ (n + 1) - 1 = n
    BY BlocksAreNumbers
  <2>3. GoesOn(s, key, id, n + 1, b) => NextOf(s, b) \in Nat
    BY ParsedTyped DEF GoesOn, ReadableIndex, Readable
  <2> QED BY <2>1, <2>2, <2>3
<1>3. Nat \subseteq U
  <2> HIDE DEF U
  <2> QED BY <1>1, <1>2, SetInduction
<1>4. ASSUME NEW turns \in 0 .. NumBlocks, NEW b \in Nat PROVE <<turns, b>> \in T
  <2>1. turns \in Nat /\ turns <= NumBlocks
    BY BlocksAreNumbers
  <2>2. turns \in U
    BY <1>3, <2>1
  <2> QED BY <2>1, <2>2
<1> HIDE DEF U
<1> QED BY <1>4

(* The walk only meets numbers.                                            *)
LEMMA WalkMeetsNumbers ==
  ASSUME NEW s, ChainsAscend(s), NEW key, NEW id
  PROVE  \A turns \in 0 .. NumBlocks, b \in Nat :
           Walk(s, key, id, turns, b).all \in Seq(Nat) /\ Walk(s, key, id, turns, b).data \in Seq(Nat)
<1> DEFINE Typed(n, c) == /\ Walk(s, key, id, n, c).all \in Seq(Nat)
                          /\ Walk(s, key, id, n, c).data \in Seq(Nat)
           T == {x \in (0 .. NumBlocks) \X Nat : Typed(x[1], x[2])}
<1>1. ASSUME NEW n \in 0 .. NumBlocks, NEW c \in Nat,
             GoesOn(s, key, id, n, c) => Typed(n - 1, NextOf(s, c))
      PROVE  Typed(n, c)
  <2>1. CASE c = 0
    <3>1. Walk(s, key, id, n, c) = Reached
      BY <2>1, WalkStops
    <3>2. Reached.all = <<>> /\ Reached.data = <<>>
      BY DEF Reached
    <3>3. <<>> \in Seq(Nat)
      OBVIOUS
    <3> QED BY <3>1, <3>2, <3>3
  <2>2. CASE c # 0 /\ ~GoesOn(s, key, id, n, c)
    <3>1. \E how : Walk(s, key, id, n, c) = StopsAt(how, c)
      BY <2>2, WalkStops DEF GoesOn
    <3>2. \A how : StopsAt(how, c).all = <<c>> /\ StopsAt(how, c).data = <<>>
      BY DEF StopsAt
    <3>3. <<c>> \in Seq(Nat) /\ <<>> \in Seq(Nat)
      OBVIOUS
    <3> QED BY <3>1, <3>2, <3>3
  <2>3. CASE GoesOn(s, key, id, n, c)
    <3> DEFINE rest == Walk(s, key, id, n - 1, NextOf(s, c))
               list == ListOf(s, c)
    <3>1. Walk(s, key, id, n, c) = WalkFrom(s, c, rest)
      BY <2>3, WalkStops DEF GoesOn
    <3>2. list \in Seq(Nat)
      BY <2>3, ParsedTyped DEF GoesOn, ReadableIndex, Readable
    <3>3. rest.all \in Seq(Nat) /\ rest.data \in Seq(Nat)
      BY <1>1, <2>3
    <3> HIDE DEF rest
    <3>4. /\ WalkFrom(s, c, rest).all = <<c>> \o list \o rest.all
          /\ WalkFrom(s, c, rest).data = list \o rest.data
      BY DEF WalkFrom
    <3> HIDE DEF list
    <3>5. <<c>> \o list \o rest.all \in Seq(Nat) /\ list \o rest.data \in Seq(Nat)
      BY <3>2, <3>3
    <3> QED BY <3>1, <3>4, <3>5
  <2> QED BY <2>1, <2>2, <2>3 DEF GoesOn
<1>2. \A n \in 0 .. NumBlocks, c \in Nat :
        (GoesOn(s, key, id, n, c) => <<n - 1, NextOf(s, c)>> \in T) => <<n, c>> \in T
  BY <1>1
<1>3. \A n \in 0 .. NumBlocks, c \in Nat : <<n, c>> \in T
  <2> HIDE DEF T
  <2> QED BY <1>2, WalkInduction
<1> QED BY <1>3

LEMMA FilesAreNumbers ==
  ASSUME NEW s, ChainsAscend(s), NEW key, NEW e,
         e.direct \in Seq(Blocks), e.overflow \in Blocks
  PROVE  AllBlocks(s, key, e) \in Seq(Nat) /\ DataBlocks(s, key, e) \in Seq(Nat)
<1>1. e.overflow \in Nat /\ NumBlocks \in 0 .. NumBlocks
  BY BlocksAreNumbers
<1>2. /\ OverflowWalk(s, key, e.id, e.overflow).all \in Seq(Nat)
      /\ OverflowWalk(s, key, e.id, e.overflow).data \in Seq(Nat)
  BY <1>1, WalkMeetsNumbers, WalkIsChosen
<1>3. e.direct \in Seq(Nat)
  <2>1. Blocks \subseteq Nat
    BY BlocksAreNumbers
  <2> QED BY <2>1, SequenceOverMore
<1> QED BY <1>2, <1>3 DEF AllBlocks, DataBlocks

-------------------------------------------------------------------------------
(***************************************************************************)
(* What the allocator hands out, and what is laid over it.                 *)
(***************************************************************************)
LEMMA AllocatedBlocks ==
  ASSUME NEW bits, NEW count \in Nat
  PROVE  LET blocks == Allocate(bits, count) IN
         /\ FreeCount(bits) \in Nat
         /\ blocks \in Seq(FreeBlocks(bits))
         /\ blocks \in Seq(Blocks)
         /\ Len(blocks) = IF count < FreeCount(bits) THEN count ELSE FreeCount(bits)
         /\ \A k, l \in 1 .. Len(blocks) : k < l => blocks[k] < blocks[l]
<1> DEFINE free == FreeBlocks(bits)
           first == FirstFit(bits, count)
<1>1. NumBlocks \in Nat /\ free \in SUBSET (0 .. NumBlocks - 1) /\ free \subseteq Blocks
  BY BlocksAreNumbers DEF FreeBlocks, Blocks
<1>2. IsFiniteSet(free) /\ Cardinality(free) \in Nat
  BY <1>1, RankedAscends
<1>3. first = {b \in free : Cardinality({c \in free : c < b}) < count}
  BY DEF FirstFit
<1>4. /\ first \subseteq free
      /\ Cardinality(first) = IF count < Cardinality(free) THEN count ELSE Cardinality(free)
  <2> HIDE DEF free, first
  <2> QED BY <1>1, <1>3, RankedFirst
<1>5. Allocate(bits, count) = Ranked(first)
  BY DEF Allocate, InOrder, Ranked
<1> HIDE DEF free, first
<1>6. first \in SUBSET (0 .. NumBlocks - 1)
  BY <1>1, <1>4
<1>7. /\ Ranked(first) \in Seq(first) /\ Len(Ranked(first)) = Cardinality(first)
      /\ \A k, l \in 1 .. Len(Ranked(first)) : k < l => Ranked(first)[k] < Ranked(first)[l]
  BY <1>1, <1>6, RankedAscends
<1>8. Ranked(first) \in Seq(free) /\ Ranked(first) \in Seq(Blocks)
  BY <1>1, <1>4, <1>7, SequenceOverMore
<1> QED
  BY <1>2, <1>4, <1>5, <1>7, <1>8 DEF FreeCount, free

LEMMA BlocksNeededIs ==
  ASSUME NEW size \in Nat
  PROVE  /\ IndexBlocksNeeded(size) \in Nat
         /\ size > Direct => IndexBlocksNeeded(size) >= 1
         /\ BlocksNeeded(size) \in Nat
         /\ size <= Direct => BlocksNeeded(size) = size
         /\ size > Direct => BlocksNeeded(size) >= size + 1
<1>1. Direct \in Nat /\ PerIndex \in Nat \ {0}
  BY DirectAssumption, PerIndexAssumption
<1>2. CASE size <= Direct
  BY <1>1, <1>2 DEF IndexBlocksNeeded, BlocksNeeded
<1>3. CASE size > Direct
  <2> DEFINE rest == size - Direct + PerIndex - 1
  <2>1. rest \in Nat /\ rest >= PerIndex
    BY <1>1, <1>3
  <2> HIDE DEF rest
  <2>2. rest \div PerIndex \in Nat /\ rest \div PerIndex >= 1
    BY <1>1, <2>1
  <2>3. IndexBlocksNeeded(size) = rest \div PerIndex
    BY <1>1, <1>3 DEF IndexBlocksNeeded, rest
  <2> HIDE DEF rest
  <2> QED BY <1>1, <1>3, <2>2, <2>3 DEF BlocksNeeded
<1> QED BY <1>1, <1>2, <1>3

(***************************************************************************)
(* The shape of what is in the file, in memory and still to be written.    *)
(***************************************************************************)
Bodies(b) ==
  [kind : {"chunk"}, version : Int, number : Int]
    \union {body \in [kind : {"index"}, next : Blocks, list : Seq(Blocks)] :
              b # 0 /\ (body.next = 0 \/ body.next > b)}
WellSealed(b) == [key : Keys, id : Ids, body : Bodies(b)]

BlockWrites == UNION {[region : {"block"}, at : {b}, value : WellSealed(b),
                       bits : SUBSET Blocks] : b \in Blocks}
BitmapWrites == [region : {"bitmap"}, at : {0}, bits : SUBSET Blocks]
SlotWrites == [region : {"slot"}, at : FileSlots, value : Entry]
Recipients == [peer : Peers, dek : Keys] \union {NoRecipient}
RecipientWrites == [region : {"recipient"}, at : RecipientSlots, value : Recipients]
KeySlotWrites == [region : {"keyslot"}, at : {0}, value : AdminSlot]
ChainWrites == [region : {"chain", "header"}, at : {0}]
Writes == BlockWrites \union BitmapWrites \union SlotWrites \union RecipientWrites
            \union KeySlotWrites \union ChainWrites

WellStored(s) ==
  /\ s = [b \in Blocks |-> s[b]]
  /\ \A b \in Blocks : s[b] = NeverWritten \/ s[b] \in WellSealed(b)
WellListed(t) ==
  t = [i \in FileSlots |-> t[i]] /\ \A i \in FileSlots : t[i] \in Entry \union {NoEntry}
WellGranted(k) ==
  k = [i \in RecipientSlots |-> k[i]] /\ \A i \in RecipientSlots : k[i] \in Recipients

FileShape ==
  /\ adminSlot \in AdminSlot
  /\ bitmap \subseteq Blocks
  /\ WellListed(table)
  /\ WellGranted(keyring)
  /\ WellStored(store)
HandleShape ==
  /\ handle \in [admin : BOOLEAN, key : Keys, alloc : SUBSET Blocks, adminSlot : AdminSlot]
  /\ changeLog \subseteq Regions \X Nat
CallShape ==
  /\ doing \in [call : Calls \union {"none"}, name : Names \union {NoName}]
  /\ doing.call \in {"update", "delete"} => doing.name \in Names
  /\ todo \in Seq(Writes)
HistoryShape ==
  /\ faults \in 0 .. MaxFaults
  /\ held \in [Peers -> SUBSET Keys]
  /\ hurt \subseteq Names
ShapeInv == FileShape /\ HandleShape /\ CallShape /\ HistoryShape

LEMMA InitShape == VaultInit => ShapeInv
<1> SUFFICES ASSUME VaultInit PROVE ShapeInv
  OBVIOUS
<1>1. 0 \in Keys
  BY BoundsAssumption DEF Keys
<1>2. adminSlot \in AdminSlot
  BY <1>1, PasswordsAssumption DEF VaultInit, AdminSlot
<1>3. WellStored(store)
  BY DEF VaultInit, WellStored
<1>4. WellListed(table)
  BY DEF VaultInit, WellListed
<1>5. WellGranted(keyring)
  BY DEF VaultInit, WellGranted, Recipients
<1>6. FileShape
  BY <1>2, <1>3, <1>4, <1>5 DEF FileShape, VaultInit
<1>7. HandleShape
  BY <1>1, <1>2 DEF VaultInit, HandleShape
<1>8. CallShape
  BY DEF VaultInit, CallShape, NoCall
<1>9. HistoryShape
  BY BoundsAssumption DEF VaultInit, HistoryShape
<1> QED BY <1>6, <1>7, <1>8, <1>9 DEF ShapeInv

LEMMA WellStoredAscends ==
  ASSUME NEW s, WellStored(s)
  PROVE  /\ ChainsAscend(s)
         /\ \A b \in Blocks : s[b].body.kind = "index" => b # 0
         /\ \A b \in Blocks : s[b].body \in Bodies(b)
<1>1. ASSUME NEW b \in Blocks PROVE s[b].body \in Bodies(b)
  <2>1. CASE s[b] = NeverWritten
    <3>1. s[b].body = Chunk(-1, 0)
      BY <2>1 DEF NeverWritten, Sealed
    <3>2. Chunk(-1, 0) \in [kind : {"chunk"}, version : Int, number : Int]
      BY DEF Chunk
    <3> QED BY <3>1, <3>2 DEF Bodies
  <2>2. CASE s[b] \in WellSealed(b)
    BY <2>2 DEF WellSealed
  <2> QED BY <2>1, <2>2 DEF WellStored
<1>2. ASSUME NEW b \in Blocks, s[b].body.kind = "index"
      PROVE  /\ s[b].body.list \in Seq(Blocks) /\ s[b].body.next \in Blocks
             /\ b # 0
             /\ s[b].body.next = 0 \/ s[b].body.next > b
  <2>1. s[b].body \in [kind : {"index"}, next : Blocks, list : Seq(Blocks)]
    BY <1>1, <1>2 DEF Bodies
  <2>2. b # 0 /\ (s[b].body.next = 0 \/ s[b].body.next > b)
    BY <1>1, <1>2 DEF Bodies
  <2>3. s[b].body.list \in Seq(Blocks) /\ s[b].body.next \in Blocks
    BY <2>1
  <2> QED BY <2>2, <2>3
<1> QED BY <1>1, <1>2 DEF ChainsAscend

LEMMA ListedEntries ==
  ASSUME WellListed(table), NEW i \in ListedSlots
  PROVE  /\ i \in FileSlots /\ table[i] \in Entry /\ table[i].id \in Ids
         /\ table[i].direct \in Seq(Blocks) /\ table[i].overflow \in Blocks
         /\ table[i].size \in Sizes /\ table[i].name \in Names
<1>1. i \in FileSlots /\ table[i].listed = TRUE
  BY DEF ListedSlots, WellListed, Entry, NoEntry
<1>2. table[i] # NoEntry
  BY <1>1 DEF NoEntry
<1>3. table[i] \in Entry
  BY <1>1, <1>2 DEF WellListed
<1> QED BY <1>1, <1>3 DEF Entry

-------------------------------------------------------------------------------
(***************************************************************************)
(* The writes that a call makes have the shape of writes.                  *)
(***************************************************************************)
LEMMA BodiesShape ==
  ASSUME NEW bits, NEW size \in Nat, NEW version \in Int,
         NEW k \in 1 .. Len(StoreBlocks(bits, size))
  PROVE  LET blocks == StoreBlocks(bits, size) IN
         BodyOf(blocks, size, version, k) \in Bodies(blocks[k])
<1> DEFINE blocks == StoreBlocks(bits, size)
<1>1. BlocksNeeded(size) \in Nat /\ FreeCount(bits) \in Nat
  BY BlocksNeededIs, AllocatedBlocks
<1>2. /\ blocks \in Seq(Blocks) /\ Len(blocks) <= BlocksNeeded(size)
      /\ \A i, j \in 1 .. Len(blocks) : i < j => blocks[i] < blocks[j]
  BY <1>1, AllocatedBlocks DEF StoreBlocks
<1>3. Direct \in Nat /\ PerIndex \in Nat \ {0}
  BY DirectAssumption, PerIndexAssumption
<1> HIDE DEF blocks
<1>4. CASE k <= size
  <2>1. BodyOf(blocks, size, version, k) = Chunk(version, k)
    BY <1>4 DEF BodyOf
  <2>2. Chunk(version, k) \in [kind : {"chunk"}, version : Int, number : Int]
    BY DEF Chunk
  <2> QED BY <2>1, <2>2 DEF Bodies, blocks
<1>5. CASE ~ (k <= size)
  <2>1. k \in Nat /\ k >= 1 /\ Len(blocks) \in Nat /\ k <= Len(blocks) /\ size < k
    BY <1>2, <1>5 DEF blocks
  <2>2. size # 0
    <3>1. size = 0 => BlocksNeeded(size) = 0
      BY <1>3, BlocksNeededIs
    <3> QED BY <3>1, <1>1, <1>2, <2>1
  <2> DEFINE first == Direct + (k - size - 1) * PerIndex + 1
             last == AtMost(first + PerIndex - 1, size)
             next == IF k < Len(blocks) THEN blocks[k + 1] ELSE 0
             list == SubSeq(blocks, first, last)
  <2>3. BodyOf(blocks, size, version, k) = Index(next, list)
    BY <1>5 DEF BodyOf
  <2>4. first \in Nat /\ first >= 1
    <3>1. k - size - 1 \in Nat
      BY <2>1
    <3>2. (k - size - 1) * PerIndex \in Nat
      BY <3>1, <1>3
    <3> QED BY <3>2, <1>3
  <2> HIDE DEF first
  <2>5. last \in Nat /\ last <= Len(blocks)
    BY <2>1, <2>4, <1>3 DEF AtMost
  <2> HIDE DEF last
  <2>6. list \in Seq(Blocks)
    BY <1>2, <2>4, <2>5
  <2> HIDE DEF list
  <2>7. 1 \in 1 .. Len(blocks) /\ k \in 1 .. Len(blocks) /\ 1 < k
    BY <2>1, <2>2
  <2>8. blocks[1] \in Blocks /\ blocks[k] \in Blocks /\ blocks[1] < blocks[k]
    BY <1>2, <2>7
  <2>9. blocks[k] # 0
    BY <2>8, BlocksAreNumbers
  <2>10. next \in Blocks /\ (next = 0 \/ next > blocks[k])
    <3>1. CASE k < Len(blocks)
      <4>1. k + 1 \in 1 .. Len(blocks) /\ k < k + 1
        BY <2>1, <3>1
      <4>2. blocks[k + 1] \in Blocks /\ blocks[k] < blocks[k + 1]
        BY <4>1, <2>7, <1>2
      <4> QED BY <3>1, <4>2, <2>8, BlocksAreNumbers
    <3>2. CASE ~ (k < Len(blocks))
      BY <3>2, BlocksAreNumbers
    <3> QED BY <3>1, <3>2
  <2> HIDE DEF next
  <2>11. Index(next, list) \in [kind : {"index"}, next : Blocks, list : Seq(Blocks)]
    BY <2>6, <2>10 DEF Index
  <2>12. Index(next, list).next = next
    BY DEF Index
  <2> QED BY <2>3, <2>9, <2>10, <2>11, <2>12 DEF Bodies, blocks
<1> QED BY <1>4, <1>5

LEMMA BlockWriteShape ==
  ASSUME NEW b \in Blocks, NEW sealed \in WellSealed(b), NEW bits \in SUBSET Blocks
  PROVE  BlockWrite(b, sealed, bits) \in Writes
<1>1. BlockWrite(b, sealed, bits)
        \in [region : {"block"}, at : {b}, value : WellSealed(b), bits : SUBSET Blocks]
  BY DEF BlockWrite
<1> QED BY <1>1 DEF BlockWrites, Writes

LEMMA OtherWritesShape ==
  /\ \A bits \in SUBSET Blocks : BitmapWrite(bits) \in Writes
  /\ \A i \in FileSlots, e \in Entry : SlotWrite(i, e) \in Writes
  /\ \A i \in RecipientSlots, r \in Recipients : RecipientWrite(i, r) \in Writes
  /\ \A slot \in AdminSlot : KeySlotWrite(slot) \in Writes
  /\ AppendWrites \in Seq(Writes)
<1>1. ASSUME NEW bits \in SUBSET Blocks PROVE BitmapWrite(bits) \in Writes
  BY DEF BitmapWrite, BitmapWrites, Writes
<1>2. ASSUME NEW i \in FileSlots, NEW e \in Entry PROVE SlotWrite(i, e) \in Writes
  BY DEF SlotWrite, SlotWrites, Writes
<1>3. ASSUME NEW i \in RecipientSlots, NEW r \in Recipients PROVE RecipientWrite(i, r) \in Writes
  BY DEF RecipientWrite, RecipientWrites, Writes
<1>4. ASSUME NEW slot \in AdminSlot PROVE KeySlotWrite(slot) \in Writes
  BY DEF KeySlotWrite, KeySlotWrites, Writes
<1>5. AppendWrites \in Seq(Writes)
  <2> DEFINE c == [region |-> "chain", at |-> 0]
             h == [region |-> "header", at |-> 0]
  <2>1. c \in Writes /\ h \in Writes
    BY DEF ChainWrites, Writes
  <2>2. AppendWrites = <<c, h>>
    BY DEF AppendWrites
  <2> HIDE DEF c, h
  <2> QED BY <2>1, <2>2
<1> QED BY <1>1, <1>2, <1>3, <1>4, <1>5

LEMMA StoreWritesShape ==
  ASSUME NEW bits \in SUBSET Blocks, NEW id \in Ids, NEW size \in Nat, NEW version \in Ids,
         handle.key \in Keys
  PROVE  StoreWrites(bits, id, size, version) \in Seq(Writes)
<1> DEFINE blocks == StoreBlocks(bits, size)
           after == MarkOccupied(bits, ToSet(blocks))
           write(k) == BlockWrite(blocks[k],
                         Sealed(handle.key, id, BodyOf(blocks, size, version, k)), after)
           writes == [k \in 1 .. Len(blocks) |-> write(k)]
<1>1. blocks \in Seq(Blocks)
  BY AllocatedBlocks, BlocksNeededIs DEF StoreBlocks
<1>2. after \in SUBSET Blocks
  BY DEF MarkOccupied
<1>3. version \in Int
  BY BoundsAssumption DEF Ids
<1>4. ASSUME NEW k \in 1 .. Len(blocks) PROVE write(k) \in Writes
  <2>1. BodyOf(blocks, size, version, k) \in Bodies(blocks[k])
    BY <1>3, BodiesShape
  <2>2. blocks[k] \in Blocks
    BY <1>1
  <2>3. Sealed(handle.key, id, BodyOf(blocks, size, version, k)) \in WellSealed(blocks[k])
    BY <2>1 DEF Sealed, WellSealed
  <2> HIDE DEF blocks, after
  <2> QED BY <1>2, <2>2, <2>3, BlockWriteShape
<1>5. Len(blocks) \in Nat
  BY <1>1
<1>6. writes \in Seq(Writes)
  <2> HIDE DEF write, blocks
  <2> QED BY <1>4, <1>5
<1>7. BitmapWrite(after) \in Writes
  <2> HIDE DEF after
  <2> QED BY <1>2, OtherWritesShape
<1>8. StoreWrites(bits, id, size, version) = writes \o <<BitmapWrite(after)>>
  BY DEF StoreWrites
<1> HIDE DEF writes, after
<1>9. <<BitmapWrite(after)>> \in Seq(Writes)
  BY <1>7
<1> QED BY <1>6, <1>8, <1>9

LEMMA NewEntryShape ==
  ASSUME NEW n \in Names, NEW id \in Ids, NEW size \in Sizes, NEW version \in Ids, NEW bits,
         FreeCount(bits) >= BlocksNeeded(size)
  PROVE  NewEntry(n, id, size, version, StoreBlocks(bits, size)) \in Entry
<1> DEFINE blocks == StoreBlocks(bits, size)
<1>1. size \in Nat
  BY SizesAssumption
<1>2. BlocksNeeded(size) \in Nat /\ FreeCount(bits) \in Nat
  BY <1>1, BlocksNeededIs, AllocatedBlocks
<1>3. blocks \in Seq(Blocks) /\ Len(blocks) = BlocksNeeded(size)
  BY <1>2, AllocatedBlocks DEF StoreBlocks
<1> HIDE DEF blocks
<1>4. Direct \in Nat /\ Direct # 0
  BY DirectAssumption
<1>8. BlocksNeeded(size) >= size
  <2>1. size > Direct => BlocksNeeded(size) >= size + 1
    BY <1>1, BlocksNeededIs
  <2>2. size <= Direct => BlocksNeeded(size) = size
    BY <1>1, BlocksNeededIs
  <2> QED BY <2>1, <2>2, <1>1, <1>2, <1>4
<1>5. AtMost(size, Direct) \in Nat /\ AtMost(size, Direct) <= Len(blocks)
  BY <1>1, <1>2, <1>3, <1>4, <1>8 DEF AtMost
<1>6. DirectOf(blocks, size) \in Seq(Blocks)
  BY <1>3, <1>5 DEF DirectOf
<1>7. OverflowOf(blocks, size) \in Blocks
  <2>1. CASE size > Direct
    <3>1. size + 1 \in 1 .. Len(blocks)
      BY <1>1, <1>3, <2>1, BlocksNeededIs
    <3> QED BY <1>3, <2>1, <3>1 DEF OverflowOf
  <2>2. CASE ~ (size > Direct)
    BY <2>2, BlocksAreNumbers DEF OverflowOf
  <2> QED BY <2>1, <2>2
<1> QED BY <1>6, <1>7 DEF NewEntry, Entry, blocks

(* The blocks of a file.  A revocation starts when it could read all of    *)
(* all files: it never writes past the end of the block region.            *)
StoredBy(s, key, e) == ToSet(AllBlocks(s, key, e))
Own(i) == StoredBy(store, handle.key, table[i])
AllReadable ==
  \A i \in ListedSlots :
    CollectOk(store, handle.key, table[i])
    /\ \A b \in Own(i) : Readable(store, handle.key, table[i].id, b)

LEMMA RevokeReads ==
  ASSUME NEW p, NEW password, RevokeAccess(p, password) PROVE AllReadable
<1>1. CurrentKey = handle.key
  BY DEF RevokeAccess, CanMutate, Idle, CurrentKey
<1> QED BY <1>1 DEF RevokeAccess, AllReadable, BlocksOf, Own, StoredBy

LEMMA ResealShape ==
  ASSUME FileShape, HandleShape, AllReadable, NEW i \in ListedSlots, NEW new \in Keys
  PROVE  ResealWrites(i, new) \in Seq(Writes)
<1> DEFINE blocks == AllBlocks(store, handle.key, table[i])
           write(k) == BlockWrite(blocks[k],
                         Sealed(new, table[i].id, store[blocks[k]].body), handle.alloc)
<1>1. WellStored(store) /\ ChainsAscend(store)
  BY WellStoredAscends DEF FileShape
<1>2. /\ table[i].id \in Ids
      /\ table[i].direct \in Seq(Blocks) /\ table[i].overflow \in Blocks
  BY ListedEntries DEF FileShape
<1>3. blocks \in Seq(Blocks)
  <2>1. blocks \in Seq(Nat)
    BY <1>1, <1>2, FilesAreNumbers
  <2>2. ToSet(blocks) \subseteq Blocks
    BY DEF AllReadable, Own, StoredBy, Readable
  <2> HIDE DEF blocks
  <2> QED BY <2>1, <2>2, SequenceOverFewer
<1>4. handle.alloc \in SUBSET Blocks
  BY DEF HandleShape
<1> HIDE DEF blocks
<1>5. ASSUME NEW k \in 1 .. Len(blocks) PROVE write(k) \in Writes
  <2>1. blocks[k] \in Blocks
    BY <1>3
  <2>2. store[blocks[k]].body \in Bodies(blocks[k])
    BY <1>1, <2>1, WellStoredAscends
  <2>3. Sealed(new, table[i].id, store[blocks[k]].body) \in WellSealed(blocks[k])
    BY <1>2, <2>2 DEF Sealed, WellSealed
  <2> QED BY <1>4, <2>1, <2>3, BlockWriteShape
<1>6. ResealWrites(i, new) = [k \in 1 .. Len(blocks) |-> write(k)]
  BY DEF ResealWrites, ResealEach, blocks
<1>7. Len(blocks) \in Nat
  BY <1>3
<1> HIDE DEF write
<1> QED BY <1>5, <1>6, <1>7

LEMMA ResealAllShape ==
  ASSUME FileShape, HandleShape, AllReadable, NEW new \in Keys
  PROVE  ResealAll(new) \in Seq(Writes)
<1> DEFINE each(i) == IF i - 1 \in ListedSlots THEN ResealWrites(i - 1, new) ELSE <<>>
           all == [i \in 1 .. MaxFiles |-> each(i)]
<1>1. ASSUME NEW i \in 1 .. MaxFiles PROVE each(i) \in Seq(Writes)
  <2>1. CASE i - 1 \in ListedSlots
    BY <2>1, ResealShape
  <2>2. CASE i - 1 \notin ListedSlots
    BY <2>2
  <2> QED BY <2>1, <2>2
<1>2. MaxFiles \in Nat
  BY MaxFilesAssumption
<1>3. ResealAll(new) = FlattenSeq(all)
  BY DEF ResealAll
<1> HIDE DEF each
<1>4. all \in Seq(Seq(Writes))
  BY <1>1, <1>2
<1> HIDE DEF all
<1> QED BY <1>3, <1>4, FlattenSeqFlattens

LEMMA RewrapShape ==
  ASSUME WellGranted(keyring), NEW slots \in SUBSET GrantedSlots, NEW new \in Keys
  PROVE  Rewrap(slots, new) \in Seq(Writes)
<1> DEFINE write(i) == RecipientWrite(i - 1, [keyring[i - 1] EXCEPT !.dek = new])
           each(i) == IF i - 1 \in slots THEN <<write(i)>> ELSE <<>>
           all == [i \in 1 .. MaxRecipients |-> each(i)]
<1>1. ASSUME NEW i \in 1 .. MaxRecipients PROVE each(i) \in Seq(Writes)
  <2>1. CASE i - 1 \in slots
    <3>1. i - 1 \in RecipientSlots /\ keyring[i - 1].peer # NoPeer
      BY <2>1 DEF GrantedSlots
    <3>2. keyring[i - 1] \in [peer : Peers, dek : Keys]
      BY <3>1 DEF WellGranted, Recipients, NoRecipient
    <3>3. [keyring[i - 1] EXCEPT !.dek = new] \in Recipients
      BY <3>2 DEF Recipients
    <3>4. write(i) \in Writes
      BY <3>1, <3>3, OtherWritesShape
    <3> HIDE DEF write
    <3> QED BY <2>1, <3>4
  <2>2. CASE i - 1 \notin slots
    BY <2>2
  <2> QED BY <2>1, <2>2
<1>2. MaxRecipients \in Nat
  BY MaxRecipientsAssumption
<1>3. Rewrap(slots, new) = FlattenSeq(all)
  BY DEF Rewrap
<1> HIDE DEF each
<1>4. all \in Seq(Seq(Writes))
  BY <1>1, <1>2
<1> HIDE DEF all
<1> QED BY <1>3, <1>4, FlattenSeqFlattens

LEMMA KeyringWritesShape ==
  ASSUME WellGranted(keyring), NEW revoked \in RecipientSlots, NEW new \in Keys
  PROVE  KeyringWrites(revoked, new) \in Seq(Writes)
<1>1. Rewrap(GrantedSlots \ {revoked}, new) \in Seq(Writes)
  BY RewrapShape
<1>2. RecipientWrite(revoked, NoRecipient) \in Writes
  BY OtherWritesShape DEF Recipients
<1>3. <<RecipientWrite(revoked, NoRecipient)>> \in Seq(Writes)
  BY <1>2
<1> QED BY <1>1, <1>3 DEF KeyringWrites

-------------------------------------------------------------------------------
(* A call that begins puts writes of that shape in todo.                   *)
LEMMA BeginKeepsShape ==
  ASSUME ShapeInv, NEW c \in Calls, NEW n \in Names \union {NoName}, NEW w \in Seq(Writes),
         c \in {"update", "delete"} => n \in Names, Begin(c, n, w),
         handle' \in [admin : BOOLEAN, key : Keys, alloc : SUBSET Blocks, adminSlot : AdminSlot]
  PROVE  ShapeInv'
<1>1. FileShape'
  BY DEF ShapeInv, Begin, FileShape, fileVars
<1>2. HandleShape'
  BY DEF ShapeInv, Begin, HandleShape
<1>3. CallShape'
  BY DEF Begin, CallShape
<1>4. HistoryShape'
  BY DEF ShapeInv, Begin, HistoryShape
<1> QED BY <1>1, <1>2, <1>3, <1>4 DEF ShapeInv

LEMMA NewIsAnId ==
  ASSUME CallsInv, CanMutate PROVE calls + 1 \in Ids /\ calls + 1 \in Keys
  BY BoundsAssumption DEF CallsInv, CanMutate, Ids, Keys

LEMMA AddFileShape ==
  ASSUME ShapeInv, CallsInv, NEW n \in Names, NEW size \in Sizes, AddFile(n, size)
  PROVE  ShapeInv'
<1> DEFINE new == calls + 1
           slot == Min(FreeSlots)
           blocks == StoreBlocks(handle.alloc, size)
           entry == NewEntry(n, new, size, new, blocks)
           writes == StoreWrites(handle.alloc, new, size, new)
<1>1. CanMutate /\ FreeSlots # {} /\ FreeCount(handle.alloc) >= BlocksNeeded(size)
  BY DEF AddFile
<1>2. new \in Ids
  BY <1>1, NewIsAnId
<1>3. slot \in FileSlots
  <2>1. FreeSlots \in SUBSET Nat
    BY MaxFilesAssumption DEF FreeSlots, FileSlots
  <2>2. slot \in FreeSlots
    BY <1>1, <2>1, MinExists
  <2> QED BY <2>2 DEF FreeSlots
<1>4. entry \in Entry
  BY <1>1, <1>2, NewEntryShape
<1>5. writes \in Seq(Writes)
  BY <1>2, SizesAssumption, StoreWritesShape DEF ShapeInv, HandleShape
<1>6. SlotWrite(slot, entry) \in Writes /\ AppendWrites \in Seq(Writes)
  <2> HIDE DEF slot, entry
  <2> QED BY <1>3, <1>4, OtherWritesShape
<1>7. Begin("add", n, ThenEntry(slot, entry, writes) \o AppendWrites) /\ UNCHANGED handle
  BY DEF AddFile
<1> HIDE DEF slot, entry, writes, new
<1>8. ThenEntry(slot, entry, writes) \o AppendWrites \in Seq(Writes)
  <2>1. <<SlotWrite(slot, entry)>> \in Seq(Writes)
    BY <1>6
  <2> QED BY <1>5, <1>6, <2>1 DEF ThenEntry
<1>9. "add" \in Calls
  BY DEF Calls
<1> QED BY <1>7, <1>8, <1>9, BeginKeepsShape DEF ShapeInv, HandleShape

LEMMA SlotByNameIs ==
  ASSUME NEW n, SlotsNamed(n) # {}
  PROVE  SlotByName(n) \in ListedSlots /\ SlotByName(n) \in SlotsNamed(n)
<1>1. SlotsNamed(n) \in SUBSET Nat
  BY MaxFilesAssumption DEF SlotsNamed, ListedSlots, FileSlots
<1>2. SlotByName(n) \in SlotsNamed(n)
  BY <1>1, MinExists DEF SlotByName
<1> QED BY <1>2 DEF SlotsNamed

LEMMA UpdateFileShape ==
  ASSUME ShapeInv, CallsInv, NEW n \in Names, NEW size \in Sizes, UpdateFile(n, size)
  PROVE  ShapeInv'
<1> DEFINE new == calls + 1
           slot == SlotByName(n)
           old == table[slot]
           oldBlocks == AllBlocks(store, handle.key, old)
           freed == Free(handle.alloc, ToSet(oldBlocks))
           blocks == StoreBlocks(freed, size)
           entry == NewEntry(n, old.id, size, new, blocks)
           writes == StoreWrites(freed, old.id, size, new)
           rest == IF FreeCount(freed) < BlocksNeeded(size)
                   THEN <<>> ELSE ThenEntry(slot, entry, writes) \o AppendWrites
<1>1. CanMutate /\ SlotsNamed(n) # {}
  BY DEF UpdateFile
<1>2. new \in Ids
  BY <1>1, NewIsAnId
<1>3. slot \in FileSlots /\ old.id \in Ids
  BY <1>1, SlotByNameIs, ListedEntries DEF ShapeInv, FileShape
<1>4. freed \in SUBSET Blocks /\ handle.key \in Keys
  BY DEF ShapeInv, HandleShape, Free
<1>5. Begin("update", n, <<BitmapWrite(freed)>> \o rest) /\ UNCHANGED handle
  BY DEF UpdateFile
<1>6. BitmapWrite(freed) \in Writes /\ AppendWrites \in Seq(Writes)
  BY <1>4, OtherWritesShape
<1> HIDE DEF slot, old, freed, new
<1>7. writes \in Seq(Writes)
  BY <1>2, <1>3, <1>4, SizesAssumption, StoreWritesShape
<1>8. rest \in Seq(Writes)
  <2>1. CASE FreeCount(freed) < BlocksNeeded(size)
    BY <2>1
  <2>2. CASE ~ (FreeCount(freed) < BlocksNeeded(size))
    <3>1. FreeCount(freed) >= BlocksNeeded(size)
      <4>1. size \in Nat
        BY SizesAssumption
      <4>2. BlocksNeeded(size) \in Nat /\ FreeCount(freed) \in Nat
        BY <4>1, AllocatedBlocks, BlocksNeededIs
      <4> QED BY <2>2, <4>2
    <3>2. entry \in Entry
      BY <1>2, <1>3, <3>1, NewEntryShape
    <3> HIDE DEF entry, writes
    <3>3. SlotWrite(slot, entry) \in Writes
      BY <1>3, <3>2, OtherWritesShape
    <3>4. <<SlotWrite(slot, entry)>> \in Seq(Writes)
      BY <3>3
    <3> QED BY <2>2, <1>6, <1>7, <3>4 DEF ThenEntry
  <2> QED BY <2>1, <2>2
<1> HIDE DEF rest
<1>9. <<BitmapWrite(freed)>> \o rest \in Seq(Writes)
  <2>1. <<BitmapWrite(freed)>> \in Seq(Writes)
    BY <1>6
  <2> QED BY <2>1, <1>8
<1>10. "update" \in Calls
  BY DEF Calls
<1> QED BY <1>5, <1>9, <1>10, BeginKeepsShape DEF ShapeInv, HandleShape

LEMMA DeleteFileShape ==
  ASSUME ShapeInv, CallsInv, NEW n \in Names, DeleteFile(n)
  PROVE  ShapeInv'
<1> DEFINE slot == SlotByName(n)
           old == table[slot]
           freed == Free(handle.alloc, BlocksOf(old))
           entry == [old EXCEPT !.listed = FALSE]
           writes == <<BitmapWrite(freed), SlotWrite(slot, entry)>>
<1>1. SlotsNamed(n) # {}
  BY DEF DeleteFile
<1>2. slot \in FileSlots /\ old \in Entry
  BY <1>1, SlotByNameIs, ListedEntries DEF ShapeInv, FileShape
<1>3. entry \in Entry
  BY <1>2 DEF Entry
<1>4. freed \in SUBSET Blocks
  BY DEF ShapeInv, HandleShape, Free
<1>5. Begin("delete", n, writes \o AppendWrites) /\ UNCHANGED handle
  BY DEF DeleteFile
<1> HIDE DEF slot, old, freed, entry
<1>6. /\ BitmapWrite(freed) \in Writes /\ SlotWrite(slot, entry) \in Writes
      /\ AppendWrites \in Seq(Writes)
  BY <1>2, <1>3, <1>4, OtherWritesShape
<1>7. writes \in Seq(Writes)
  BY <1>6
<1> HIDE DEF writes
<1>8. writes \o AppendWrites \in Seq(Writes)
  BY <1>6, <1>7
<1>9. "delete" \in Calls
  BY DEF Calls
<1> QED BY <1>5, <1>8, <1>9, BeginKeepsShape DEF ShapeInv, HandleShape

LEMMA GrantAccessShape ==
  ASSUME ShapeInv, CallsInv, NEW p \in Peers, GrantAccess(p)
  PROVE  ShapeInv'
<1> DEFINE free == RecipientSlots \ GrantedSlots
           slot == Min(free)
           recipient == [peer |-> p, dek |-> handle.key]
           writes == <<RecipientWrite(slot, recipient)>>
<1>1. free # {} /\ Begin("grant", NoName, writes \o AppendWrites) /\ UNCHANGED handle
  BY DEF GrantAccess
<1>2. slot \in RecipientSlots
  <2>1. free \in SUBSET Nat
    BY MaxRecipientsAssumption DEF RecipientSlots
  <2>2. slot \in free
    BY <1>1, <2>1, MinExists
  <2> QED BY <2>2
<1>3. recipient \in Recipients
  BY DEF Recipients, ShapeInv, HandleShape
<1> HIDE DEF slot, recipient
<1>4. RecipientWrite(slot, recipient) \in Writes /\ AppendWrites \in Seq(Writes)
  BY <1>2, <1>3, OtherWritesShape
<1>5. writes \in Seq(Writes)
  BY <1>4
<1> HIDE DEF writes
<1>6. writes \o AppendWrites \in Seq(Writes)
  BY <1>4, <1>5
<1>7. "grant" \in Calls /\ "grant" \notin {"update", "delete"}
  BY DEF Calls
<1> QED BY <1>1, <1>6, <1>7, BeginKeepsShape DEF ShapeInv, HandleShape

LEMMA RevokeAccessShape ==
  ASSUME ShapeInv, CallsInv, NEW p \in Peers, NEW password \in Passwords,
         RevokeAccess(p, password)
  PROVE  ShapeInv'
<1> DEFINE new == calls + 1
           revoked == Min(SlotsOfPeer(p))
           slot == [password |-> password, dek |-> new]
           writes == ResealAll(new) \o KeyringWrites(revoked, new) \o <<KeySlotWrite(slot)>>
                       \o AppendWrites
<1>1. CanMutate /\ SlotsOfPeer(p) # {}
  BY DEF RevokeAccess
<1>2. Begin("revoke", NoName, writes) /\ handle' = [handle EXCEPT !.key = new]
  BY DEF RevokeAccess
<1>3. new \in Keys
  BY <1>1, NewIsAnId
<1>4. revoked \in RecipientSlots
  <2>1. SlotsOfPeer(p) \in SUBSET Nat
    BY MaxRecipientsAssumption DEF SlotsOfPeer, GrantedSlots, RecipientSlots
  <2>2. revoked \in SlotsOfPeer(p)
    BY <1>1, <2>1, MinExists
  <2> QED BY <2>2 DEF SlotsOfPeer, GrantedSlots
<1>5. slot \in AdminSlot
  BY <1>3 DEF AdminSlot
<1>6. handle' \in [admin : BOOLEAN, key : Keys, alloc : SUBSET Blocks, adminSlot : AdminSlot]
  BY <1>2, <1>3 DEF ShapeInv, HandleShape
<1> HIDE DEF slot, new, revoked
<1>7. ResealAll(new) \in Seq(Writes) /\ KeyringWrites(revoked, new) \in Seq(Writes)
  BY <1>3, <1>4, ResealAllShape, RevokeReads, KeyringWritesShape DEF ShapeInv, FileShape
<1>8. KeySlotWrite(slot) \in Writes /\ AppendWrites \in Seq(Writes)
  BY <1>5, OtherWritesShape
<1>9. <<KeySlotWrite(slot)>> \in Seq(Writes)
  BY <1>8
<1>10. writes \in Seq(Writes)
  BY <1>7, <1>8, <1>9
<1> HIDE DEF writes
<1>11. "revoke" \in Calls /\ "revoke" \notin {"update", "delete"}
  BY DEF Calls
<1> QED BY <1>2, <1>6, <1>10, <1>11, BeginKeepsShape

(* A write of that shape keeps the shape of everything.                    *)
LEMMA WriteShapes ==
  ASSUME NEW w \in Writes
  PROVE  /\ w.region \in Regions /\ w.at \in Nat
         /\ w.region = "block" => /\ w.at \in Blocks /\ w.value \in WellSealed(w.at)
                                  /\ w.bits \in SUBSET Blocks
         /\ w.region = "bitmap" => w.bits \in SUBSET Blocks
         /\ w.region = "slot" => w.at \in FileSlots /\ w.value \in Entry
         /\ w.region = "recipient" => w.at \in RecipientSlots /\ w.value \in Recipients
         /\ w.region = "keyslot" => w.value \in AdminSlot
<1>1. CASE w \in BlockWrites
  <2>1. PICK b \in Blocks : w \in [region : {"block"}, at : {b}, value : WellSealed(b),
                                   bits : SUBSET Blocks]
    BY <1>1 DEF BlockWrites
  <2>2. /\ w.region = "block" /\ w.at = b /\ w.value \in WellSealed(b)
        /\ w.bits \in SUBSET Blocks
    BY <2>1
  <2> QED BY <2>2, BlocksAreNumbers DEF Regions
<1>2. CASE w \in BitmapWrites
  BY <1>2 DEF BitmapWrites, Regions
<1>3. CASE w \in SlotWrites
  <2>1. w.region = "slot" /\ w.at \in FileSlots /\ w.value \in Entry
    BY <1>3 DEF SlotWrites
  <2>2. w.at \in Nat
    BY <2>1, MaxFilesAssumption DEF FileSlots
  <2> QED BY <2>1, <2>2 DEF Regions
<1>4. CASE w \in RecipientWrites
  <2>1. w.region = "recipient" /\ w.at \in RecipientSlots /\ w.value \in Recipients
    BY <1>4 DEF RecipientWrites
  <2>2. w.at \in Nat
    BY <2>1, MaxRecipientsAssumption DEF RecipientSlots
  <2> QED BY <2>1, <2>2 DEF Regions
<1>5. CASE w \in KeySlotWrites
  BY <1>5 DEF KeySlotWrites, Regions
<1>6. CASE w \in ChainWrites
  BY <1>6 DEF ChainWrites, Regions
<1> QED BY <1>1, <1>2, <1>3, <1>4, <1>5, <1>6 DEF Writes

LEMMA HeadShapes ==
  ASSUME CallShape, todo # <<>>
  PROVE  Head(todo) \in Writes /\ Tail(todo) \in Seq(Writes)
  BY DEF CallShape

LEMMA WriteKeepsFile ==
  ASSUME ShapeInv, NEW w \in Writes,
         \/ WriteBlock(w) \/ WriteBitmap(w) \/ WriteSlot(w) \/ WriteRecipient(w)
         \/ WriteKeySlot(w) \/ WriteChainRecord(w) \/ WriteAppendHeader(w)
  PROVE  FileShape'
         /\ handle' \in [admin : BOOLEAN, key : Keys, alloc : SUBSET Blocks, adminSlot : AdminSlot]
<1> DEFINE Handles == [admin : BOOLEAN, key : Keys, alloc : SUBSET Blocks, adminSlot : AdminSlot]
<1> USE DEF FileShape
<1>1. FileShape /\ handle \in Handles
  BY DEF ShapeInv, HandleShape
<1>2. CASE WriteBlock(w)
  <2>1. w.at \in Blocks /\ w.value \in WellSealed(w.at) /\ w.bits \in SUBSET Blocks
    BY <1>2, WriteShapes DEF WriteBlock
  <2>2. store' = [store EXCEPT ![w.at] = w.value] /\ handle' = [handle EXCEPT !.alloc = w.bits]
    BY <1>2 DEF WriteBlock
  <2>3. WellStored(store)'
    <3>1. store' = [b \in Blocks |-> store'[b]]
      BY <1>1, <2>2 DEF WellStored
    <3>2. ASSUME NEW b \in Blocks PROVE store'[b] = NeverWritten \/ store'[b] \in WellSealed(b)
      <4>1. CASE b = w.at
        <5>1. store'[b] = w.value
          BY <1>1, <2>1, <2>2, <4>1 DEF WellStored
        <5> QED BY <2>1, <4>1, <5>1
      <4>2. CASE b # w.at
        <5>1. store'[b] = store[b]
          BY <1>1, <2>2, <4>2 DEF WellStored
        <5> QED BY <1>1, <5>1 DEF WellStored
      <4> QED BY <4>1, <4>2
    <3> QED BY <3>1, <3>2 DEF WellStored
  <2>4. handle' \in Handles
    BY <1>1, <2>1, <2>2
  <2> QED BY <1>1, <1>2, <2>3, <2>4 DEF WriteBlock
<1>3. CASE WriteBitmap(w)
  <2>1. w.bits \in SUBSET Blocks
    BY <1>3, WriteShapes DEF WriteBitmap
  <2>2. handle' \in Handles
    BY <1>1, <1>3, <2>1 DEF WriteBitmap
  <2> QED BY <1>1, <1>3, <2>1, <2>2 DEF WriteBitmap
<1>4. CASE WriteSlot(w)
  <2>1. w.at \in FileSlots /\ w.value \in Entry
    BY <1>4, WriteShapes DEF WriteSlot
  <2>2. table' = [table EXCEPT ![w.at] = w.value] /\ handle' = handle
    BY <1>4 DEF WriteSlot
  <2>3. WellListed(table)'
    BY <1>1, <2>1, <2>2 DEF WellListed
  <2> QED BY <1>1, <1>4, <2>2, <2>3 DEF WriteSlot
<1>5. CASE WriteRecipient(w)
  <2>1. w.at \in RecipientSlots /\ w.value \in Recipients
    BY <1>5, WriteShapes DEF WriteRecipient
  <2>2. keyring' = [keyring EXCEPT ![w.at] = w.value] /\ handle' = handle
    BY <1>5 DEF WriteRecipient
  <2>3. WellGranted(keyring)'
    BY <1>1, <2>1, <2>2 DEF WellGranted
  <2> QED BY <1>1, <1>5, <2>2, <2>3 DEF WriteRecipient
<1>6. CASE WriteKeySlot(w)
  <2>1. w.value \in AdminSlot
    BY <1>6, WriteShapes DEF WriteKeySlot
  <2>2. adminSlot' = w.value /\ handle' = [handle EXCEPT !.adminSlot = w.value]
    BY <1>6 DEF WriteKeySlot
  <2>3. handle' \in Handles
    BY <1>1, <2>1, <2>2
  <2> QED BY <1>1, <1>6, <2>1, <2>2, <2>3 DEF WriteKeySlot
<1>7. CASE WriteChainRecord(w)
  BY <1>1, <1>7 DEF WriteChainRecord, fileVars
<1>8. CASE WriteAppendHeader(w)
  BY <1>1, <1>8 DEF WriteAppendHeader
<1> QED BY <1>2, <1>3, <1>4, <1>5, <1>6, <1>7, <1>8

LEMMA WriteKeepsShape ==
  ASSUME ShapeInv, Write PROVE ShapeInv'
<1> DEFINE w == Head(todo)
<1>1. w \in Writes /\ Tail(todo) \in Seq(Writes)
  BY HeadShapes DEF ShapeInv, Write
<1>2. /\ Advance(w)
      /\ \/ WriteBlock(w) \/ WriteBitmap(w) \/ WriteSlot(w) \/ WriteRecipient(w)
         \/ WriteKeySlot(w) \/ WriteChainRecord(w) \/ WriteAppendHeader(w)
  BY DEF Write
<1>9. todo' = Tail(todo)
  BY <1>2 DEF Advance
<1> HIDE DEF w
<1>3. /\ FileShape'
      /\ handle' \in [admin : BOOLEAN, key : Keys, alloc : SUBSET Blocks, adminSlot : AdminSlot]
  BY <1>1, <1>2, WriteKeepsFile
<1>4. w.region \in Regions /\ w.at \in Nat
  BY <1>1, WriteShapes
<1>5. HandleShape'
  BY <1>2, <1>3, <1>4 DEF ShapeInv, HandleShape, Advance, Written
<1>6. CallShape'
  <2>1. doing' = doing \/ doing' = NoCall
    BY <1>2 DEF Advance
  <2> QED BY <1>1, <1>9, <2>1 DEF ShapeInv, CallShape, NoCall
<1>7. held' \in [Peers -> SUBSET Keys]
  <2>1. held \in [Peers -> SUBSET Keys]
    BY DEF ShapeInv, HistoryShape
  <2>2. CASE w.region = "recipient" /\ w.value # NoRecipient
    <3>1. w.value \in [peer : Peers, dek : Keys]
      BY <2>2, <1>1, WriteShapes DEF Recipients
    <3>2. w.value.peer \in Peers /\ w.value.dek \in Keys
      BY <3>1
    <3>3. held' = [held EXCEPT ![w.value.peer] = @ \union {w.value.dek}]
      BY <1>2, <2>2 DEF Advance
    <3> QED BY <2>1, <3>2, <3>3
  <2>3. CASE ~ (w.region = "recipient" /\ w.value # NoRecipient)
    BY <1>2, <2>1, <2>3 DEF Advance
  <2> QED BY <2>2, <2>3
<1>8. HistoryShape'
  BY <1>2, <1>7 DEF ShapeInv, HistoryShape, Advance
<1> QED BY <1>3, <1>5, <1>6, <1>8 DEF ShapeInv

LEMMA FaultKeepsShape ==
  ASSUME ShapeInv, WriteFails \/ Crash PROVE ShapeInv'
<1> DEFINE w == Head(todo)
           Handles == [admin : BOOLEAN, key : Keys, alloc : SUBSET Blocks, adminSlot : AdminSlot]
<1>1. todo # <<>> /\ w \in Writes
  BY HeadShapes DEF ShapeInv, WriteFails, Crash
<1>2. FileShape'
  BY DEF ShapeInv, FileShape, WriteFails, Crash, fileVars
<1>3. CallShape'
  <2>1. todo' = <<>> /\ doing' = NoCall
    BY DEF WriteFails, Crash
  <2> QED BY <2>1 DEF CallShape, NoCall
<1>4. HistoryShape'
  <2>1. HurtByFault \subseteq Names
    BY DEF HurtByFault, ShapeInv, CallShape
  <2>2. faults' \in 0 .. MaxFaults
    BY BoundsAssumption DEF ShapeInv, HistoryShape, WriteFails, Crash
  <2> QED BY <2>1, <2>2 DEF ShapeInv, HistoryShape, WriteFails, Crash
<1>5. handle' \in Handles
  <2>1. handle \in Handles
    BY DEF ShapeInv, HandleShape
  <2>2. CASE WriteFails
    <3>1. handle' = CASE w.region \in {"block", "bitmap"} -> [handle EXCEPT !.alloc = w.bits]
                      [] w.region = "keyslot" -> [handle EXCEPT !.adminSlot = w.value]
                      [] OTHER -> handle
      BY <2>2 DEF WriteFails
    <3>2. /\ w.region \in {"block", "bitmap"} => w.bits \in SUBSET Blocks
          /\ w.region = "keyslot" => w.value \in AdminSlot
      BY <1>1, WriteShapes
    <3> HIDE DEF w
    <3>3. CASE w.region \in {"block", "bitmap"}
      BY <2>1, <3>1, <3>2, <3>3
    <3>4. CASE w.region = "keyslot"
      BY <2>1, <3>1, <3>2, <3>4
    <3>5. CASE w.region \notin {"block", "bitmap"} /\ w.region # "keyslot"
      BY <2>1, <3>1, <3>5
    <3> QED BY <3>3, <3>4, <3>5
  <2>3. CASE Crash
    <3>1. handle' = NoVault
      BY <2>3 DEF Crash
    <3>2. 0 \in Keys
      BY BoundsAssumption DEF Keys
    <3> QED BY <3>1, <3>2, PasswordsAssumption DEF NoVault, AdminSlot
  <2> QED BY <2>2, <2>3
<1>6. HandleShape'
  BY <1>5 DEF ShapeInv, HandleShape, WriteFails, Crash
<1> QED BY <1>2, <1>3, <1>4, <1>6 DEF ShapeInv

LEMMA OpenKeepsShape ==
  ASSUME ShapeInv, NEW key \in Keys, NEW admin \in BOOLEAN, OpenWith(key, admin) PROVE ShapeInv'
<1>1. handle' = [admin |-> admin, key |-> key, alloc |-> bitmap, adminSlot |-> adminSlot]
  BY DEF OpenWith
<1>2. HandleShape'
  BY <1>1 DEF ShapeInv, FileShape, HandleShape, OpenWith
<1> QED
  BY <1>2 DEF ShapeInv, FileShape, CallShape, HistoryShape, OpenWith, fileVars, callVars, history

LEMMA NextKeepsShape ==
  ASSUME ShapeInv, CallsInv, [VaultNext]_vaultVars PROVE ShapeInv'
<1>1. CASE UNCHANGED vaultVars
  BY <1>1 DEF vaultVars, ShapeInv, FileShape, HandleShape, CallShape, HistoryShape,
              fileVars, callVars, history
<1>2. ASSUME NEW n \in Names, NEW size \in Sizes, AddFile(n, size) \/ UpdateFile(n, size)
      PROVE  ShapeInv'
  BY <1>2, AddFileShape, UpdateFileShape
<1>3. ASSUME NEW n \in Names, DeleteFile(n) PROVE ShapeInv'
  BY <1>3, DeleteFileShape
<1>4. ASSUME NEW p \in Peers, GrantAccess(p) PROVE ShapeInv'
  BY <1>4, GrantAccessShape
<1>5. ASSUME NEW p \in Peers, NEW password \in Passwords, RevokeAccess(p, password)
      PROVE  ShapeInv'
  BY <1>5, RevokeAccessShape
<1>6. CASE Write
  BY <1>6, WriteKeepsShape
<1>7. CASE WriteFails \/ Crash
  BY <1>7, FaultKeepsShape
<1>8. ASSUME NEW password \in Passwords, NEW admin \in BOOLEAN, Open(password, admin)
      PROVE  ShapeInv'
  <2>1. adminSlot.dek \in Keys
    BY DEF ShapeInv, FileShape, AdminSlot
  <2> QED BY <1>8, <2>1, OpenKeepsShape DEF Open
<1>9. ASSUME NEW p \in Peers, OpenAsRecipient(p) PROVE ShapeInv'
  <2> DEFINE i == Min(SlotsOfPeer(p))
  <2>1. SlotsOfPeer(p) # {} /\ OpenWith(keyring[i].dek, FALSE)
    BY <1>9 DEF OpenAsRecipient
  <2>2. SlotsOfPeer(p) \in SUBSET Nat
    BY MaxRecipientsAssumption DEF SlotsOfPeer, GrantedSlots, RecipientSlots
  <2>3. i \in SlotsOfPeer(p)
    BY <2>1, <2>2, MinExists
  <2>4. i \in RecipientSlots
    BY <2>3 DEF SlotsOfPeer, GrantedSlots
  <2>5. keyring[i].dek \in Keys
    <3>1. 0 \in Keys
      BY BoundsAssumption DEF Keys
    <3> HIDE DEF i
    <3>2. keyring[i] \in Recipients
      BY <2>4 DEF ShapeInv, FileShape, WellGranted
    <3> QED BY <3>1, <3>2 DEF Recipients, NoRecipient
  <2> QED BY <2>1, <2>5, OpenKeepsShape
<1>10. CASE Close
  <2>1. 0 \in Keys
    BY BoundsAssumption DEF Keys
  <2>2. HandleShape'
    BY <1>10, <2>1, PasswordsAssumption DEF Close, HandleShape, NoVault, AdminSlot
  <2> QED BY <1>10, <2>2 DEF Close, ShapeInv, FileShape, CallShape, HistoryShape,
                             fileVars, callVars, history
<1>11. CASE TakeChangeLog
  BY <1>11 DEF TakeChangeLog, ShapeInv, FileShape, HandleShape, CallShape, HistoryShape,
               fileVars, callVars, history
<1> QED
  BY <1>1, <1>2, <1>3, <1>4, <1>5, <1>6, <1>7, <1>8, <1>9, <1>10, <1>11 DEF VaultNext

LEMMA ShapeHolds == VaultSpec => [](ShapeInv /\ CallsInv)
<1>1. VaultInit => ShapeInv /\ CallsInv
  BY InitShape, InitCallsInv
<1>2. (ShapeInv /\ CallsInv) /\ [VaultNext]_vaultVars => (ShapeInv /\ CallsInv)'
  BY NextKeepsShape, NextCallsInv
<1> QED BY <1>1, <1>2, PTL DEF VaultSpec

(* The container, the handle and the writes of the call in progress always *)
(* have their types, for containers, keyrings and call counts of any size. *)
THEOREM VaultTypesHold == VaultSpec => []VaultTypeOK
<1>1. ShapeInv /\ CallsInv /\ HashChainTypeOK => VaultTypeOK
  <2> SUFFICES ASSUME ShapeInv, CallsInv, HashChainTypeOK PROVE VaultTypeOK
    OBVIOUS
  <2>1. \A b \in Blocks : store[b] = NeverWritten \/ (store[b].key \in Keys /\ store[b].id \in Ids)
    BY DEF ShapeInv, FileShape, WellStored, WellSealed
  <2>2. \A k \in 1 .. Len(todo) : todo[k].region \in Regions
    <3>1. \A k \in 1 .. Len(todo) : todo[k] \in Writes
      BY DEF ShapeInv, CallShape
    <3> QED BY <3>1, WriteShapes
  <2> QED BY <2>1, <2>2 DEF VaultTypeOK, ShapeInv, FileShape, HandleShape, CallShape,
                            HistoryShape, CallsInv, WellListed, WellGranted, Recipients
<1> QED BY <1>1, ChainTypeCorrect, VaultImplementsChain, ShapeHolds, PTL

-------------------------------------------------------------------------------
(***************************************************************************)
(* Reading a file.  A file that is laid out as it should be reads back, and *)
(* it does so from every store in which its blocks are readable and have   *)
(* the same bodies, whatever became of the other blocks and of the key.    *)
(***************************************************************************)
Legible(s, key, e) ==
  /\ CollectOk(s, key, e)
  /\ IsInjective(AllBlocks(s, key, e))
  /\ \A b \in StoredBy(s, key, e) : Readable(s, key, e.id, b)
  /\ Len(DataBlocks(s, key, e)) = e.size
  /\ \A k \in 1 .. e.size : s[DataBlocks(s, key, e)[k]].body = Chunk(e.version, k)

(* The parts of one turn of a walk that finds an index block.              *)
TurnParts(s, key, id, turns, b) ==
  LET here == Walk(s, key, id, turns, b)
      rest == Walk(s, key, id, turns - 1, NextOf(s, b)) IN
  /\ turns - 1 \in 0 .. NumBlocks /\ NextOf(s, b) \in Nat
  /\ here = WalkFrom(s, b, rest)
  /\ here.end = rest.end
  /\ ToSet(here.all) = {b} \union ToSet(ListOf(s, b)) \union ToSet(rest.all)
  /\ ToSet(here.data) = ToSet(ListOf(s, b)) \union ToSet(rest.data)

LEMMA WalkParts ==
  ASSUME NEW s, ChainsAscend(s), NEW key, NEW id, NEW turns \in 0 .. NumBlocks, NEW b \in Nat,
         GoesOn(s, key, id, turns, b)
  PROVE  TurnParts(s, key, id, turns, b)
<1> DEFINE here == Walk(s, key, id, turns, b)
           rest == Walk(s, key, id, turns - 1, NextOf(s, b))
           list == ListOf(s, b)
           front == <<b>> \o list
<1>1. turns - 1 \in 0 .. NumBlocks
  BY BlocksAreNumbers DEF GoesOn
<1>2. NextOf(s, b) \in Nat /\ list \in Seq(Nat)
  BY ParsedTyped DEF GoesOn, ReadableIndex, Readable
<1>3. rest.all \in Seq(Nat) /\ rest.data \in Seq(Nat)
  BY <1>1, <1>2, WalkMeetsNumbers
<1>4. here = WalkFrom(s, b, rest)
  BY WalkStops DEF GoesOn
<1> HIDE DEF here, rest
<1>5. here.end = rest.end /\ here.all = front \o rest.all /\ here.data = list \o rest.data
  <2>1. /\ WalkFrom(s, b, rest).end = rest.end
        /\ WalkFrom(s, b, rest).all = front \o rest.all
        /\ WalkFrom(s, b, rest).data = list \o rest.data
    BY DEF WalkFrom
  <2> HIDE DEF front, list
  <2> QED BY <1>4, <2>1
<1>6. front \in Seq(Nat) /\ ToSet(front) = {b} \union ToSet(list)
  <2> HIDE DEF list
  <2> QED BY <1>2, ConsSet
<1>7. ToSet(front \o rest.all) = {b} \union ToSet(list) \union ToSet(rest.all)
  <2> HIDE DEF front, list
  <2>1. ToSet(front \o rest.all) = ToSet(front) \union ToSet(rest.all)
    BY <1>3, <1>6, ConcatSet
  <2> QED BY <1>6, <2>1
<1>8. ToSet(list \o rest.data) = ToSet(list) \union ToSet(rest.data)
  <2> HIDE DEF list
  <2> QED BY <1>2, <1>3, ConcatSet
<1> QED BY <1>1, <1>2, <1>4, <1>5, <1>7, <1>8 DEF here, rest, TurnParts

(* The last turn of a walk.                                                *)
EndParts(s, key, id, turns, b) ==
  LET here == Walk(s, key, id, turns, b) IN
  /\ here.end = "reached" <=> b = 0
  /\ b # 0 => ToSet(here.all) = {b}
  /\ ToSet(here.data) = {}
  /\ here.end = "never" => b # 0 /\ ReadableIndex(s, key, id, b) /\ turns = 0

LEMMA WalkEnds ==
  ASSUME NEW s, NEW key, NEW id, NEW turns \in 0 .. NumBlocks, NEW b \in Nat,
         ~GoesOn(s, key, id, turns, b)
  PROVE  EndParts(s, key, id, turns, b)
<1> DEFINE here == Walk(s, key, id, turns, b)
<1>1. ToSet(<<>>) = {} /\ ToSet(<<b>>) = {b}
  BY DEF ToSet
<1>2. CASE b = 0
  <2>1. here = Reached
    BY <1>2, WalkStops
  <2> QED BY <1>1, <1>2, <2>1 DEF Reached, EndParts
<1>3. CASE b # 0 /\ ~ReadableIndex(s, key, id, b)
  <2>1. here = StopsAt("error", b)
    BY <1>3, WalkStops
  <2> QED BY <1>1, <1>3, <2>1 DEF StopsAt, EndParts
<1>4. CASE b # 0 /\ ReadableIndex(s, key, id, b)
  <2>1. turns = 0
    BY <1>4 DEF GoesOn
  <2>2. here = StopsAt("never", b)
    BY <1>4, <2>1, WalkStops
  <2> QED BY <1>1, <1>4, <2>1, <2>2 DEF StopsAt, EndParts
<1> QED BY <1>2, <1>3, <1>4

LEMMA WalkFindsData ==
  ASSUME NEW s, ChainsAscend(s), NEW key, NEW id
  PROVE  \A turns \in 0 .. NumBlocks, b \in Nat :
           ToSet(Walk(s, key, id, turns, b).data) \subseteq ToSet(Walk(s, key, id, turns, b).all)
<1> DEFINE Found(n, c) == ToSet(Walk(s, key, id, n, c).data) \subseteq ToSet(Walk(s, key, id, n, c).all)
           T == {x \in (0 .. NumBlocks) \X Nat : Found(x[1], x[2])}
<1>1. ASSUME NEW n \in 0 .. NumBlocks, NEW c \in Nat,
             GoesOn(s, key, id, n, c) => Found(n - 1, NextOf(s, c))
      PROVE  Found(n, c)
  <2>1. CASE ~GoesOn(s, key, id, n, c)
    <3>1. EndParts(s, key, id, n, c)
      BY <2>1, WalkEnds
    <3>2. ToSet(Walk(s, key, id, n, c).data) = {}
      BY <3>1 DEF EndParts
    <3> QED BY <3>2
  <2>2. CASE GoesOn(s, key, id, n, c)
    <3> DEFINE here == Walk(s, key, id, n, c)
               rest == Walk(s, key, id, n - 1, NextOf(s, c))
    <3>0. TurnParts(s, key, id, n, c)
      BY <2>2, WalkParts
    <3>1. /\ ToSet(here.all) = {c} \union ToSet(ListOf(s, c)) \union ToSet(rest.all)
          /\ ToSet(here.data) = ToSet(ListOf(s, c)) \union ToSet(rest.data)
      BY <3>0 DEF TurnParts
    <3>2. ToSet(rest.data) \subseteq ToSet(rest.all)
      BY <1>1, <2>2
    <3>3. ToSet(here.data) \subseteq ToSet(here.all)
      <4> HIDE DEF here, rest
      <4> QED BY <3>1, <3>2
    <3> QED BY <3>3
  <2> QED BY <2>1, <2>2
<1>2. \A n \in 0 .. NumBlocks, c \in Nat :
        (GoesOn(s, key, id, n, c) => <<n - 1, NextOf(s, c)>> \in T) => <<n, c>> \in T
  BY <1>1
<1>3. \A n \in 0 .. NumBlocks, c \in Nat : <<n, c>> \in T
  <2> HIDE DEF T
  <2> QED BY <1>2, WalkInduction
<1> QED BY <1>3

(* The same walk in another store, under another key.                      *)
LEMMA WalkAgrees ==
  ASSUME NEW s, ChainsAscend(s), NEW u, ChainsAscend(u), NEW key, NEW new, NEW id,
         NEW turns \in 0 .. NumBlocks, NEW b \in Nat,
         Walk(s, key, id, turns, b).end = "reached",
         \A c \in ToSet(Walk(s, key, id, turns, b).all) :
           Readable(u, new, id, c) /\ u[c].body = s[c].body
  PROVE  Walk(u, new, id, turns, b) = Walk(s, key, id, turns, b)
<1> DEFINE Agree(n, c) == /\ Walk(s, key, id, n, c).end = "reached"
                          /\ \A d \in ToSet(Walk(s, key, id, n, c).all) :
                               Readable(u, new, id, d) /\ u[d].body = s[d].body
           Same(n, c) == Agree(n, c) => Walk(u, new, id, n, c) = Walk(s, key, id, n, c)
           T == {x \in (0 .. NumBlocks) \X Nat : Same(x[1], x[2])}
<1>1. ASSUME NEW n \in 0 .. NumBlocks, NEW c \in Nat,
             GoesOn(s, key, id, n, c) => Same(n - 1, NextOf(s, c)), Agree(n, c)
      PROVE  Walk(u, new, id, n, c) = Walk(s, key, id, n, c)
  <2>1. CASE c = 0
    BY <2>1, WalkStops
  <2>2. CASE c # 0
    <3> DEFINE here == Walk(s, key, id, n, c)
               next == NextOf(s, c)
               rest == Walk(s, key, id, n - 1, next)
    <3>1. GoesOn(s, key, id, n, c)
      <4>1. Walk(s, key, id, n, c).end = "reached"
        BY <1>1
      <4>2. EndParts(s, key, id, n, c) => Walk(s, key, id, n, c).end # "reached"
        BY <2>2 DEF EndParts
      <4> QED BY <4>1, <4>2, WalkEnds
    <3>2. /\ n - 1 \in 0 .. NumBlocks /\ next \in Nat
          /\ here = WalkFrom(s, c, rest)
          /\ here.end = rest.end
          /\ ToSet(here.all) = {c} \union ToSet(ListOf(s, c)) \union ToSet(rest.all)
      <4>1. TurnParts(s, key, id, n, c)
        BY <3>1, WalkParts
      <4> QED BY <4>1 DEF TurnParts
    <3>3. Agree(n - 1, next)
      BY <1>1, <3>2
    <3>4. Walk(u, new, id, n - 1, next) = rest
      BY <1>1, <3>1, <3>3
    <3>5. Readable(u, new, id, c) /\ u[c].body = s[c].body
      BY <1>1, <3>2
    <3>6. NextOf(u, c) = next /\ ListOf(u, c) = ListOf(s, c) /\ GoesOn(u, new, id, n, c)
      BY <3>1, <3>5 DEF NextOf, ListOf, GoesOn, ReadableIndex
    <3>7. Walk(u, new, id, n, c) = WalkFrom(u, c, Walk(u, new, id, n - 1, next))
      <4>1. TurnParts(u, new, id, n, c)
        BY <3>6, WalkParts
      <4> QED BY <3>6, <4>1 DEF TurnParts
    <3> HIDE DEF here, rest, next
    <3> QED BY <3>2, <3>4, <3>6, <3>7 DEF WalkFrom, here
  <2> QED BY <2>1, <2>2
<1>2. \A n \in 0 .. NumBlocks, c \in Nat :
        (GoesOn(s, key, id, n, c) => <<n - 1, NextOf(s, c)>> \in T) => <<n, c>> \in T
  BY <1>1
<1>3. \A n \in 0 .. NumBlocks, c \in Nat : <<n, c>> \in T
  <2> HIDE DEF T
  <2> QED BY <1>2, WalkInduction
<1>4. Same(turns, b)
  BY <1>3
<1> QED BY <1>4

LEMMA FileParts ==
  ASSUME NEW s, ChainsAscend(s), NEW key, NEW e,
         e.direct \in Seq(Blocks), e.overflow \in Blocks
  PROVE  /\ StoredBy(s, key, e) = ToSet(e.direct)
                                    \union ToSet(OverflowWalk(s, key, e.id, e.overflow).all)
         /\ ToSet(DataBlocks(s, key, e)) \subseteq StoredBy(s, key, e)
<1> DEFINE walk == OverflowWalk(s, key, e.id, e.overflow)
<1>1. e.overflow \in Nat /\ NumBlocks \in 0 .. NumBlocks
  BY BlocksAreNumbers
<1>2. walk = Walk(s, key, e.id, NumBlocks, e.overflow)
  BY WalkIsChosen
<1>3. walk.all \in Seq(Nat) /\ walk.data \in Seq(Nat)
  BY <1>1, <1>2, WalkMeetsNumbers
<1>4. ToSet(walk.data) \subseteq ToSet(walk.all)
  BY <1>1, <1>2, WalkFindsData
<1> HIDE DEF walk
<1>5. e.direct \in Seq(Nat)
  <2>1. Blocks \subseteq Nat
    BY BlocksAreNumbers
  <2> QED BY <2>1, SequenceOverMore
<1>6. /\ ToSet(e.direct \o walk.all) = ToSet(e.direct) \union ToSet(walk.all)
      /\ ToSet(e.direct \o walk.data) = ToSet(e.direct) \union ToSet(walk.data)
  BY <1>3, <1>5, ConcatSet
<1>7. StoredBy(s, key, e) = ToSet(e.direct) \union ToSet(walk.all)
  BY <1>6 DEF StoredBy, AllBlocks, walk
<1>8. ToSet(DataBlocks(s, key, e)) = ToSet(e.direct) \union ToSet(walk.data)
  BY <1>6 DEF DataBlocks, walk
<1> QED BY <1>4, <1>7, <1>8 DEF walk

(* What is readable is a block.                                            *)
LEMMA LegibleBlocks ==
  ASSUME NEW s, ChainsAscend(s), NEW key, NEW e,
         e.direct \in Seq(Blocks), e.overflow \in Blocks, Legible(s, key, e)
  PROVE  StoredBy(s, key, e) \subseteq Blocks /\ AllBlocks(s, key, e) \in Seq(Blocks)
<1>1. StoredBy(s, key, e) \subseteq Blocks
  BY DEF Legible, Readable
<1>2. AllBlocks(s, key, e) \in Seq(Nat)
  BY FilesAreNumbers
<1> QED BY <1>1, <1>2, SequenceOverFewer DEF StoredBy

LEMMA LegibleAgrees ==
  ASSUME NEW s, ChainsAscend(s), NEW u, ChainsAscend(u), NEW key, NEW new, NEW e,
         e.direct \in Seq(Blocks), e.overflow \in Blocks, e.size \in Nat,
         Legible(s, key, e),
         \A c \in StoredBy(s, key, e) : Readable(u, new, e.id, c) /\ u[c].body = s[c].body
  PROVE  /\ Legible(u, new, e)
         /\ StoredBy(u, new, e) = StoredBy(s, key, e)
         /\ AllBlocks(u, new, e) = AllBlocks(s, key, e)
<1>1. OverflowWalk(u, new, e.id, e.overflow) = OverflowWalk(s, key, e.id, e.overflow)
  <2>1. OverflowWalk(s, key, e.id, e.overflow).end = "reached"
    BY DEF Legible, CollectOk
  <2>2. ToSet(OverflowWalk(s, key, e.id, e.overflow).all) \subseteq StoredBy(s, key, e)
    BY FileParts
  <2>3. e.overflow \in Nat /\ NumBlocks \in 0 .. NumBlocks
    BY BlocksAreNumbers
  <2> QED BY <2>1, <2>2, <2>3, WalkAgrees, WalkIsChosen
<1>2. /\ AllBlocks(u, new, e) = AllBlocks(s, key, e)
      /\ DataBlocks(u, new, e) = DataBlocks(s, key, e)
      /\ StoredBy(u, new, e) = StoredBy(s, key, e)
      /\ CollectOk(u, new, e)
  BY <1>1 DEF AllBlocks, DataBlocks, StoredBy, CollectOk, Legible
<1>3. ASSUME NEW k \in 1 .. e.size PROVE u[DataBlocks(u, new, e)[k]].body = Chunk(e.version, k)
  <2> DEFINE data == DataBlocks(s, key, e)
  <2>1. data \in Seq(Nat) /\ Len(data) = e.size
    BY FilesAreNumbers DEF Legible
  <2>2. data[k] \in ToSet(data)
    <3> HIDE DEF data
    <3> QED BY <2>1 DEF ToSet
  <2>3. data[k] \in StoredBy(s, key, e)
    BY <2>2, FileParts
  <2>4. u[data[k]].body = s[data[k]].body
    BY <2>3
  <2> QED BY <1>2, <2>4 DEF Legible
<1> QED BY <1>2, <1>3 DEF Legible

LEMMA LegibleReadsBack ==
  ASSUME NEW s, ChainsAscend(s), NEW key, NEW e,
         e.direct \in Seq(Blocks), e.overflow \in Blocks, e.size \in Nat, Legible(s, key, e)
  PROVE  ReadsBack(s, key, e)
<1> DEFINE data == DataBlocks(s, key, e)
<1>1. CollectDataOk(s, key, e)
  BY DEF Legible, CollectDataOk
<1>2. ASSUME NEW k \in 1 .. e.size PROVE Readable(s, key, e.id, data[k])
  <2>1. data \in Seq(Nat) /\ Len(data) = e.size
    BY FilesAreNumbers DEF Legible
  <2>2. data[k] \in ToSet(data)
    <3> HIDE DEF data
    <3> QED BY <2>1 DEF ToSet
  <2> QED BY <2>2, FileParts DEF Legible
<1> QED BY <1>1, <1>2 DEF ReadsBack, Legible

(* A walk that goes on for ever and meets no data that parses only follows *)
(* index blocks, from block to higher block: with so many turns left it    *)
(* started as far below the last block.                                    *)
Misled(s, walk) ==
  \E b \in ToSet(walk.all) \intersect Blocks : s[b].body.kind = "chunk" /\ Parses(s[b].body)

LEMMA EndlessWalksClimb ==
  ASSUME NEW s, WellStored(s), NEW key, NEW id
  PROVE  \A turns \in 0 .. NumBlocks, b \in Nat :
           /\ Walk(s, key, id, turns, b).end = "never"
           /\ ~Misled(s, Walk(s, key, id, turns, b))
           => b \in Blocks /\ b + turns < NumBlocks
<1> DEFINE Endless(n, c) == /\ Walk(s, key, id, n, c).end = "never"
                            /\ ~Misled(s, Walk(s, key, id, n, c))
           Climbs(n, c) == Endless(n, c) => c \in Blocks /\ c + n < NumBlocks
           T == {x \in (0 .. NumBlocks) \X Nat : Climbs(x[1], x[2])}
<1>1. ChainsAscend(s) /\ \A b \in Blocks : s[b].body \in Bodies(b)
  BY WellStoredAscends
<1>2. ASSUME NEW n \in 0 .. NumBlocks, NEW c \in Nat,
             GoesOn(s, key, id, n, c) => Climbs(n - 1, NextOf(s, c)), Endless(n, c)
      PROVE  c \in Blocks /\ c + n < NumBlocks
  <2>1. CASE ~GoesOn(s, key, id, n, c)
    <3>1. EndParts(s, key, id, n, c)
      BY <2>1, WalkEnds
    <3>2. ReadableIndex(s, key, id, c) /\ n = 0
      BY <1>2, <3>1 DEF EndParts
    <3>3. c \in Blocks
      BY <3>2 DEF ReadableIndex, Readable
    <3> QED BY <3>2, <3>3, BlocksAreNumbers
  <2>2. CASE GoesOn(s, key, id, n, c)
    <3> DEFINE here == Walk(s, key, id, n, c)
               next == NextOf(s, c)
               rest == Walk(s, key, id, n - 1, next)
    <3>1. TurnParts(s, key, id, n, c)
      BY <1>1, <2>2, WalkParts
    <3>2. /\ n - 1 \in 0 .. NumBlocks /\ next \in Nat /\ here.end = rest.end
          /\ ToSet(here.all) = {c} \union ToSet(ListOf(s, c)) \union ToSet(rest.all)
      BY <3>1 DEF TurnParts
    <3>3. Endless(n - 1, next)
      BY <1>2, <3>2 DEF Misled
    <3>4. next \in Blocks /\ next + (n - 1) < NumBlocks
      BY <1>2, <2>2, <3>3
    <3>5. c \in Blocks /\ Parses(s[c].body)
      BY <2>2 DEF GoesOn, ReadableIndex, Readable
    <3>6. s[c].body.kind # "chunk"
      BY <1>2, <3>2, <3>5 DEF Misled
    <3>7. s[c].body.kind = "index"
      <4>1. s[c].body \in Bodies(c)
        BY <1>1, <3>5
      <4> QED BY <3>6, <4>1 DEF Bodies
    <3>8. next = s[c].body.next
      BY <3>7 DEF NextOf, Parsed
    <3>9. next # 0
      <4>1. ~GoesOn(s, key, id, n - 1, 0)
        BY DEF GoesOn
      <4>2. EndParts(s, key, id, n - 1, 0)
        BY <3>2, <4>1, WalkEnds
      <4>3. Walk(s, key, id, n - 1, 0).end = "reached"
        BY <4>2 DEF EndParts
      <4> QED BY <3>3, <4>3
    <3>10. next > c
      BY <1>1, <3>5, <3>7, <3>8, <3>9 DEF ChainsAscend
    <3> HIDE DEF next
    <3> QED BY <3>2, <3>4, <3>5, <3>10, BlocksAreNumbers
  <2> QED BY <2>1, <2>2
<1>3. \A n \in 0 .. NumBlocks, c \in Nat :
        (GoesOn(s, key, id, n, c) => <<n - 1, NextOf(s, c)>> \in T) => <<n, c>> \in T
  BY <1>2
<1>4. \A n \in 0 .. NumBlocks, c \in Nat : <<n, c>> \in T
  <2> HIDE DEF T
  <2> QED BY <1>1, <1>3, WalkInduction
<1> QED BY <1>4

-------------------------------------------------------------------------------
(***************************************************************************)
(* What storing lays out reads back: the chunks in order, then a chain of  *)
(* index blocks of which the j-th lists the blocks from Start(size, j) to  *)
(* Start(size, j + 1) - 1.                                                 *)
(***************************************************************************)
FirstListed(j) == Direct + (j - 1) * PerIndex + 1
Start(size, j) == AtMost(FirstListed(j), size + 1)

LEMMA FirstListedGrows ==
  ASSUME NEW j \in Nat \ {0}
  PROVE  /\ FirstListed(j) \in Nat /\ FirstListed(j) >= Direct + 1
         /\ FirstListed(j + 1) = FirstListed(j) + PerIndex
         /\ FirstListed(1) = Direct + 1
<1>1. Direct \in Nat /\ PerIndex \in Nat
  BY DirectAssumption, PerIndexAssumption
<1>2. (j - 1) * PerIndex \in Nat
  BY <1>1
<1>3. (j + 1 - 1) * PerIndex = (j - 1) * PerIndex + PerIndex
  BY <1>1
<1>4. (1 - 1) * PerIndex = 0
  BY <1>1
<1> QED BY <1>1, <1>2, <1>3, <1>4 DEF FirstListed

LEMMA LayoutNumbers ==
  ASSUME NEW size \in Nat
  PROVE  /\ Start(size, 1) = AtMost(size, Direct) + 1
         /\ Start(size, IndexBlocksNeeded(size) + 1) = size + 1
         /\ \A j \in 1 .. IndexBlocksNeeded(size) : FirstListed(j) <= size
<1> DEFINE N == IndexBlocksNeeded(size)
<1>1. Direct \in Nat /\ PerIndex \in Nat \ {0} /\ N \in Nat
  BY DirectAssumption, PerIndexAssumption, BlocksNeededIs
<1>2. Start(size, 1) = AtMost(size, Direct) + 1
  BY <1>1, FirstListedGrows DEF Start, AtMost
<1>3. CASE size <= Direct
  BY <1>1, <1>2, <1>3, FirstListedGrows DEF IndexBlocksNeeded, AtMost
<1>4. CASE size > Direct
  <2> DEFINE m == size - Direct
             q == (m + PerIndex - 1) \div PerIndex
  <2>1. m \in Nat \ {0} /\ size = Direct + m
    BY <1>1, <1>4
  <2>2. N = q
    BY <1>1, <1>4 DEF IndexBlocksNeeded
  <2> HIDE DEF m, N
  <2>3. /\ q \in Nat /\ q >= 1
        /\ q * PerIndex >= m
        /\ (q - 1) * PerIndex < m
    BY <1>1, <2>1
  <2> HIDE DEF q
  <2>4. FirstListed(N + 1) >= size + 1
    <3>1. (q + 1 - 1) * PerIndex = q * PerIndex
      BY <1>1, <2>3
    <3>2. q * PerIndex \in Nat
      BY <1>1, <2>3
    <3> QED BY <1>1, <2>1, <2>2, <2>3, <3>1, <3>2 DEF FirstListed
  <2>5. Start(size, N + 1) = size + 1
    BY <1>1, <2>4, FirstListedGrows DEF Start, AtMost
  <2>6. ASSUME NEW j \in 1 .. N PROVE FirstListed(j) <= size
    <3>1. j - 1 \in Nat /\ q - 1 \in Nat /\ j - 1 <= q - 1
      BY <2>2, <2>3
    <3>2. (j - 1) * PerIndex <= (q - 1) * PerIndex
      BY <1>1, <3>1
    <3>3. (j - 1) * PerIndex \in Nat /\ (q - 1) * PerIndex \in Nat
      BY <1>1, <3>1
    <3> HIDE DEF q
    <3> QED BY <1>1, <2>1, <2>3, <3>2, <3>3 DEF FirstListed
  <2> QED BY <1>2, <2>5, <2>6 DEF N
<1> QED BY <1>1, <1>3, <1>4

LEMMA StartGrows ==
  ASSUME NEW size \in Nat, NEW j \in 1 .. IndexBlocksNeeded(size)
  PROVE  /\ Start(size, j) \in Nat /\ Start(size, j) >= 1 /\ Start(size, j) <= size + 1
         /\ Start(size, j) = FirstListed(j)
         /\ Start(size, j + 1) \in Nat
         /\ Start(size, j) <= Start(size, j + 1) /\ Start(size, j + 1) <= size + 1
         /\ AtMost(FirstListed(j) + PerIndex - 1, size) = Start(size, j + 1) - 1
<1>1. /\ Direct \in Nat /\ PerIndex \in Nat \ {0} /\ IndexBlocksNeeded(size) \in Nat
      /\ j \in Nat \ {0}
  BY DirectAssumption, PerIndexAssumption, BlocksNeededIs
<1>2. /\ FirstListed(j) \in Nat /\ FirstListed(j) >= Direct + 1
      /\ FirstListed(j + 1) = FirstListed(j) + PerIndex
      /\ FirstListed(j) <= size
  BY <1>1, FirstListedGrows, LayoutNumbers
<1> QED BY <1>1, <1>2 DEF Start, AtMost

(* The blocks a file of that size is laid over, and what they then hold.   *)
Spread(blocks, size) ==
  /\ blocks \in Seq(Blocks)
  /\ Len(blocks) = BlocksNeeded(size)
  /\ \A k, l \in 1 .. Len(blocks) : k < l => blocks[k] < blocks[l]
Laid(s, key, id, blocks, size, version) ==
  \A k \in 1 .. Len(blocks) :
    s[blocks[k]] = Sealed(key, id, BodyOf(blocks, size, version, k))

IndexAt(blocks, size, j) == IF j <= IndexBlocksNeeded(size) THEN blocks[size + j] ELSE 0
Places(size, j) == (Start(size, j) .. size) \union (size + j .. BlocksNeeded(size))
BlocksAt(blocks, places) == {blocks[k] : k \in places}

LEMMA SpreadInjective ==
  ASSUME NEW size \in Nat, NEW blocks, Spread(blocks, size)
  PROVE  /\ IsInjective(blocks) /\ DOMAIN blocks = 1 .. Len(blocks)
         /\ Len(blocks) = size + IndexBlocksNeeded(size)
         /\ IndexBlocksNeeded(size) \in Nat
<1>1. /\ DOMAIN blocks = 1 .. Len(blocks) /\ Len(blocks) \in Nat
      /\ \A k \in 1 .. Len(blocks) : blocks[k] \in Int
  BY BlocksAreNumbers DEF Spread
<1>2. \A k, l \in 1 .. Len(blocks) : blocks[k] = blocks[l] => ~ (k < l) /\ ~ (l < k)
  BY <1>1 DEF Spread
<1>3. \A k, l \in 1 .. Len(blocks) : ~ (k < l) /\ ~ (l < k) => k = l
  BY <1>1
<1>4. IsInjective(blocks)
  BY <1>1, <1>2, <1>3 DEF IsInjective
<1>5. IndexBlocksNeeded(size) \in Nat /\ Len(blocks) = size + IndexBlocksNeeded(size)
  BY BlocksNeededIs DEF Spread, BlocksNeeded
<1> QED BY <1>1, <1>4, <1>5

LEMMA CardinalityOfSequence ==
  ASSUME NEW S, NEW q \in Seq(S), IsInjective(q)
  PROVE  /\ IsFiniteSet(ToSet(q)) /\ Cardinality(ToSet(q)) = Len(q)
<1>1. Len(q) \in Nat /\ DOMAIN q = 1 .. Len(q) /\ q = [k \in 1 .. Len(q) |-> q[k]]
  OBVIOUS
<1>2. IsFiniteSet(1 .. Len(q)) /\ Cardinality(1 .. Len(q)) = Len(q)
  <2> DEFINE n == Len(q)
  <2>1. n \in Nat /\ n \in Int /\ 1 \in Int
    BY <1>1
  <2> HIDE DEF n
  <2>2. IsFiniteSet(1 .. n) /\ Cardinality(1 .. n) = IF 1 > n THEN 0 ELSE n - 1 + 1
    BY <2>1, FS_Interval
  <2>3. Cardinality(1 .. n) = n
    BY <2>1, <2>2
  <2> QED BY <2>2, <2>3 DEF n
<1>3. q \in Surjection(1 .. Len(q), ToSet(q))
  <2>1. \A k \in 1 .. Len(q) : q[k] \in ToSet(q)
    BY <1>1 DEF ToSet
  <2>2. q \in [1 .. Len(q) -> ToSet(q)]
    BY <1>1, <2>1
  <2>3. \A x \in ToSet(q) : \E k \in 1 .. Len(q) : q[k] = x
    BY <1>1 DEF ToSet
  <2> QED BY <2>2, <2>3 DEF Surjection
<1>4. q \in Injection(1 .. Len(q), ToSet(q))
  BY <1>1, <1>3 DEF Injection, Surjection, IsInjective
<1> QED BY <1>2, <1>3, <1>4, FS_Surjection

(* No more blocks than there are.                                          *)
LEMMA SpreadFits ==
  ASSUME NEW size \in Nat, NEW blocks, Spread(blocks, size)
  PROVE  IndexBlocksNeeded(size) <= NumBlocks
<1>1. /\ blocks \in Seq(Blocks) /\ IsInjective(blocks)
      /\ Len(blocks) = size + IndexBlocksNeeded(size) /\ IndexBlocksNeeded(size) \in Nat
  BY SpreadInjective DEF Spread
<1>2. NumBlocks \in Nat
  BY BlocksAreNumbers
<1>3. IsFiniteSet(0 .. NumBlocks - 1) /\ Cardinality(0 .. NumBlocks - 1) = NumBlocks
  <2>1. 0 \in Int /\ NumBlocks - 1 \in Int
    BY <1>2
  <2>2. /\ IsFiniteSet(0 .. NumBlocks - 1)
        /\ Cardinality(0 .. NumBlocks - 1)
             = IF 0 > NumBlocks - 1 THEN 0 ELSE NumBlocks - 1 - 0 + 1
    BY <2>1, FS_Interval
  <2> QED BY <1>2, <2>2
<1>4. ToSet(blocks) \subseteq 0 .. NumBlocks - 1
  <2>1. DOMAIN blocks = 1 .. Len(blocks) /\ \A k \in 1 .. Len(blocks) : blocks[k] \in Blocks
    BY <1>1
  <2>2. \A b \in ToSet(blocks) : b \in Blocks
    BY <2>1 DEF ToSet
  <2> QED BY <2>2 DEF Blocks
<1>5. Cardinality(ToSet(blocks)) = Len(blocks)
  BY <1>1, CardinalityOfSequence
<1>6. Cardinality(ToSet(blocks)) <= Cardinality(0 .. NumBlocks - 1)
  <2>1. PICK all : all = 0 .. NumBlocks - 1
    OBVIOUS
  <2>2. PICK used : used = ToSet(blocks)
    OBVIOUS
  <2>3. IsFiniteSet(all) /\ used \in SUBSET all
    BY <1>3, <1>4, <2>1, <2>2
  <2>4. Cardinality(used) <= Cardinality(all)
    BY <2>3, FS_Subset
  <2> QED BY <2>1, <2>2, <2>4
<1> QED BY <1>1, <1>2, <1>3, <1>5, <1>6

IndexReads(s, key, id, blocks, size, j) ==
  LET b == IndexAt(blocks, size, j) IN
  /\ b = blocks[size + j] /\ b \in Blocks /\ b # 0
  /\ ReadableIndex(s, key, id, b)
  /\ NextOf(s, b) = IndexAt(blocks, size, j + 1)
  /\ ListOf(s, b) = SubSeq(blocks, Start(size, j), Start(size, j + 1) - 1)

LEMMA LaidIndex ==
  ASSUME NEW s, WellStored(s), NEW key, NEW id, NEW size \in Nat, NEW version, NEW blocks,
         Spread(blocks, size), Laid(s, key, id, blocks, size, version),
         NEW j \in 1 .. IndexBlocksNeeded(size)
  PROVE  IndexReads(s, key, id, blocks, size, j)
<1> DEFINE k == size + j
           b == blocks[k]
           next == IF k < Len(blocks) THEN blocks[k + 1] ELSE 0
           list == SubSeq(blocks, FirstListed(j), AtMost(FirstListed(j) + PerIndex - 1, size))
<1>1. /\ Len(blocks) = size + IndexBlocksNeeded(size) /\ IndexBlocksNeeded(size) \in Nat
      /\ k \in 1 .. Len(blocks) /\ ~ (k <= size) /\ k - size - 1 = j - 1
  BY SpreadInjective
<1>2. b \in Blocks
  BY <1>1 DEF Spread
<1>3. BodyOf(blocks, size, version, k) = Index(next, list)
  BY <1>1 DEF BodyOf, FirstListed
<1>4. s[b] = Sealed(key, id, Index(next, list))
  BY <1>1, <1>3 DEF Laid
<1> HIDE DEF next, list
<1>5. s[b].key = key /\ s[b].id = id /\ s[b].body = Index(next, list)
  BY <1>4 DEF Sealed
<1>6. s[b].body.kind = "index" /\ s[b].body.next = next /\ s[b].body.list = list
  BY <1>5 DEF Index
<1>7. b # 0
  BY <1>2, <1>6, WellStoredAscends
<1>8. next = IndexAt(blocks, size, j + 1)
  BY <1>1 DEF IndexAt, next
<1>9. list = SubSeq(blocks, Start(size, j), Start(size, j + 1) - 1)
  BY StartGrows DEF list
<1>10. IndexAt(blocks, size, j) = b
  BY <1>1 DEF IndexAt
<1>11. Parses(s[b].body) /\ NextOf(s, b) = next /\ ListOf(s, b) = list
  BY <1>6 DEF Parses, Parsed, NextOf, ListOf
<1> QED BY <1>2, <1>5, <1>7, <1>8, <1>9, <1>10, <1>11
      DEF ReadableIndex, Readable, IndexReads

WalksFrom(s, key, id, blocks, size, turns, j) ==
  LET walk == Walk(s, key, id, turns, IndexAt(blocks, size, j)) IN
  /\ walk.end = "reached"
  /\ walk.all \in Seq(Blocks) /\ IsInjective(walk.all)
  /\ ToSet(walk.all) = BlocksAt(blocks, Places(size, j))
  /\ walk.data = SubSeq(blocks, Start(size, j), size)

LEMMA LaidWalkEnds ==
  ASSUME NEW s, WellStored(s), NEW key, NEW id, NEW size \in Nat, NEW version, NEW blocks,
         Spread(blocks, size), NEW turns \in 0 .. NumBlocks
  PROVE  WalksFrom(s, key, id, blocks, size, turns, IndexBlocksNeeded(size) + 1)
<1> DEFINE N == IndexBlocksNeeded(size)
           walk == Walk(s, key, id, turns, IndexAt(blocks, size, N + 1))
<1>1. N \in Nat /\ BlocksNeeded(size) = size + N /\ blocks \in Seq(Blocks)
      /\ Len(blocks) = size + N
  BY SpreadInjective DEF Spread
<1>2. IndexAt(blocks, size, N + 1) = 0
  BY <1>1 DEF IndexAt
<1>3. walk = Reached
  BY <1>2, WalkStops
<1>4. walk.end = "reached" /\ walk.all = <<>> /\ walk.data = <<>>
  BY <1>3 DEF Reached
<1>5. Start(size, N + 1) = size + 1
  BY LayoutNumbers
<1> HIDE DEF N, walk
<1>6. Places(size, N + 1) = {}
  BY <1>1, <1>5 DEF Places
<1>7. BlocksAt(blocks, Places(size, N + 1)) = {}
  BY <1>6 DEF BlocksAt
<1>8. SubSeq(blocks, size + 1, size) = <<>>
  BY <1>1
<1>9. <<>> \in Seq(Blocks) /\ IsInjective(<<>>) /\ ToSet(<<>>) = {}
  BY DEF IsInjective, ToSet
<1>10. WalksFrom(s, key, id, blocks, size, turns, N + 1)
  BY <1>4, <1>5, <1>7, <1>8, <1>9 DEF WalksFrom, walk
<1> QED BY <1>10 DEF N

LEMMA LaidWalkSteps ==
  ASSUME NEW s, WellStored(s), NEW key, NEW id, NEW size \in Nat, NEW version, NEW blocks,
         Spread(blocks, size), Laid(s, key, id, blocks, size, version),
         NEW j \in 1 .. IndexBlocksNeeded(size), NEW turns \in 0 .. NumBlocks, turns # 0,
         WalksFrom(s, key, id, blocks, size, turns - 1, j + 1)
  PROVE  WalksFrom(s, key, id, blocks, size, turns, j)
<1> DEFINE N == IndexBlocksNeeded(size)
           a == Start(size, j)
           b == Start(size, j + 1)
           c == IndexAt(blocks, size, j)
           list == SubSeq(blocks, a, b - 1)
           rest == Walk(s, key, id, turns - 1, IndexAt(blocks, size, j + 1))
           walk == Walk(s, key, id, turns, c)
           front == <<c>> \o list
           all == front \o rest.all
           data == list \o rest.data
           Q == {size + j} \union (a .. b - 1)
           R == (b .. size) \union (size + (j + 1) .. size + N)
<1>1. /\ N \in Nat /\ Len(blocks) = size + N /\ blocks \in Seq(Blocks)
      /\ IsInjective(blocks) /\ DOMAIN blocks = 1 .. size + N /\ BlocksNeeded(size) = size + N
  BY SpreadInjective DEF Spread
<1>2. /\ a \in Nat /\ b \in Nat /\ 1 <= a /\ a <= b /\ b <= size + 1
  BY StartGrows
<1>3. /\ c = blocks[size + j] /\ c \in Blocks /\ c # 0 /\ ReadableIndex(s, key, id, c)
      /\ NextOf(s, c) = IndexAt(blocks, size, j + 1) /\ ListOf(s, c) = list
  <2>1. IndexReads(s, key, id, blocks, size, j)
    BY LaidIndex
  <2> QED BY <2>1 DEF IndexReads
<1>4. /\ rest.end = "reached" /\ rest.all \in Seq(Blocks) /\ IsInjective(rest.all)
      /\ ToSet(rest.all) = BlocksAt(blocks, R) /\ rest.data = SubSeq(blocks, b, size)
  BY <1>1 DEF WalksFrom, Places
<1>5. walk.end = rest.end /\ walk.all = all /\ walk.data = data
  <2>1. c \in Nat
    BY <1>3, BlocksAreNumbers
  <2>2. walk = WalkFrom(s, c, rest)
    <3> HIDE DEF list
    <3> QED BY <1>3, <2>1, WalkStops
  <2> HIDE DEF rest
  <2>3. /\ WalkFrom(s, c, rest).end = rest.end
        /\ WalkFrom(s, c, rest).all = <<c>> \o ListOf(s, c) \o rest.all
        /\ WalkFrom(s, c, rest).data = ListOf(s, c) \o rest.data
    BY DEF WalkFrom
  <2> HIDE DEF walk, list, c
  <2> QED BY <1>3, <2>2, <2>3
<1> HIDE DEF N, a, b, rest, walk
<1>7. list \in Seq(Blocks) /\ IsInjective(list) /\ ToSet(list) = BlocksAt(blocks, a .. b - 1)
  <2>1. b - 1 \in Nat /\ b - 1 <= Len(blocks) /\ a <= (b - 1) + 1
    BY <1>1, <1>2
  <2> DEFINE z == b - 1
  <2>4. blocks \in Seq(Blocks) /\ a \in Nat /\ z \in Nat /\ 1 <= a /\ z <= Len(blocks) /\ a <= z + 1
    BY <1>1, <1>2, <2>1
  <2>5. list = SubSeq(blocks, a, z)
    BY DEF list
  <2>2. list \in Seq(Blocks) /\ ToSet(list) = {blocks[k] : k \in a .. b - 1}
    <3> HIDE DEF z, list
    <3>1. SubSeq(blocks, a, z) \in Seq(Blocks) /\ ToSet(SubSeq(blocks, a, z)) = {blocks[k] : k \in a .. z}
      BY <2>4, SubSeqIs
    <3> QED BY <2>5, <3>1 DEF z
  <2>3. IsInjective(list)
    BY <1>1, <1>2, <2>1, SubSeqInjective
  <2> QED BY <2>2, <2>3 DEF BlocksAt
<1> HIDE DEF list, c
<1>8. j \in Nat /\ j >= 1 /\ j <= N
  BY <1>1 DEF N
<1>9. /\ {size + j} \in SUBSET (1 .. size + N) /\ a .. b - 1 \in SUBSET (1 .. size + N)
      /\ {size + j} \intersect (a .. b - 1) = {}
      /\ Q \in SUBSET (1 .. size + N) /\ R \in SUBSET (1 .. size + N) /\ Q \intersect R = {}
  BY <1>1, <1>2, <1>8
<1>10. BlocksAt(blocks, {size + j}) = {c}
  BY <1>3 DEF BlocksAt
<1>11. front \in Seq(Blocks) /\ ToSet(front) = {c} \union ToSet(list)
  BY <1>3, <1>7, ConsSet
<1>12. IsInjective(front)
  <2> DEFINE head == <<c>>
  <2>1. head \in Seq(Blocks) /\ IsInjective(head) /\ ToSet(head) = {c}
    BY <1>3 DEF IsInjective, ToSet
  <2>2. {c} \intersect ToSet(list) = {}
    BY <1>1, <1>7, <1>9, <1>10, ImagesApart DEF BlocksAt
  <2> HIDE DEF head
  <2>3. IsInjective(head \o list)
    BY <1>7, <2>1, <2>2, ConcatInjective
  <2> QED BY <2>3 DEF head
<1>13. ToSet(front) = BlocksAt(blocks, Q)
  BY <1>7, <1>10, <1>11 DEF BlocksAt
<1>14. ToSet(front) \intersect ToSet(rest.all) = {}
  <2> HIDE DEF Q, R
  <2> QED BY <1>1, <1>4, <1>9, <1>13, ImagesApart DEF BlocksAt
<1> HIDE DEF front
<1>15. /\ all \in Seq(Blocks) /\ IsInjective(all)
       /\ ToSet(all) = BlocksAt(blocks, Q) \union BlocksAt(blocks, R)
  <2> HIDE DEF Q, R
  <2>1. all \in Seq(Blocks) /\ ToSet(all) = ToSet(front) \union ToSet(rest.all)
    BY <1>4, <1>11, ConcatSet
  <2>2. IsInjective(all)
    BY <1>4, <1>11, <1>12, <1>14, ConcatInjective
  <2> QED BY <1>4, <1>13, <2>1, <2>2
<1>16. Q \union R = (a .. size) \union (size + j .. size + N)
  BY <1>1, <1>2, <1>8
<1>17. ToSet(all) = BlocksAt(blocks, Places(size, j))
  <2>1. Places(size, j) = Q \union R
    BY <1>1, <1>16 DEF Places, a
  <2> HIDE DEF Q, R
  <2> QED BY <1>15, <2>1 DEF BlocksAt
<1>18. data = SubSeq(blocks, a, size)
  <2>1. size <= Len(blocks) /\ b <= size + 1
    BY <1>1, <1>2
  <2>2. SubSeq(blocks, a, b - 1) \o SubSeq(blocks, b, size) = SubSeq(blocks, a, size)
    BY <1>1, <1>2, <2>1, SubSeqJoins
  <2> QED BY <1>4, <2>2 DEF list
<1> HIDE DEF all, data
<1>19. walk.end = "reached" /\ walk.all = all /\ walk.data = data
  BY <1>4, <1>5
<1>20. Walk(s, key, id, turns, IndexAt(blocks, size, j)) = walk
  BY DEF walk, c
<1> QED BY <1>15, <1>17, <1>18, <1>19, <1>20 DEF WalksFrom, a

(* There are no more index blocks than turns.                              *)
LEMMA LaidWalk ==
  ASSUME NEW s, WellStored(s), NEW key, NEW id, NEW size \in Nat, NEW version, NEW blocks,
         Spread(blocks, size), Laid(s, key, id, blocks, size, version)
  PROVE  WalksFrom(s, key, id, blocks, size, NumBlocks, 1)
<1> DEFINE N == IndexBlocksNeeded(size)
           Goes(turns, j) == WalksFrom(s, key, id, blocks, size, turns, j)
           U == {n \in Nat : \A j \in 1 .. N + 1, turns \in 0 .. NumBlocks :
                               j >= N + 1 - n /\ turns >= n => Goes(turns, j)}
<1>1. N \in Nat /\ N <= NumBlocks /\ NumBlocks \in Nat
  BY SpreadInjective, SpreadFits, BlocksAreNumbers
<1>2. \A turns \in 0 .. NumBlocks : Goes(turns, N + 1)
  BY LaidWalkEnds
<1>3. \A j \in 1 .. N, turns \in 0 .. NumBlocks :
        turns # 0 /\ Goes(turns - 1, j + 1) => Goes(turns, j)
  BY LaidWalkSteps
<1> HIDE DEF N, Goes
<1>4. 0 \in U
  <2>1. \A j \in 1 .. N + 1 : j >= N + 1 - 0 => j = N + 1
    BY <1>1
  <2> QED BY <1>2, <2>1
<1>5. ASSUME NEW n \in Nat, n \in U PROVE n + 1 \in U
  <2> SUFFICES ASSUME NEW j \in 1 .. N + 1, NEW turns \in 0 .. NumBlocks,
                      j >= N + 1 - (n + 1), turns >= n + 1
               PROVE  Goes(turns, j)
    OBVIOUS
  <2>1. CASE j = N + 1
    BY <1>2, <2>1
  <2>2. CASE j # N + 1
    <3>1. j \in 1 .. N /\ j + 1 \in 1 .. N + 1 /\ j + 1 >= N + 1 - n
      BY <1>1, <2>2
    <3>2. turns # 0 /\ turns - 1 \in 0 .. NumBlocks /\ turns - 1 >= n
      BY <1>1
    <3> QED BY <1>3, <1>5, <3>1, <3>2
  <2> QED BY <2>1, <2>2
<1>6. N \in U
  <2> HIDE DEF U
  <2> QED BY <1>1, <1>4, <1>5, SetInduction
<1>7. 1 \in 1 .. N + 1 /\ 1 >= N + 1 - N /\ NumBlocks \in 0 .. NumBlocks /\ NumBlocks >= N
  BY <1>1
<1>8. Goes(NumBlocks, 1)
  BY <1>6, <1>7
<1> QED BY <1>8 DEF Goes

(* A file just stored reads back, and takes exactly the blocks allocated.  *)
LEMMA LaidFile ==
  ASSUME NEW s, WellStored(s), NEW key, NEW id, NEW size \in Nat, NEW version, NEW blocks,
         Spread(blocks, size), Laid(s, key, id, blocks, size, version), NEW n
  PROVE  /\ Legible(s, key, NewEntry(n, id, size, version, blocks))
         /\ StoredBy(s, key, NewEntry(n, id, size, version, blocks)) = ToSet(blocks)
<1> DEFINE e == NewEntry(n, id, size, version, blocks)
           N == IndexBlocksNeeded(size)
           a == Start(size, 1)
           direct == SubSeq(blocks, 1, a - 1)
           walk == OverflowWalk(s, key, id, e.overflow)
           all == direct \o walk.all
           data == direct \o walk.data
<1>1. /\ N \in Nat /\ Len(blocks) = size + N /\ blocks \in Seq(Blocks)
      /\ IsInjective(blocks) /\ DOMAIN blocks = 1 .. size + N /\ BlocksNeeded(size) = size + N
  BY SpreadInjective DEF Spread
<1>2. a \in Nat /\ 1 <= a /\ a <= size + 1 /\ a - 1 = AtMost(size, Direct)
  <2>1. Direct \in Nat
    BY DirectAssumption
  <2>2. a = AtMost(size, Direct) + 1
    BY LayoutNumbers
  <2> QED BY <2>1, <2>2 DEF AtMost
<1>3. e.overflow = IndexAt(blocks, size, 1)
  <2>1. size > Direct => N >= 1
    BY BlocksNeededIs
  <2>2. size <= Direct => N = 0
    BY DEF IndexBlocksNeeded
  <2>3. Direct \in Nat
    BY DirectAssumption
  <2> HIDE DEF N
  <2>4. e.overflow = IF size > Direct THEN blocks[size + 1] ELSE 0
    BY DEF NewEntry, OverflowOf
  <2> QED BY <1>1, <2>1, <2>2, <2>3, <2>4 DEF IndexAt, N
<1>4. /\ e.direct = direct /\ e.id = id /\ e.size = size /\ e.version = version
  BY <1>2 DEF NewEntry, DirectOf
<1>5. WalksFrom(s, key, id, blocks, size, NumBlocks, 1)
  BY LaidWalk
<1>6. /\ walk.end = "reached" /\ walk.all \in Seq(Blocks) /\ IsInjective(walk.all)
      /\ ToSet(walk.all) = BlocksAt(blocks, Places(size, 1))
      /\ walk.data = SubSeq(blocks, a, size)
  BY <1>3, <1>5, WalkIsChosen DEF WalksFrom
<1>7. AllBlocks(s, key, e) = all /\ DataBlocks(s, key, e) = data /\ CollectOk(s, key, e)
  BY <1>4, <1>6 DEF AllBlocks, DataBlocks, CollectOk
<1> HIDE DEF e, N, a, walk
<1>8. /\ direct \in Seq(Blocks) /\ IsInjective(direct)
      /\ ToSet(direct) = BlocksAt(blocks, 1 .. a - 1)
  <2>1. a - 1 \in Nat /\ a - 1 <= Len(blocks) /\ 1 <= (a - 1) + 1
    BY <1>1, <1>2
  <2>2. direct \in Seq(Blocks) /\ ToSet(direct) = {blocks[k] : k \in 1 .. a - 1}
    BY <1>1, <2>1, SubSeqIs
  <2>3. IsInjective(direct)
    BY <1>1, <2>1, SubSeqInjective
  <2> QED BY <2>2, <2>3 DEF BlocksAt
<1>9. /\ 1 .. a - 1 \in SUBSET (1 .. size + N) /\ Places(size, 1) \in SUBSET (1 .. size + N)
      /\ (1 .. a - 1) \intersect Places(size, 1) = {}
      /\ (1 .. a - 1) \union Places(size, 1) = 1 .. size + N
  BY <1>1, <1>2 DEF Places, a
<1>10. ToSet(direct) \intersect ToSet(walk.all) = {}
  BY <1>1, <1>6, <1>8, <1>9, ImagesApart DEF BlocksAt
<1>11. data = SubSeq(blocks, 1, size)
  <2>1. 1 <= a /\ a <= size + 1 /\ size <= Len(blocks)
    BY <1>1, <1>2
  <2>2. SubSeq(blocks, 1, a - 1) \o SubSeq(blocks, a, size) = SubSeq(blocks, 1, size)
    BY <1>1, <1>2, <2>1, SubSeqJoins
  <2> QED BY <1>6, <2>2
<1> HIDE DEF direct
<1>12. IsInjective(all)
  BY <1>6, <1>8, <1>10, ConcatInjective
<1>13. ToSet(all) = ToSet(blocks)
  <2>1. ToSet(all) = BlocksAt(blocks, 1 .. a - 1) \union BlocksAt(blocks, Places(size, 1))
    BY <1>6, <1>8, ConcatSet
  <2>2. BlocksAt(blocks, 1 .. a - 1) \union BlocksAt(blocks, Places(size, 1))
          = BlocksAt(blocks, 1 .. size + N)
    BY <1>9 DEF BlocksAt
  <2> QED BY <1>1, <2>1, <2>2 DEF BlocksAt, ToSet
<1> HIDE DEF all, data
<1>14. ASSUME NEW b \in StoredBy(s, key, e) PROVE Readable(s, key, e.id, b)
  <2>1. b \in ToSet(blocks)
    BY <1>7, <1>13 DEF StoredBy
  <2>2. PICK k \in 1 .. Len(blocks) : b = blocks[k]
    BY <1>1, <2>1 DEF ToSet
  <2>3. s[b] = Sealed(key, id, BodyOf(blocks, size, version, k))
    BY <2>2 DEF Laid
  <2>4. b \in Blocks
    BY <1>1, <2>2
  <2> QED BY <1>4, <2>3, <2>4 DEF Sealed, Readable
<1>15. Len(data) = size /\ \A k \in 1 .. size : data[k] = blocks[k]
  BY <1>1, <1>11
<1>16. ASSUME NEW k \in 1 .. size PROVE s[data[k]].body = Chunk(version, k)
  <2>1. k \in 1 .. Len(blocks) /\ k <= size
    BY <1>1
  <2>2. s[blocks[k]] = Sealed(key, id, Chunk(version, k))
    BY <2>1 DEF Laid, BodyOf
  <2>3. s[blocks[k]].body = Chunk(version, k)
    BY <2>2 DEF Sealed
  <2> QED BY <1>15, <2>3
<1>17. Legible(s, key, e)
  BY <1>4, <1>6, <1>7, <1>12, <1>14, <1>15, <1>16 DEF Legible
<1>18. StoredBy(s, key, e) = ToSet(blocks)
  BY <1>7, <1>13 DEF StoredBy
<1> QED BY <1>17, <1>18 DEF e

(* What is allocated is spread so.                                         *)
LEMMA AllocatedSpread ==
  ASSUME NEW bits, NEW size \in Nat, FreeCount(bits) >= BlocksNeeded(size)
  PROVE  /\ Spread(StoreBlocks(bits, size), size)
         /\ ToSet(StoreBlocks(bits, size)) \subseteq Blocks \ bits
<1> DEFINE blocks == StoreBlocks(bits, size)
<1>1. BlocksNeeded(size) \in Nat
  BY BlocksNeededIs
<1>2. /\ FreeCount(bits) \in Nat
      /\ blocks \in Seq(FreeBlocks(bits)) /\ blocks \in Seq(Blocks)
      /\ Len(blocks) = IF BlocksNeeded(size) < FreeCount(bits)
                       THEN BlocksNeeded(size) ELSE FreeCount(bits)
      /\ \A k, l \in 1 .. Len(blocks) : k < l => blocks[k] < blocks[l]
  BY <1>1, AllocatedBlocks DEF StoreBlocks
<1> HIDE DEF blocks
<1>3. Len(blocks) = BlocksNeeded(size)
  BY <1>1, <1>2
<1>4. ToSet(blocks) \subseteq FreeBlocks(bits)
  BY <1>2 DEF ToSet
<1>5. ToSet(blocks) \subseteq Blocks \ bits
  BY <1>4 DEF FreeBlocks, IsFree
<1> QED BY <1>2, <1>3, <1>5 DEF Spread, blocks

(* Freeing the blocks of a file makes as much room as it has blocks.       *)
LEMMA FreedCount ==
  ASSUME NEW bits \in SUBSET Blocks, NEW q \in Seq(Blocks), IsInjective(q), ToSet(q) \subseteq bits
  PROVE  FreeCount(Free(bits, ToSet(q))) = FreeCount(bits) + Len(q)
<1>1. /\ NumBlocks \in Nat /\ FreeBlocks(bits) \in SUBSET (0 .. NumBlocks - 1)
  BY BlocksAreNumbers DEF FreeBlocks, Blocks
<1>2. IsFiniteSet(FreeBlocks(bits)) /\ Cardinality(FreeBlocks(bits)) \in Nat
  BY <1>1, RankedAscends
<1>3. IsFiniteSet(ToSet(q)) /\ Cardinality(ToSet(q)) = Len(q) /\ Len(q) \in Nat
  BY CardinalityOfSequence
<1>4. FreeBlocks(Free(bits, ToSet(q))) = FreeBlocks(bits) \cup ToSet(q)
  BY DEF FreeBlocks, Free, IsFree
<1>5. FreeBlocks(bits) \cap ToSet(q) = {}
  BY DEF FreeBlocks, IsFree
<1>6. Cardinality({}) = 0
  BY FS_EmptySet
<1>7. Cardinality(FreeBlocks(bits) \cup ToSet(q))
        = Cardinality(FreeBlocks(bits)) + Cardinality(ToSet(q))
            - Cardinality(FreeBlocks(bits) \cap ToSet(q))
  BY <1>2, <1>3, FS_Union
<1>8. Cardinality(FreeBlocks(bits) \cup ToSet(q)) = Cardinality(FreeBlocks(bits)) + Len(q)
  <2> DEFINE both == FreeBlocks(bits) \cap ToSet(q)
             all == FreeBlocks(bits) \cup ToSet(q)
  <2>1. Cardinality(both) = 0
    BY <1>5, <1>6
  <2> HIDE DEF both, all
  <2>2. Cardinality(all) = Cardinality(FreeBlocks(bits)) + Cardinality(ToSet(q)) - Cardinality(both)
    BY <1>7 DEF both, all
  <2>3. Cardinality(all) = Cardinality(FreeBlocks(bits)) + Len(q)
    BY <1>2, <1>3, <2>1, <2>2
  <2> QED BY <2>3 DEF all
<1> QED BY <1>4, <1>8 DEF FreeCount

-------------------------------------------------------------------------------
(***************************************************************************)
(* The order of the writes of a call.  It prepares, then makes the one     *)
(* write that decides, then appends to the chain; and the last write that  *)
(* carries the allocator's bits carries those it ends with.                *)
(***************************************************************************)
Decisive(call) == IF call = "grant" THEN "recipient" ELSE IF call = "revoke" THEN "keyslot" ELSE "slot"
Preparing(call) ==
  IF call = "grant" THEN {}
  ELSE IF call = "revoke" THEN {"block", "recipient"} ELSE {"block", "bitmap"}
Appending == {"chain", "header"}

Ordered(ws, call) ==
  \E m \in 0 .. Len(ws) :
    /\ \A k \in 1 .. Len(ws) : k > m => ws[k].region \in Appending
    /\ \A k \in 1 .. Len(ws) : k = m => ws[k].region = Decisive(call)
    /\ \A k \in 1 .. Len(ws) : k < m => ws[k].region \in Preparing(call)

LastBits(ws, regions, old, new) ==
  /\ (\A k \in 1 .. Len(ws) : ws[k].region \notin regions) => new = old
  /\ \A k \in 1 .. Len(ws) :
       /\ ws[k].region \in regions
       /\ \A l \in 1 .. Len(ws) : l > k => ws[l].region \notin regions
       => ws[k].bits = new

LEMMA HeadAndTail ==
  ASSUME NEW S, NEW ws \in Seq(S), ws # <<>>
  PROVE  /\ Tail(ws) \in Seq(S) /\ Len(ws) \in Nat /\ Len(ws) >= 1 /\ Len(Tail(ws)) = Len(ws) - 1
         /\ Head(ws) = ws[1]
         /\ \A k \in 1 .. Len(ws) - 1 : Tail(ws)[k] = ws[k + 1]
         /\ ToSet(ws) = {Head(ws)} \union ToSet(Tail(ws))
<1>1. /\ Tail(ws) \in Seq(S) /\ Len(ws) \in Nat /\ Len(ws) >= 1 /\ Len(Tail(ws)) = Len(ws) - 1
      /\ Head(ws) = ws[1]
      /\ \A k \in 1 .. Len(ws) - 1 : Tail(ws)[k] = ws[k + 1]
      /\ DOMAIN ws = 1 .. Len(ws) /\ DOMAIN Tail(ws) = 1 .. Len(ws) - 1
  OBVIOUS
<1>2. ASSUME NEW k \in 1 .. Len(ws) PROVE ws[k] \in {Head(ws)} \union ToSet(Tail(ws))
  <2>1. CASE k = 1
    BY <1>1, <2>1
  <2>2. CASE k # 1
    <3>1. k - 1 \in 1 .. Len(ws) - 1 /\ k - 1 + 1 = k
      BY <1>1, <2>2
    <3>2. Tail(ws)[k - 1] = ws[k]
      BY <1>1, <3>1
    <3> QED BY <1>1, <3>1, <3>2 DEF ToSet
  <2> QED BY <2>1, <2>2
<1>3. ASSUME NEW k \in 1 .. Len(ws) - 1 PROVE Tail(ws)[k] \in ToSet(ws)
  <2>1. k + 1 \in 1 .. Len(ws)
    BY <1>1
  <2> QED BY <1>1, <2>1 DEF ToSet
<1>4. Head(ws) \in ToSet(ws)
  BY <1>1 DEF ToSet
<1> QED BY <1>1, <1>2, <1>3, <1>4 DEF ToSet

LEMMA OrderedTail ==
  ASSUME NEW ws \in Seq(Writes), ws # <<>>, NEW call, Ordered(ws, call)
  PROVE  /\ Ordered(Tail(ws), call)
         /\ Head(ws).region \in Appending \union {Decisive(call)} \union Preparing(call)
         /\ Head(ws).region \notin Preparing(call)
              => \A w \in ToSet(Tail(ws)) : w.region \in Appending
<1> DEFINE tail == Tail(ws)
<1>1. PICK m \in 0 .. Len(ws) :
        /\ \A k \in 1 .. Len(ws) : k > m => ws[k].region \in Appending
        /\ \A k \in 1 .. Len(ws) : k = m => ws[k].region = Decisive(call)
        /\ \A k \in 1 .. Len(ws) : k < m => ws[k].region \in Preparing(call)
  BY DEF Ordered
<1>2. /\ Len(ws) \in Nat /\ Len(ws) >= 1 /\ Len(tail) = Len(ws) - 1 /\ Head(ws) = ws[1]
      /\ \A k \in 1 .. Len(ws) - 1 : tail[k] = ws[k + 1]
      /\ DOMAIN tail = 1 .. Len(ws) - 1
  BY HeadAndTail
<1> DEFINE n == IF m = 0 THEN 0 ELSE m - 1
<1>3. n \in 0 .. Len(tail)
  BY <1>2
<1> HIDE DEF tail
<1>4. ASSUME NEW k \in 1 .. Len(tail)
      PROVE  /\ tail[k] = ws[k + 1] /\ k + 1 \in 1 .. Len(ws)
             /\ (k > n => k + 1 > m) /\ (k = n => k + 1 = m) /\ (k < n => k + 1 < m)
  BY <1>2
<1>5. Ordered(tail, call)
  BY <1>1, <1>3, <1>4 DEF Ordered
<1>6. 1 \in 1 .. Len(ws)
  BY <1>2
<1>7. Head(ws).region \in Appending \union {Decisive(call)} \union Preparing(call)
  BY <1>1, <1>2, <1>6
<1>8. ASSUME Head(ws).region \notin Preparing(call), NEW w \in ToSet(tail)
      PROVE  w.region \in Appending
  <2>1. PICK k \in 1 .. Len(tail) : w = tail[k]
    BY <1>2 DEF ToSet
  <2>2. m <= 1
    BY <1>1, <1>2, <1>6, <1>8
  <2>3. k + 1 > m /\ k + 1 \in 1 .. Len(ws) /\ w = ws[k + 1]
    BY <1>2, <1>4, <2>1, <2>2
  <2> QED BY <1>1, <2>3
<1> QED BY <1>5, <1>7, <1>8 DEF tail

LEMMA LastBitsTail ==
  ASSUME NEW ws \in Seq(Writes), ws # <<>>, NEW regions, NEW old, NEW new,
         LastBits(ws, regions, old, new)
  PROVE  LastBits(Tail(ws), regions,
                  IF Head(ws).region \in regions THEN Head(ws).bits ELSE old, new)
<1> DEFINE tail == Tail(ws)
           bits == IF Head(ws).region \in regions THEN Head(ws).bits ELSE old
<1>1. /\ Len(ws) \in Nat /\ Len(ws) >= 1 /\ Len(tail) = Len(ws) - 1 /\ Head(ws) = ws[1]
      /\ \A k \in 1 .. Len(ws) - 1 : tail[k] = ws[k + 1]
  BY HeadAndTail
<1> HIDE DEF tail
<1>2. \A l \in 1 .. Len(ws) : l > 1 => l - 1 \in 1 .. Len(tail) /\ tail[l - 1] = ws[l]
  <2> SUFFICES ASSUME NEW l \in 1 .. Len(ws), l > 1
               PROVE  l - 1 \in 1 .. Len(tail) /\ tail[l - 1] = ws[l]
    OBVIOUS
  <2>1. l - 1 \in 1 .. Len(ws) - 1 /\ (l - 1) + 1 = l
    BY <1>1
  <2> QED BY <1>1, <2>1
<1>3. ASSUME \A k \in 1 .. Len(tail) : tail[k].region \notin regions PROVE new = bits
  <2>1. \A l \in 1 .. Len(ws) : l > 1 => ws[l].region \notin regions
    BY <1>2, <1>3
  <2>2. CASE ws[1].region \in regions
    <3>1. 1 \in 1 .. Len(ws)
      BY <1>1
    <3> QED BY <1>1, <2>1, <2>2, <3>1 DEF LastBits
  <2>3. CASE ws[1].region \notin regions
    <3>1. \A l \in 1 .. Len(ws) : ws[l].region \notin regions
      <4>1. \A l \in 1 .. Len(ws) : l = 1 \/ l > 1
        BY <1>1
      <4> QED BY <2>1, <2>3, <4>1
    <3> QED BY <1>1, <2>3, <3>1 DEF LastBits
  <2> QED BY <2>2, <2>3
<1>4. ASSUME NEW k \in 1 .. Len(tail), tail[k].region \in regions,
             \A l \in 1 .. Len(tail) : l > k => tail[l].region \notin regions
      PROVE  tail[k].bits = new
  <2>1. tail[k] = ws[k + 1] /\ k + 1 \in 1 .. Len(ws)
    BY <1>1
  <2>2. ASSUME NEW l \in 1 .. Len(ws), l > k + 1 PROVE ws[l].region \notin regions
    <3>1. l > 1 /\ l - 1 > k
      BY <2>2
    <3> QED BY <1>2, <1>4, <3>1
  <2> QED BY <1>4, <2>1, <2>2 DEF LastBits
<1>5. LastBits(tail, regions, bits, new)
  BY <1>3, <1>4 DEF LastBits
<1> QED BY <1>5 DEF tail

-------------------------------------------------------------------------------
(***************************************************************************)
(* The inductive invariant behind what is promised of files and keys.      *)
(*                                                                         *)
(* A call works towards a goal: a store, a table, a keyring and bits that  *)
(* the file holds when its last write is made, and a key.  The goal does   *)
(* not change while the call runs; each write of it takes the file there.  *)
(* In the goal every sound file stands, on blocks of its own that the bits *)
(* account for.  The files that the call is not about stand all along.     *)
(***************************************************************************)
Undamaged == hurt # Names \/ faults = 0
Alloc == IF cached.open THEN handle.alloc ELSE bitmap
Coming == ToSet(todo)

SoundIn(t, hu) == {i \in FileSlots : t[i].listed /\ t[i].name \notin hu}
EntriesApart(t) ==
  \A i, j \in FileSlots : t[i].listed /\ t[j].listed /\ i # j =>
    t[i].name # t[j].name /\ t[i].id # t[j].id
FilesStand(s, t, key, hu) ==
  /\ WellStored(s) /\ WellListed(t) /\ EntriesApart(t)
  /\ \A i \in SoundIn(t, hu) : Legible(s, key, t[i])
  /\ \A i, j \in SoundIn(t, hu) : i # j =>
       StoredBy(s, key, t[i]) \intersect StoredBy(s, key, t[j]) = {}
Marked(s, t, key, hu, bits) == \A i \in SoundIn(t, hu) : StoredBy(s, key, t[i]) \subseteq bits
InUse(s, t, key) == UNION {StoredBy(s, key, t[i]) : i \in SoundIn(t, {})}
WrapsKey(kr, key) == \A i \in RecipientSlots : kr[i].peer # NoPeer => kr[i].dek = key
GrantsHolders(kr, key) ==
  \A p \in Peers : key \in held[p] => \E i \in RecipientSlots : kr[i].peer = p
KnownSoFar(t, key) ==
  /\ key \in 0 .. calls
  /\ \A p \in Peers : held[p] \subseteq 0 .. calls
  /\ \A i \in FileSlots : t[i].listed => t[i].id <= calls

Goal(s, t, kr, key, bm, al) ==
  /\ FilesStand(s, t, key, hurt)
  /\ Marked(s, t, key, hurt, bm) /\ Marked(s, t, key, hurt, al)
  /\ faults = 0 => hurt = {} /\ al = bm /\ bm = InUse(s, t, key)
  /\ WellGranted(kr) /\ WrapsKey(kr, key) /\ GrantsHolders(kr, key)
  /\ KnownSoFar(t, key)

(* The writes to come lead to the goal.                                    *)
LeadsStore(s) ==
  /\ \A w \in Coming : w.region = "block" => s[w.at] = w.value
  /\ \A b \in Blocks : s[b] = store[b] \/ \E w \in Coming : w.region = "block" /\ w.at = b
LeadsTable(t) ==
  /\ \A w \in Coming : w.region = "slot" => t[w.at] = w.value
  /\ \A i \in FileSlots : t[i] = table[i] \/ \E w \in Coming : w.region = "slot" /\ w.at = i
LeadsKeyring(kr) ==
  /\ \A w \in Coming : w.region = "recipient" => kr[w.at] = w.value
  /\ \A i \in RecipientSlots :
       kr[i] = keyring[i] \/ \E w \in Coming : w.region = "recipient" /\ w.at = i
Leads(s, t, kr, bm, al) ==
  /\ Ordered(todo, doing.call)
  /\ LeadsStore(s) /\ LeadsTable(t) /\ LeadsKeyring(kr)
  /\ LastBits(todo, {"bitmap"}, bitmap, bm)
  /\ LastBits(todo, {"block", "bitmap"}, Alloc, al)

(* Everyone holds the key of the goal, until a revocation hands it out.    *)
KeysLead(key) ==
  /\ key = CurrentKey
  /\ \A w \in Coming : w.region = "keyslot" => w.value.dek = key
  /\ (\A w \in Coming : w.region # "keyslot") =>
       adminSlot.dek = key /\ (cached.open => handle.adminSlot = adminSlot)
  /\ doing.call # "revoke" => WrapsKey(keyring, key) /\ GrantsHolders(keyring, key)

(* What the call is about.                                                 *)
Target ==
  /\ todo # <<>> => doing.call \in Calls
  /\ doing.call = "grant" => doing.name = NoName
  /\ \A w \in Coming : w.region = "slot" =>
       /\ table[w.at].listed => table[w.at].name = doing.name
       /\ doing.call = "add" =>
            \A i \in FileSlots : table[i].listed => table[i].name # doing.name

(* It spares the other files, unless it is a revocation.                   *)
Spares(s, t, key) ==
  doing.call # "revoke" =>
    \A i \in SoundIn(t, hurt) : t[i].name # doing.name =>
      LET own == StoredBy(s, key, t[i]) IN
      /\ own \subseteq bitmap /\ own \subseteq Alloc
      /\ \A w \in Coming : w.region = "block" => w.at \notin own
      /\ \A w \in Coming : w.region \in {"block", "bitmap"} => own \subseteq w.bits

Working(s, t, kr, key, bm, al) ==
  /\ Goal(s, t, kr, key, bm, al)
  /\ Leads(s, t, kr, bm, al)
  /\ KeysLead(key)
  /\ Target
  /\ Spares(s, t, key)
  /\ EntriesApart(table) /\ KnownSoFar(table, key)
CallInv == Undamaged => \E s, t, kr, key, bm, al : Working(s, t, kr, key, bm, al)

(* Between calls, the goal is what is there.                               *)
Rests(key) ==
  /\ Goal(store, table, keyring, key, bitmap, Alloc)
  /\ key = CurrentKey /\ adminSlot.dek = key
  /\ cached.open => handle.adminSlot = adminSlot

(* Once the call has only its chain record to append, its goal is reached. *)
LEMMA ReachesGoal ==
  ASSUME ShapeInv, NEW s, NEW t, NEW kr, NEW key, NEW bm, NEW al,
         Working(s, t, kr, key, bm, al), \A w \in Coming : w.region \in Appending
  PROVE  /\ s = store /\ t = table /\ kr = keyring /\ bm = bitmap /\ al = Alloc
         /\ Rests(key)
<1>1. \A w \in Coming : w.region \notin {"block", "bitmap", "slot", "recipient", "keyslot"}
  BY DEF Appending
<1>2. \A k \in 1 .. Len(todo) : todo[k] \in Coming
  BY DEF Coming, ToSet, ShapeInv, CallShape
<1>3. s = store
  <2>1. \A b \in Blocks : s[b] = store[b]
    BY <1>1 DEF Working, Leads, LeadsStore
  <2>2. s = [b \in Blocks |-> s[b]] /\ store = [b \in Blocks |-> store[b]]
    BY DEF ShapeInv, FileShape, WellStored, Working, Goal, FilesStand
  <2>3. [b \in Blocks |-> s[b]] = [b \in Blocks |-> store[b]]
    BY <2>1
  <2> QED BY <2>2, <2>3
<1>4. t = table
  <2>1. \A i \in FileSlots : t[i] = table[i]
    BY <1>1 DEF Working, Leads, LeadsTable
  <2>2. t = [i \in FileSlots |-> t[i]] /\ table = [i \in FileSlots |-> table[i]]
    BY DEF ShapeInv, FileShape, WellListed, Working, Goal, FilesStand
  <2>3. [i \in FileSlots |-> t[i]] = [i \in FileSlots |-> table[i]]
    BY <2>1
  <2> QED BY <2>2, <2>3
<1>5. kr = keyring
  <2>1. \A i \in RecipientSlots : kr[i] = keyring[i]
    BY <1>1 DEF Working, Leads, LeadsKeyring
  <2>2. kr = [i \in RecipientSlots |-> kr[i]] /\ keyring = [i \in RecipientSlots |-> keyring[i]]
    BY DEF ShapeInv, FileShape, WellGranted, Working, Goal
  <2>3. [i \in RecipientSlots |-> kr[i]] = [i \in RecipientSlots |-> keyring[i]]
    BY <2>1
  <2> QED BY <2>2, <2>3
<1>6. bm = bitmap /\ al = Alloc
  BY <1>1, <1>2 DEF Working, Leads, LastBits
<1>7. key = CurrentKey /\ adminSlot.dek = key /\ (cached.open => handle.adminSlot = adminSlot)
  BY <1>1 DEF Working, KeysLead
<1> QED BY <1>3, <1>4, <1>5, <1>6, <1>7 DEF Working, Rests

LEMMA ListedIs ==
  ASSUME NEW t, WellListed(t), NEW i \in FileSlots, t[i].listed
  PROVE  /\ t[i] \in Entry /\ t[i].id \in Ids /\ t[i].id \in Nat
         /\ t[i].direct \in Seq(Blocks) /\ t[i].overflow \in Blocks
         /\ t[i].size \in Nat /\ t[i].name \in Names
<1>1. t[i] # NoEntry
  BY DEF NoEntry
<1>2. t[i] \in Entry
  BY <1>1 DEF WellListed
<1>3. t[i].size \in Nat
  BY <1>2, SizesAssumption DEF Entry
<1>4. t[i].id \in Ids /\ t[i].id \in Nat
  BY <1>2, BoundsAssumption DEF Entry, Ids
<1> QED BY <1>2, <1>3, <1>4 DEF Entry

(* The files that a call is not about stand while it runs.                 *)
LEMMA OthersStand ==
  ASSUME ShapeInv, NEW s, NEW t, NEW kr, NEW key, NEW bm, NEW al,
         Working(s, t, kr, key, bm, al), doing.call # "revoke",
         NEW i \in SoundIn(table, hurt), table[i].name # doing.name
  PROVE  /\ t[i] = table[i] /\ i \in SoundIn(t, hurt)
         /\ Legible(store, key, table[i])
         /\ StoredBy(store, key, table[i]) = StoredBy(s, key, t[i])
         /\ AllBlocks(store, key, table[i]) = AllBlocks(s, key, t[i])
         /\ StoredBy(s, key, t[i]) \subseteq bitmap /\ StoredBy(s, key, t[i]) \subseteq Alloc
<1>1. i \in FileSlots /\ table[i].listed /\ table[i].name \notin hurt
  BY DEF SoundIn
<1>2. t[i] = table[i]
  <2>1. ~ \E w \in Coming : w.region = "slot" /\ w.at = i
    BY <1>1 DEF Working, Target
  <2> QED BY <1>1, <2>1 DEF Working, Leads, LeadsTable
<1>3. i \in SoundIn(t, hurt)
  BY <1>1, <1>2 DEF SoundIn
<1>4. /\ Legible(s, key, t[i]) /\ WellStored(s) /\ WellListed(t)
  BY <1>3 DEF Working, Goal, FilesStand
<1>5. /\ t[i].direct \in Seq(Blocks) /\ t[i].overflow \in Blocks /\ t[i].size \in Nat
  BY <1>1, <1>2, <1>4, ListedIs
<1> DEFINE own == StoredBy(s, key, t[i])
<1>6. /\ own \subseteq bitmap /\ own \subseteq Alloc
      /\ \A w \in Coming : w.region = "block" => w.at \notin own
  BY <1>2, <1>3 DEF Working, Spares
<1>7. ChainsAscend(s) /\ ChainsAscend(store)
  BY <1>4, WellStoredAscends DEF ShapeInv, FileShape
<1>8. own \subseteq Blocks
  BY <1>4, <1>5, <1>7, LegibleBlocks
<1>9. \A b \in own : store[b] = s[b]
  BY <1>6, <1>8 DEF Working, Leads, LeadsStore
<1>10. \A b \in own : Readable(s, key, t[i].id, b)
  BY <1>4 DEF Legible
<1>11. \A b \in own : Readable(store, key, t[i].id, b) /\ store[b].body = s[b].body
  BY <1>9, <1>10 DEF Readable
<1>12. /\ Legible(store, key, t[i])
       /\ StoredBy(store, key, t[i]) = own
       /\ AllBlocks(store, key, t[i]) = AllBlocks(s, key, t[i])
  BY <1>4, <1>5, <1>7, <1>11, LegibleAgrees
<1> QED BY <1>2, <1>3, <1>6, <1>12

-------------------------------------------------------------------------------
(* A write takes the file towards the goal and leaves the goal as it is.   *)
LEMMA WriteEffects ==
  ASSUME ShapeInv, WriterInv, cached \in Handle, Write
  PROVE  LET w == Head(todo) IN
         /\ w \in Writes /\ todo # <<>> /\ todo' = Tail(todo)
         /\ Coming = {w} \union Coming'
         /\ doing' = doing \/ (doing' = NoCall /\ todo' = <<>>)
         /\ cached'.open = cached.open /\ cached.open /\ handle'.key = handle.key
         /\ bitmap' = IF w.region \in {"bitmap"} THEN w.bits ELSE bitmap
         /\ Alloc' = IF w.region \in {"block", "bitmap"} THEN w.bits ELSE Alloc
         /\ store' = IF w.region = "block" THEN [store EXCEPT ![w.at] = w.value] ELSE store
         /\ table' = IF w.region = "slot" THEN [table EXCEPT ![w.at] = w.value] ELSE table
         /\ keyring' = IF w.region = "recipient" THEN [keyring EXCEPT ![w.at] = w.value] ELSE keyring
         /\ w.region = "keyslot" => adminSlot' = w.value /\ handle'.adminSlot = w.value
         /\ w.region # "keyslot" =>
              /\ handle'.adminSlot = handle.adminSlot
              /\ adminSlot' \in {adminSlot, handle.adminSlot}
<1> DEFINE w == Head(todo)
           tail == Tail(todo)
<1>1. /\ todo # <<>> /\ Advance(w)
      /\ \/ WriteBlock(w) \/ WriteBitmap(w) \/ WriteSlot(w) \/ WriteRecipient(w)
         \/ WriteKeySlot(w) \/ WriteChainRecord(w) \/ WriteAppendHeader(w)
  BY DEF Write
<1>2. todo' = tail /\ (doing' = doing \/ (doing' = NoCall /\ tail = <<>>))
  <2>1. Len(todo) = 1 => tail = <<>>
    <3>1. todo \in Seq(Writes)
      BY DEF ShapeInv, CallShape
    <3>2. tail \in Seq(Writes) /\ Len(tail) = Len(todo) - 1
      BY <1>1, <3>1, HeadAndTail
    <3> HIDE DEF tail
    <3>3. \A q \in Seq(Writes) : Len(q) = 0 => q = <<>>
      OBVIOUS
    <3> QED BY <3>2, <3>3
  <2> HIDE DEF tail
  <2>2. todo' = tail /\ doing' = IF Len(todo) = 1 THEN NoCall ELSE doing
    BY <1>1 DEF Advance, tail
  <2> QED BY <2>1, <2>2
<1>3. Coming = {w} \union Coming' /\ w \in Writes
  BY <1>1, <1>2, HeadAndTail, HeadShapes DEF Coming, ShapeInv, CallShape
<1>4. /\ cached.open
      /\ handle \in [admin : BOOLEAN, key : Keys, alloc : SUBSET Blocks, adminSlot : AdminSlot]
  BY <1>1 DEF WriterInv, ShapeInv, HandleShape
<1> HIDE DEF w, tail
<1>5. /\ cached'.open = cached.open /\ handle'.key = handle.key
      /\ bitmap' = IF w.region \in {"bitmap"} THEN w.bits ELSE bitmap
      /\ handle'.alloc = IF w.region \in {"block", "bitmap"} THEN w.bits ELSE handle.alloc
      /\ store' = IF w.region = "block" THEN [store EXCEPT ![w.at] = w.value] ELSE store
      /\ table' = IF w.region = "slot" THEN [table EXCEPT ![w.at] = w.value] ELSE table
      /\ keyring' = IF w.region = "recipient" THEN [keyring EXCEPT ![w.at] = w.value] ELSE keyring
      /\ w.region = "keyslot" => adminSlot' = w.value /\ handle'.adminSlot = w.value
      /\ w.region # "keyslot" =>
           /\ handle'.adminSlot = handle.adminSlot
           /\ adminSlot' \in {adminSlot, handle.adminSlot}
  <2>1. CASE WriteBlock(w)
    BY <1>4, <2>1 DEF WriteBlock, chainVars
  <2>2. CASE WriteBitmap(w)
    BY <1>4, <2>2 DEF WriteBitmap, chainVars
  <2>3. CASE WriteSlot(w)
    BY <1>4, <2>3 DEF WriteSlot, chainVars
  <2>4. CASE WriteRecipient(w)
    BY <1>4, <2>4 DEF WriteRecipient, chainVars
  <2>5. CASE WriteKeySlot(w)
    BY <1>4, <2>5 DEF WriteKeySlot, WriteHeader
  <2>6. CASE WriteChainRecord(w)
    <3>1. cached' = [cached EXCEPT !.next = cached.next + 1, !.last = cached'.last]
      BY <2>6 DEF WriteChainRecord, WriteRecord, NewRecord, Handle
    <3>2. cached'.open = cached.open
      BY <3>1 DEF Handle
    <3> QED BY <1>4, <2>6, <3>2 DEF WriteChainRecord, fileVars
  <2>7. CASE WriteAppendHeader(w)
    BY <1>4, <2>7 DEF WriteAppendHeader, WriteHeader
  <2> QED BY <1>1, <2>1, <2>2, <2>3, <2>4, <2>5, <2>6, <2>7
<1>6. Alloc' = IF w.region \in {"block", "bitmap"} THEN w.bits ELSE Alloc
  BY <1>4, <1>5 DEF Alloc
<1> QED BY <1>1, <1>2, <1>3, <1>4, <1>5, <1>6 DEF w, tail

LEMMA WritesTowardsGoal ==
  ASSUME ShapeInv, WriterInv, cached \in Handle, Write,
         NEW s, NEW t, NEW kr, NEW key, NEW bm, NEW al, Working(s, t, kr, key, bm, al)
  PROVE  Leads(s, t, kr, bm, al)'
<1> DEFINE w == Head(todo)
           tail == Tail(todo)
<1>1. todo # <<>> /\ todo' = tail /\ (doing' = doing \/ (doing' = NoCall /\ tail = <<>>))
  BY WriteEffects
<1>2. Leads(s, t, kr, bm, al) /\ todo \in Seq(Writes)
  BY DEF Working, ShapeInv, CallShape
<1>3. Ordered(todo', doing'.call)
  <2>1. Ordered(tail, doing.call)
    BY <1>1, <1>2, OrderedTail DEF Leads
  <2>2. \A c : Ordered(<<>>, c)
    BY DEF Ordered
  <2> HIDE DEF tail
  <2> QED BY <1>1, <2>1, <2>2
<1>4. /\ LastBits(tail, {"bitmap"}, IF w.region \in {"bitmap"} THEN w.bits ELSE bitmap, bm)
      /\ LastBits(tail, {"block", "bitmap"},
                  IF w.region \in {"block", "bitmap"} THEN w.bits ELSE Alloc, al)
  BY <1>1, <1>2, LastBitsTail DEF Leads
<1>5. /\ Coming = {w} \union Coming' /\ w \in Writes
      /\ bitmap' = IF w.region \in {"bitmap"} THEN w.bits ELSE bitmap
      /\ Alloc' = IF w.region \in {"block", "bitmap"} THEN w.bits ELSE Alloc
      /\ store' = IF w.region = "block" THEN [store EXCEPT ![w.at] = w.value] ELSE store
      /\ table' = IF w.region = "slot" THEN [table EXCEPT ![w.at] = w.value] ELSE table
      /\ keyring' = IF w.region = "recipient" THEN [keyring EXCEPT ![w.at] = w.value] ELSE keyring
  BY WriteEffects
<1> HIDE DEF w, tail
<1>6. /\ LastBits(todo, {"bitmap"}, bitmap, bm)'
      /\ LastBits(todo, {"block", "bitmap"}, Alloc, al)'
  BY <1>1, <1>4, <1>5 DEF LastBits
<1>7. /\ w.region = "block" => w.at \in Blocks /\ s[w.at] = w.value
      /\ w.region = "slot" => w.at \in FileSlots /\ t[w.at] = w.value
      /\ w.region = "recipient" => w.at \in RecipientSlots /\ kr[w.at] = w.value
  BY <1>2, <1>5, WriteShapes DEF Leads, LeadsStore, LeadsTable, LeadsKeyring
<1>8. LeadsStore(s)'
  <2>1. ASSUME NEW b \in Blocks
        PROVE  s[b] = store'[b] \/ \E v \in Coming' : v.region = "block" /\ v.at = b
    <3>1. CASE w.region = "block" /\ w.at = b
      BY <1>5, <1>7, <3>1 DEF ShapeInv, FileShape, WellStored
    <3>2. CASE ~ (w.region = "block" /\ w.at = b)
      <4>1. store'[b] = store[b]
        BY <1>5, <3>2 DEF ShapeInv, FileShape, WellStored
      <4> QED BY <1>2, <1>5, <3>2, <4>1 DEF Leads, LeadsStore
    <3> QED BY <3>1, <3>2
  <2> QED BY <1>2, <1>5, <2>1 DEF Leads, LeadsStore
<1>9. LeadsTable(t)'
  <2>1. ASSUME NEW b \in FileSlots
        PROVE  t[b] = table'[b] \/ \E v \in Coming' : v.region = "slot" /\ v.at = b
    <3>1. CASE w.region = "slot" /\ w.at = b
      BY <1>5, <1>7, <3>1 DEF ShapeInv, FileShape, WellListed
    <3>2. CASE ~ (w.region = "slot" /\ w.at = b)
      <4>1. table'[b] = table[b]
        BY <1>5, <3>2 DEF ShapeInv, FileShape, WellListed
      <4> QED BY <1>2, <1>5, <3>2, <4>1 DEF Leads, LeadsTable
    <3> QED BY <3>1, <3>2
  <2> QED BY <1>2, <1>5, <2>1 DEF Leads, LeadsTable
<1>10. LeadsKeyring(kr)'
  <2>1. ASSUME NEW b \in RecipientSlots
        PROVE  kr[b] = keyring'[b] \/ \E v \in Coming' : v.region = "recipient" /\ v.at = b
    <3>1. CASE w.region = "recipient" /\ w.at = b
      BY <1>5, <1>7, <3>1 DEF ShapeInv, FileShape, WellGranted
    <3>2. CASE ~ (w.region = "recipient" /\ w.at = b)
      <4>1. keyring'[b] = keyring[b]
        BY <1>5, <3>2 DEF ShapeInv, FileShape, WellGranted
      <4> QED BY <1>2, <1>5, <3>2, <4>1 DEF Leads, LeadsKeyring
    <3> QED BY <3>1, <3>2
  <2> QED BY <1>2, <1>5, <2>1 DEF Leads, LeadsKeyring
<1> QED BY <1>3, <1>6, <1>8, <1>9, <1>10 DEF Leads

LEMMA WriteKeepsGoal ==
  ASSUME ShapeInv, WriterInv, cached \in Handle, Write,
         NEW s, NEW t, NEW kr, NEW key, NEW bm, NEW al, Working(s, t, kr, key, bm, al)
  PROVE  Goal(s, t, kr, key, bm, al)'
<1> DEFINE w == Head(todo)
<1>1. Advance(w) /\ w \in Coming /\ w \in Writes
  BY WriteEffects DEF Write
<1>2. Goal(s, t, kr, key, bm, al) /\ LeadsKeyring(kr)
  BY DEF Working, Leads
<1> HIDE DEF w
<1>3. hurt' = hurt /\ faults' = faults /\ calls' = calls
  BY <1>1 DEF Advance
<1>4. ASSUME NEW p \in Peers, NEW k \in held'[p], k \notin held[p]
      PROVE  k = key /\ \E i \in RecipientSlots : kr[i].peer = p
  <2>1. w.region = "recipient" /\ w.value # NoRecipient
    BY <1>1, <1>4 DEF Advance
  <2>2. w.at \in RecipientSlots /\ w.value \in [peer : Peers, dek : Keys] /\ kr[w.at] = w.value
    BY <1>1, <1>2, <2>1, WriteShapes DEF LeadsKeyring, Recipients
  <2>3. held' = [held EXCEPT ![w.value.peer] = @ \union {w.value.dek}]
    BY <1>1, <2>1 DEF Advance
  <2>4. p = w.value.peer /\ k = w.value.dek
    BY <1>4, <2>2, <2>3 DEF ShapeInv, HistoryShape
  <2>5. w.value.peer # NoPeer
    BY <2>2, NamesAssumption
  <2>6. w.value.dek = key
    BY <1>2, <2>2, <2>5 DEF Goal, WrapsKey
  <2> QED BY <2>2, <2>4, <2>6
<1>5. GrantsHolders(kr, key)'
  BY <1>2, <1>4 DEF Goal, GrantsHolders
<1>6. KnownSoFar(t, key)'
  BY <1>2, <1>3, <1>4 DEF Goal, KnownSoFar
<1> QED BY <1>2, <1>3, <1>5, <1>6 DEF Goal


(* A write that is not one of those that prepare leaves only the chain     *)
(* record to append, and the goal is reached but for that.                 *)
LEMMA LastWrites ==
  ASSUME ShapeInv, WriterInv, cached \in Handle, Write,
         NEW s, NEW t, NEW kr, NEW key, NEW bm, NEW al, Working(s, t, kr, key, bm, al)
  PROVE  LET w == Head(todo) IN
         /\ w.region \in Appending \union {Decisive(doing.call)} \union Preparing(doing.call)
         /\ w.region \notin Preparing(doing.call) \/ doing' # doing =>
              /\ \A v \in Coming' : v.region \in Appending
              /\ \A i \in FileSlots : t[i] = table'[i]
              /\ \A i \in RecipientSlots : kr[i] = keyring'[i]
              /\ bm = bitmap' /\ al = Alloc'
<1> DEFINE w == Head(todo)
           tail == Tail(todo)
<1>1. /\ todo # <<>> /\ todo' = tail
      /\ doing' = doing \/ (doing' = NoCall /\ todo' = <<>>)
  BY WriteEffects
<1>2. /\ Ordered(todo, doing.call) /\ todo \in Seq(Writes)
  BY DEF Working, Leads, ShapeInv, CallShape
<1>3. /\ w.region \in Appending \union {Decisive(doing.call)} \union Preparing(doing.call)
      /\ w.region \notin Preparing(doing.call) => \A v \in ToSet(tail) : v.region \in Appending
  BY <1>1, <1>2, OrderedTail
<1>4. Leads(s, t, kr, bm, al)'
  BY WritesTowardsGoal
<1> HIDE DEF w, tail
<1>5. ASSUME w.region \notin Preparing(doing.call) \/ doing' # doing
      PROVE  /\ \A v \in Coming' : v.region \in Appending
             /\ \A i \in FileSlots : t[i] = table'[i]
             /\ \A i \in RecipientSlots : kr[i] = keyring'[i]
             /\ bm = bitmap' /\ al = Alloc'
  <2>1. \A v \in Coming' : v.region \in Appending
    <3>1. CASE todo' = <<>>
      BY <3>1 DEF Coming, ToSet
    <3>2. CASE todo' # <<>>
      <4>1. w.region \notin Preparing(doing.call)
        BY <1>1, <1>5, <3>2
      <4> QED BY <1>1, <1>3, <4>1 DEF Coming
    <3> QED BY <3>1, <3>2
  <2>2. \A v \in Coming' : v.region \notin {"block", "bitmap", "slot", "recipient", "keyslot"}
    BY <2>1 DEF Appending
  <2>3. \A k \in 1 .. Len(todo') : todo'[k] \in Coming'
    <3>1. todo' \in Seq(Writes)
      <4>1. ShapeInv'
        BY WriteKeepsShape
      <4> QED BY <4>1 DEF ShapeInv, CallShape
    <3> QED BY <3>1 DEF Coming, ToSet
  <2>4. bm = bitmap' /\ al = Alloc'
    BY <1>4, <2>2, <2>3 DEF Leads, LastBits
  <2>5. \A i \in FileSlots : t[i] = table'[i]
    BY <1>4, <2>2 DEF Leads, LeadsTable
  <2>6. \A i \in RecipientSlots : kr[i] = keyring'[i]
    BY <1>4, <2>2 DEF Leads, LeadsKeyring
  <2> QED BY <2>1, <2>4, <2>5, <2>6
<1> QED BY <1>3, <1>5 DEF w

LEMMA WriteKeepsKeys ==
  ASSUME ShapeInv, WriterInv, cached \in Handle, Write,
         NEW s, NEW t, NEW kr, NEW key, NEW bm, NEW al, Working(s, t, kr, key, bm, al)
  PROVE  KeysLead(key)'
<1> DEFINE w == Head(todo)
<1>1. /\ todo # <<>>
      /\ Coming = {w} \union Coming'
      /\ doing' = doing \/ (doing' = NoCall /\ todo' = <<>>)
      /\ cached'.open = cached.open /\ cached.open /\ handle'.key = handle.key
      /\ keyring' = IF w.region = "recipient" THEN [keyring EXCEPT ![w.at] = w.value] ELSE keyring
      /\ w.region = "keyslot" => adminSlot' = w.value /\ handle'.adminSlot = w.value
      /\ w.region # "keyslot" =>
           /\ handle'.adminSlot = handle.adminSlot
           /\ adminSlot' \in {adminSlot, handle.adminSlot}
      /\ Advance(w)
  BY WriteEffects DEF Write
<1>2. /\ w.region \in Appending \union {Decisive(doing.call)} \union Preparing(doing.call)
      /\ w.region \notin Preparing(doing.call) \/ doing' # doing =>
           \A i \in RecipientSlots : kr[i] = keyring'[i]
  BY LastWrites
<1>3. KeysLead(key) /\ Target
  BY DEF Working
<1>4. Goal(s, t, kr, key, bm, al)'
  BY WriteKeepsGoal
<1> HIDE DEF w
<1>5. key = CurrentKey'
  BY <1>1, <1>3 DEF KeysLead, CurrentKey
<1>6. \A v \in Coming' : v.region = "keyslot" => v.value.dek = key
  BY <1>1, <1>3 DEF KeysLead
<1>7. ASSUME \A v \in Coming' : v.region # "keyslot"
      PROVE  adminSlot'.dek = key /\ handle'.adminSlot = adminSlot'
  BY <1>1, <1>3, <1>7 DEF KeysLead
<1>8. ASSUME doing'.call # "revoke"
      PROVE  WrapsKey(keyring', key) /\ GrantsHolders(keyring, key)'
  <2>1. CASE w.region \notin Preparing(doing.call) \/ doing' # doing
    <3>1. \A i \in RecipientSlots : kr[i] = keyring'[i]
      BY <1>2, <2>1
    <3>2. WrapsKey(kr, key) /\ GrantsHolders(kr, key)'
      BY <1>4 DEF Goal
    <3> QED BY <3>1, <3>2 DEF WrapsKey, GrantsHolders
  <2>2. CASE w.region \in Preparing(doing.call) /\ doing' = doing
    <3>1. doing.call # "revoke" /\ w.region # "recipient"
      BY <1>8, <2>2 DEF Preparing
    <3>2. keyring' = keyring /\ held' = held
      BY <1>1, <3>1 DEF Advance
    <3>3. WrapsKey(keyring, key) /\ GrantsHolders(keyring, key)
      BY <1>3, <3>1 DEF KeysLead
    <3> QED BY <3>2, <3>3 DEF GrantsHolders
  <2> QED BY <2>1, <2>2
<1> QED BY <1>1, <1>5, <1>6, <1>7, <1>8 DEF KeysLead

LEMMA WriteKeepsTarget ==
  ASSUME ShapeInv, WriterInv, cached \in Handle, Write,
         NEW s, NEW t, NEW kr, NEW key, NEW bm, NEW al, Working(s, t, kr, key, bm, al)
  PROVE  /\ Target' /\ Spares(s, t, key)'
         /\ EntriesApart(table') /\ KnownSoFar(table, key)'
<1> DEFINE w == Head(todo)
<1>1. /\ todo # <<>>
      /\ Coming = {w} \union Coming'
      /\ doing' = doing \/ (doing' = NoCall /\ todo' = <<>>)
      /\ bitmap' = IF w.region \in {"bitmap"} THEN w.bits ELSE bitmap
      /\ Alloc' = IF w.region \in {"block", "bitmap"} THEN w.bits ELSE Alloc
      /\ table' = IF w.region = "slot" THEN [table EXCEPT ![w.at] = w.value] ELSE table
      /\ Advance(w)
  BY WriteEffects DEF Write
<1>2. /\ w.region \in Appending \union {Decisive(doing.call)} \union Preparing(doing.call)
      /\ w.region \notin Preparing(doing.call) \/ doing' # doing =>
              /\ \A v \in Coming' : v.region \in Appending
              /\ \A i \in FileSlots : t[i] = table'[i]
              /\ bm = bitmap' /\ al = Alloc'
  BY LastWrites
<1>3. Target /\ Spares(s, t, key) /\ EntriesApart(table) /\ KnownSoFar(table, key)
  BY DEF Working
<1>4. Goal(s, t, kr, key, bm, al)'
  BY WriteKeepsGoal
<1> HIDE DEF w
<1>5. hurt' = hurt /\ calls' = calls
  BY <1>1 DEF Advance
<1>6. "slot" \notin Preparing(doing.call) /\ "slot" \notin Appending
  BY DEF Preparing, Appending
<1>7. Target'
  <2>1. CASE doing' = doing
    <3>1. ASSUME NEW v \in Coming', v.region = "slot"
          PROVE  v \in Coming /\ table' = table
      BY <1>1, <1>2, <1>6, <3>1
    <3>2. ASSUME NEW v \in Coming', v.region = "slot"
          PROVE  /\ table'[v.at].listed => table'[v.at].name = doing.name
                 /\ doing.call = "add" =>
                      \A i \in FileSlots : table'[i].listed => table'[i].name # doing.name
      <4>1. v \in Coming /\ table' = table
        BY <3>1, <3>2
      <4> QED BY <1>3, <3>2, <4>1 DEF Target
    <3> QED BY <1>1, <1>3, <2>1, <3>2 DEF Target
  <2>2. CASE doing' # doing
    BY <1>1, <1>2, <1>6, <2>2 DEF Target, NoCall
  <2> QED BY <2>1, <2>2
<1>8. Spares(s, t, key)'
  <2>1. CASE doing' = doing
    BY <1>1, <1>3, <1>5, <2>1 DEF Spares
  <2>2. CASE doing' # doing
    <3>1. Marked(s, t, key, hurt', bitmap') /\ Marked(s, t, key, hurt', Alloc')
      BY <1>2, <1>4, <2>2 DEF Goal
    <3>2. \A v \in Coming' : v.region \notin {"block", "bitmap"}
      BY <1>2, <2>2 DEF Appending
    <3> QED BY <3>1, <3>2 DEF Spares, Marked
  <2> QED BY <2>1, <2>2
<1>9. EntriesApart(table') /\ KnownSoFar(table, key)'
  <2>1. EntriesApart(t) /\ KnownSoFar(t, key)'
    BY <1>4 DEF Goal, FilesStand
  <2>2. CASE w.region = "slot"
    <3>1. \A i \in FileSlots : t[i] = table'[i]
      BY <1>2, <1>6, <2>2
    <3> QED BY <2>1, <3>1 DEF EntriesApart, KnownSoFar
  <2>3. CASE w.region # "slot"
    <3>1. table' = table
      BY <1>1, <2>3
    <3> QED BY <1>3, <1>5, <2>1, <3>1 DEF KnownSoFar
  <2> QED BY <2>2, <2>3
<1> QED BY <1>7, <1>8, <1>9

LEMMA WriteKeepsWorking ==
  ASSUME ShapeInv, WriterInv, cached \in Handle, Write,
         NEW s, NEW t, NEW kr, NEW key, NEW bm, NEW al, Working(s, t, kr, key, bm, al)
  PROVE  Working(s, t, kr, key, bm, al)'
  BY WritesTowardsGoal, WriteKeepsGoal, WriteKeepsKeys, WriteKeepsTarget DEF Working
-------------------------------------------------------------------------------
(* Between calls the invariant says that the goal is there, and a call     *)
(* that is cut off leaves such a state behind.                             *)
LEMMA RestsInvariant ==
  \A key : ShapeInv /\ todo = <<>> /\ Target /\ Rests(key) => CallInv
<1> SUFFICES ASSUME NEW key, ShapeInv, todo = <<>>, Target, Rests(key)
             PROVE  CallInv
  OBVIOUS
<1>1. Coming = {}
  BY DEF Coming, ToSet
<1>2. /\ Goal(store, table, keyring, key, bitmap, Alloc)
      /\ key = CurrentKey /\ adminSlot.dek = key
      /\ cached.open => handle.adminSlot = adminSlot
  BY DEF Rests
<1>3. Leads(store, table, keyring, bitmap, Alloc)
  <2>1. Ordered(<<>>, doing.call)
    BY DEF Ordered
  <2>2. \A r, bits : LastBits(<<>>, r, bits, bits)
    BY DEF LastBits
  <2> QED BY <1>1, <2>1, <2>2 DEF Leads, LeadsStore, LeadsTable, LeadsKeyring
<1>4. KeysLead(key)
  BY <1>1, <1>2 DEF KeysLead, Goal
<1>5. Spares(store, table, key)
  BY <1>1, <1>2 DEF Spares, Goal, Marked
<1>6. EntriesApart(table) /\ KnownSoFar(table, key)
  BY <1>2 DEF Goal, FilesStand
<1>7. Working(store, table, keyring, key, bitmap, Alloc)
  BY <1>2, <1>3, <1>4, <1>5, <1>6 DEF Working
<1> QED BY <1>7 DEF CallInv

(* The invariant between calls.                                            *)
LEMMA InvariantRests ==
  ASSUME ShapeInv, CallInv, Undamaged, todo = <<>>
  PROVE  \E key : Rests(key)
<1>1. PICK s, t, kr, key, bm, al : Working(s, t, kr, key, bm, al)
  BY DEF CallInv
<1>2. \A w \in Coming : w.region \in Appending
  BY DEF Coming, ToSet
<1>3. Rests(key)
  BY <1>1, <1>2, ReachesGoal
<1> QED BY <1>3

(* As long as a call has more than its chain record to write, the write    *)
(* that decides is still to come.                                          *)
LEMMA StillToDecide ==
  ASSUME ShapeInv, NEW call, Ordered(todo, call)
  PROVE  /\ \A w \in Coming : w.region \in Appending \union {Decisive(call)} \union Preparing(call)
         /\ (\E w \in Coming : w.region \notin Appending)
              => \E k \in 1 .. Len(todo) : todo[k].region = Decisive(call)
<1>1. todo \in Seq(Writes) /\ Len(todo) \in Nat /\ DOMAIN todo = 1 .. Len(todo)
  BY DEF ShapeInv, CallShape
<1>2. PICK m \in 0 .. Len(todo) :
        /\ \A k \in 1 .. Len(todo) : k > m => todo[k].region \in Appending
        /\ \A k \in 1 .. Len(todo) : k = m => todo[k].region = Decisive(call)
        /\ \A k \in 1 .. Len(todo) : k < m => todo[k].region \in Preparing(call)
  BY DEF Ordered
<1>3. ASSUME NEW k \in 1 .. Len(todo)
      PROVE  todo[k].region \in Appending \union {Decisive(call)} \union Preparing(call)
  <2>1. k > m \/ k = m \/ k < m
    BY <1>1
  <2> QED BY <1>2, <2>1
<1>4. ASSUME NEW w \in Coming, w.region \notin Appending
      PROVE  \E k \in 1 .. Len(todo) : todo[k].region = Decisive(call)
  <2>1. PICK k \in 1 .. Len(todo) : todo[k] = w
    BY <1>1 DEF Coming, ToSet
  <2>2. ~ (k > m)
    BY <1>2, <1>4, <2>1
  <2>3. m \in 1 .. Len(todo)
    BY <1>1, <2>2
  <2> QED BY <1>2, <2>3
<1> QED BY <1>1, <1>3, <1>4 DEF Coming, ToSet

(* A file that no fault has hurt is not the one that a cut off call is     *)
(* about: a call that had not decided yet has no such file, or hurts it.   *)
LEMMA CutOffSparesSound ==
  ASSUME ShapeInv, NEW s, NEW t, NEW kr, NEW key, NEW bm, NEW al,
         Working(s, t, kr, key, bm, al), todo # <<>>,
         \E w \in Coming : w.region \notin Appending,
         hurt \union HurtByFault # Names
  PROVE  /\ doing.call # "revoke"
         /\ \A i \in SoundIn(table, hurt \union HurtByFault) :
              i \in SoundIn(table, hurt) /\ table[i].name # doing.name
<1>1. /\ \A w \in Coming :
           w.region \in Appending \union {Decisive(doing.call)} \union Preparing(doing.call)
      /\ \E k \in 1 .. Len(todo) : todo[k].region = Decisive(doing.call)
  BY StillToDecide DEF Working, Leads
<1>2. PICK k \in 1 .. Len(todo) : todo[k].region = Decisive(doing.call)
  BY <1>1
<1>3. todo[k] \in Coming
  BY DEF Coming, ToSet, ShapeInv, CallShape
<1>4. hurt \subseteq Names
  BY DEF ShapeInv, HistoryShape
<1>5. doing.call # "revoke"
  <2> SUFFICES ASSUME doing.call = "revoke" PROVE FALSE
    OBVIOUS
  <2>1. todo[k].region = "keyslot"
    BY <1>2 DEF Decisive
  <2>2. HurtByFault = Names
    BY <2>1 DEF HurtByFault
  <2> QED BY <1>4, <2>2
<1>6. ASSUME NEW i \in SoundIn(table, hurt \union HurtByFault)
      PROVE  i \in SoundIn(table, hurt) /\ table[i].name # doing.name
  <2>1. i \in FileSlots /\ table[i].listed /\ i \in SoundIn(table, hurt)
        /\ table[i].name \notin HurtByFault
    BY <1>6 DEF SoundIn
  <2>2. doing.call \in Calls /\ Target
    BY DEF Working, Target
  <2>3. table[i].name \in Names
    BY <2>1, ListedIs DEF ShapeInv, FileShape
  <2>4. CASE doing.call = "grant"
    <3>1. doing.name = NoName
      BY <2>2, <2>4 DEF Target
    <3> QED BY <2>1, <2>3, <3>1, NamesAssumption
  <2>5. CASE doing.call = "add"
    <3>1. todo[k].region = "slot"
      BY <1>2, <2>5 DEF Decisive
    <3> QED BY <1>3, <2>1, <2>2, <2>5, <3>1 DEF Target
  <2>6. CASE doing.call \in {"update", "delete"}
    <3>1. todo[k].region = "slot"
      BY <1>2, <2>6 DEF Decisive
    <3>2. Pending
      BY <3>1 DEF Pending, TakesEffect
    <3>3. HurtByFault = {doing.name}
      BY <2>6, <3>2 DEF HurtByFault
    <3> QED BY <2>1, <3>3
  <2> QED BY <1>5, <2>2, <2>4, <2>5, <2>6 DEF Calls
<1> QED BY <1>5, <1>6

(* What a fault leaves of the handle.                                      *)
LEMMA FaultEffects ==
  ASSUME ShapeInv, WriterInv, cached \in Handle, WriteFails \/ Crash
  PROVE  LET w == Head(todo) IN
         /\ todo # <<>> /\ cached.open /\ w \in Coming
         /\ todo' = <<>> /\ doing' = NoCall /\ faults' = faults + 1 /\ faults' # 0
         /\ hurt' = hurt \union HurtByFault /\ calls' = calls /\ held' = held
         /\ UNCHANGED fileVars
         /\ CurrentKey' \in {handle.key, adminSlot.dek}
         /\ Alloc' \in {Alloc, bitmap} \/ (w.region \in {"block", "bitmap"} /\ Alloc' = w.bits)
         /\ (cached'.open /\ w.region # "keyslot") => handle'.adminSlot = handle.adminSlot
<1> DEFINE w == Head(todo)
<1>1. todo # <<>> /\ cached.open
  BY DEF WriteFails, Crash, WriterInv
<1>2. w \in Coming
  BY <1>1, HeadAndTail DEF ShapeInv, CallShape, Coming
<1>3. /\ todo' = <<>> /\ doing' = NoCall /\ faults' = faults + 1
      /\ hurt' = hurt \union HurtByFault /\ calls' = calls /\ held' = held
      /\ UNCHANGED fileVars
  BY DEF WriteFails, Crash
<1>4. faults' # 0
  BY <1>3 DEF ShapeInv, HistoryShape
<1>5. handle \in [admin : BOOLEAN, key : Keys, alloc : SUBSET Blocks, adminSlot : AdminSlot]
  BY DEF ShapeInv, HandleShape
<1>6. CASE Crash
  <2>1. ~ cached'.open
    BY <1>6 DEF Crash, CloseChain, NoHandle
  <2>2. CurrentKey' = adminSlot.dek /\ Alloc' = bitmap
    BY <1>3, <2>1 DEF CurrentKey, Alloc, fileVars
  <2> QED BY <1>1, <1>2, <1>3, <1>4, <2>1, <2>2
<1>7. CASE WriteFails
  <2>1. cached' = cached
    BY <1>7 DEF WriteFails, HeaderWriteFails, chainVars
  <2>2. handle' = CASE w.region \in {"block", "bitmap"} -> [handle EXCEPT !.alloc = w.bits]
                    [] w.region = "keyslot" -> [handle EXCEPT !.adminSlot = w.value]
                    [] OTHER -> handle
    BY <1>7 DEF WriteFails
  <2> HIDE DEF w
  <2>3. /\ handle'.key = handle.key
        /\ handle'.alloc = handle.alloc \/ (w.region \in {"block", "bitmap"} /\ handle'.alloc = w.bits)
        /\ w.region # "keyslot" => handle'.adminSlot = handle.adminSlot
    <3>1. CASE w.region \in {"block", "bitmap"}
      BY <1>5, <2>2, <3>1
    <3>2. CASE w.region = "keyslot"
      BY <1>5, <2>2, <3>2
    <3>3. CASE w.region \notin {"block", "bitmap", "keyslot"}
      BY <2>2, <3>3
    <3> QED BY <3>1, <3>2, <3>3
  <2>4. CurrentKey' = handle.key
    BY <1>1, <2>1, <2>3 DEF CurrentKey
  <2>5. Alloc' = handle'.alloc /\ Alloc = handle.alloc
    BY <1>1, <2>1 DEF Alloc
  <2> QED BY <1>1, <1>2, <1>3, <1>4, <2>3, <2>4, <2>5 DEF w
<1> QED BY <1>6, <1>7

LEMMA FaultRests ==
  ASSUME ShapeInv, WriterInv, cached \in Handle, WriteFails \/ Crash, Undamaged',
         NEW s, NEW t, NEW kr, NEW key, NEW bm, NEW al, Working(s, t, kr, key, bm, al)
  PROVE  Rests(key)'
<1> DEFINE w == Head(todo)
<1>1. /\ todo # <<>> /\ cached.open /\ w \in Coming
      /\ faults' # 0
      /\ hurt' = hurt \union HurtByFault /\ calls' = calls /\ held' = held
      /\ adminSlot' = adminSlot /\ bitmap' = bitmap /\ table' = table
      /\ keyring' = keyring /\ store' = store
      /\ CurrentKey' \in {handle.key, adminSlot.dek}
      /\ Alloc' \in {Alloc, bitmap} \/ (w.region \in {"block", "bitmap"} /\ Alloc' = w.bits)
      /\ (cached'.open /\ w.region # "keyslot") => handle'.adminSlot = handle.adminSlot
  BY FaultEffects DEF fileVars
<1>2. hurt' # Names
  BY <1>1 DEF Undamaged
<1> HIDE DEF w
<1>3. key = handle.key /\ key = CurrentKey
  BY <1>1 DEF Working, KeysLead, CurrentKey
<1>4. /\ WellStored(store) /\ WellListed(table) /\ WellGranted(keyring)
  BY DEF ShapeInv, FileShape
<1>5. EntriesApart(table) /\ KnownSoFar(table, key)
  BY DEF Working
<1>6. /\ adminSlot.dek = key /\ handle.adminSlot = adminSlot /\ w.region # "keyslot"
      /\ WrapsKey(keyring, key) /\ GrantsHolders(keyring, key)
      /\ \A i \in SoundIn(table, hurt') :
           /\ Legible(store, key, table[i])
           /\ StoredBy(store, key, table[i]) \subseteq bitmap
           /\ StoredBy(store, key, table[i]) \subseteq Alloc'
           /\ \A j \in SoundIn(table, hurt') : i # j =>
                StoredBy(store, key, table[i]) \intersect StoredBy(store, key, table[j]) = {}
  <2>1. CASE \A v \in Coming : v.region \in Appending
    <3>1. Rests(key)
      BY <2>1, ReachesGoal
    <3>2. w.region \notin {"block", "bitmap", "keyslot"}
      BY <1>1, <2>1 DEF Appending
    <3>3. Goal(store, table, keyring, key, bitmap, Alloc)
      BY <3>1 DEF Rests
    <3>4. \A i \in SoundIn(table, hurt') : i \in SoundIn(table, hurt)
      BY <1>1 DEF SoundIn
    <3>5. Alloc' \in {Alloc, bitmap}
      BY <1>1, <3>2
    <3>6. ASSUME NEW i \in SoundIn(table, hurt)
          PROVE  /\ Legible(store, key, table[i])
                 /\ StoredBy(store, key, table[i]) \subseteq bitmap
                 /\ StoredBy(store, key, table[i]) \subseteq Alloc
                 /\ \A j \in SoundIn(table, hurt) : i # j =>
                      StoredBy(store, key, table[i]) \intersect StoredBy(store, key, table[j]) = {}
      BY <3>3, <3>6 DEF Goal, FilesStand, Marked
    <3>7. WrapsKey(keyring, key) /\ GrantsHolders(keyring, key)
      BY <3>3 DEF Goal
    <3>8. adminSlot.dek = key /\ handle.adminSlot = adminSlot
      BY <1>1, <3>1 DEF Rests
    <3> QED BY <3>2, <3>4, <3>5, <3>6, <3>7, <3>8
  <2>2. CASE \E v \in Coming : v.region \notin Appending
    <3>1. /\ doing.call # "revoke"
          /\ \A i \in SoundIn(table, hurt') :
               i \in SoundIn(table, hurt) /\ table[i].name # doing.name
      BY <1>1, <1>2, <2>2, CutOffSparesSound
    <3>2. \A v \in Coming :
            v.region \in Appending \union {Decisive(doing.call)} \union Preparing(doing.call)
      BY StillToDecide DEF Working, Leads
    <3>3. \A v \in Coming : v.region # "keyslot"
      BY <3>1, <3>2 DEF Appending, Decisive, Preparing
    <3>4. adminSlot.dek = key /\ handle.adminSlot = adminSlot
          /\ WrapsKey(keyring, key) /\ GrantsHolders(keyring, key)
      BY <1>1, <3>1, <3>3 DEF Working, KeysLead
    <3>5. ASSUME NEW i \in SoundIn(table, hurt')
          PROVE  /\ t[i] = table[i] /\ i \in SoundIn(t, hurt)
                 /\ Legible(store, key, table[i])
                 /\ StoredBy(store, key, table[i]) = StoredBy(s, key, t[i])
                 /\ StoredBy(s, key, t[i]) \subseteq bitmap /\ StoredBy(s, key, t[i]) \subseteq Alloc
                 /\ t[i].name # doing.name
      <4>1. i \in SoundIn(table, hurt) /\ table[i].name # doing.name
        BY <3>1
      <4>2. /\ t[i] = table[i] /\ i \in SoundIn(t, hurt)
            /\ Legible(store, key, table[i])
            /\ StoredBy(store, key, table[i]) = StoredBy(s, key, t[i])
            /\ StoredBy(s, key, t[i]) \subseteq bitmap /\ StoredBy(s, key, t[i]) \subseteq Alloc
        BY <3>1, <4>1, OthersStand
      <4> QED BY <4>1, <4>2
    <3>6. ASSUME NEW i \in SoundIn(table, hurt')
          PROVE  StoredBy(store, key, table[i]) \subseteq Alloc'
      <4>1. CASE Alloc' \in {Alloc, bitmap}
        BY <3>5, <4>1
      <4>2. CASE w.region \in {"block", "bitmap"} /\ Alloc' = w.bits
        <5>1. StoredBy(s, key, t[i]) \subseteq w.bits
          BY <1>1, <3>1, <3>5, <4>2 DEF Working, Spares
        <5> QED BY <3>5, <4>2, <5>1
      <4> QED BY <1>1, <4>1, <4>2
    <3>7. ASSUME NEW i \in SoundIn(table, hurt'), NEW j \in SoundIn(table, hurt'), i # j
          PROVE  StoredBy(store, key, table[i]) \intersect StoredBy(store, key, table[j]) = {}
      <4>1. StoredBy(s, key, t[i]) \intersect StoredBy(s, key, t[j]) = {}
        BY <3>5, <3>7 DEF Working, Goal, FilesStand
      <4> QED BY <3>5, <4>1
    <3> QED BY <1>1, <3>3, <3>4, <3>5, <3>6, <3>7
  <2> QED BY <2>1, <2>2
<1>7. FilesStand(store', table', key, hurt')
  <2> DEFINE now == hurt'
  <2>1. \A i \in SoundIn(table, now) :
           /\ Legible(store, key, table[i])
           /\ \A j \in SoundIn(table, now) : i # j =>
                StoredBy(store, key, table[i]) \intersect StoredBy(store, key, table[j]) = {}
    BY <1>6
  <2> HIDE DEF now
  <2>2. FilesStand(store, table, key, now)
    BY <1>4, <1>5, <2>1 DEF FilesStand
  <2> QED BY <1>1, <2>2 DEF now
<1>8. Marked(store', table', key, hurt', bitmap') /\ Marked(store', table', key, hurt', Alloc')
  BY <1>1, <1>6 DEF Marked
<1>9. Goal(store, table, keyring, key, bitmap, Alloc)'
  BY <1>1, <1>4, <1>5, <1>6, <1>7, <1>8 DEF Goal, GrantsHolders, KnownSoFar
<1>10. key = CurrentKey'
  BY <1>1, <1>3, <1>6
<1> QED BY <1>1, <1>6, <1>9, <1>10 DEF Rests

(* Opening, closing and draining keep what is there.                       *)
LEMMA QuietRests ==
  ASSUME ShapeInv, cached \in Handle, NEW key, Rests(key), UNCHANGED <<fileVars, callVars, faults, history>>,
         \/ ~ cached'.open
         \/ cached' = cached /\ handle' = handle
         \/ cached'.open /\ \E admin \in BOOLEAN :
              handle' = [admin |-> admin, key |-> key, alloc |-> bitmap, adminSlot |-> adminSlot]
  PROVE  Rests(key)'
<1>1. /\ Goal(store, table, keyring, key, bitmap, Alloc)
      /\ key = CurrentKey /\ adminSlot.dek = key
      /\ cached.open => handle.adminSlot = adminSlot
  BY DEF Rests
<1>2. /\ adminSlot' = adminSlot /\ bitmap' = bitmap /\ table' = table
      /\ keyring' = keyring /\ store' = store
      /\ faults' = faults /\ hurt' = hurt /\ held' = held /\ calls' = calls
  BY DEF fileVars, callVars, history
<1>3. Goal(store, table, keyring, key, bitmap, bitmap)
  BY <1>1 DEF Goal
<1>4. /\ Alloc' \in {Alloc, bitmap} /\ key = CurrentKey'
      /\ cached'.open => handle'.adminSlot = adminSlot'
  <2>1. CASE ~ cached'.open
    BY <1>1, <1>2, <2>1 DEF Alloc, CurrentKey
  <2>2. CASE cached' = cached /\ handle' = handle
    BY <1>1, <1>2, <2>2 DEF Alloc, CurrentKey
  <2>3. CASE cached'.open /\ \E admin \in BOOLEAN :
              handle' = [admin |-> admin, key |-> key, alloc |-> bitmap, adminSlot |-> adminSlot]
    BY <1>1, <1>2, <2>3 DEF Alloc, CurrentKey
  <2> QED BY <2>1, <2>2, <2>3
<1>5. Goal(store, table, keyring, key, bitmap, Alloc')
  BY <1>1, <1>3, <1>4
<1>6. Goal(store, table, keyring, key, bitmap, Alloc)'
  BY <1>2, <1>5 DEF Goal, GrantsHolders, KnownSoFar
<1> QED BY <1>1, <1>2, <1>4, <1>6 DEF Rests

LEMMA OpenAndCloseRest ==
  ASSUME ShapeInv, cached \in Handle, NEW key, Rests(key),
         \/ \E password \in Passwords, admin \in BOOLEAN : Open(password, admin)
         \/ \E p \in Peers : OpenAsRecipient(p)
         \/ Close
         \/ TakeChangeLog
  PROVE  Rests(key)'
<1>1. ASSUME NEW admin \in BOOLEAN, OpenWith(key, admin) PROVE Rests(key)'
  <2>1. cached'.open
    BY <1>1 DEF OpenWith, OpenChain
  <2> QED BY <1>1, <2>1, QuietRests DEF OpenWith
<1>2. ASSUME NEW password \in Passwords, NEW admin \in BOOLEAN, Open(password, admin)
      PROVE  Rests(key)'
  <2>1. adminSlot.dek = key
    BY DEF Rests
  <2> QED BY <1>1, <1>2, <2>1 DEF Open
<1>3. ASSUME NEW p \in Peers, OpenAsRecipient(p) PROVE Rests(key)'
  <2> DEFINE i == Min(SlotsOfPeer(p))
  <2>1. SlotsOfPeer(p) # {} /\ OpenWith(keyring[i].dek, FALSE)
    BY <1>3 DEF OpenAsRecipient
  <2>2. SlotsOfPeer(p) \in SUBSET Nat
    BY MaxRecipientsAssumption DEF SlotsOfPeer, GrantedSlots, RecipientSlots
  <2>3. i \in SlotsOfPeer(p)
    BY <2>1, <2>2, MinExists
  <2> HIDE DEF i
  <2>4. i \in RecipientSlots /\ keyring[i].peer # NoPeer
    BY <2>3 DEF SlotsOfPeer, GrantedSlots
  <2>5. keyring[i].dek = key
    BY <2>4 DEF Rests, Goal, WrapsKey
  <2> QED BY <1>1, <2>1, <2>5
<1>4. CASE Close
  <2>1. ~ cached'.open
    BY <1>4 DEF Close, CloseChain, NoHandle
  <2> QED BY <1>4, <2>1, QuietRests DEF Close
<1>5. CASE TakeChangeLog
  BY <1>5, QuietRests DEF TakeChangeLog, chainVars
<1> QED BY <1>2, <1>3, <1>4, <1>5

(* A call that begins works towards what it is to leave behind, provided   *)
(* that its writes lead there and that the files it is not about are       *)
(* spared.                                                                 *)
LEMMA BeginWorks ==
  ASSUME ShapeInv, NEW call \in Calls, NEW name, NEW ws \in Seq(Writes), Begin(call, name, ws),
         NEW s, NEW t, NEW kr, NEW key, NEW bm, NEW al,
         Goal(s, t, kr, key, bm, al)', Leads(s, t, kr, bm, al)', KeysLead(key)', Target',
         Spares(s, t, key)', EntriesApart(table), KnownSoFar(table, key)'
  PROVE  CallInv'
<1>1. table' = table
  BY DEF Begin, fileVars
<1>2. Working(s, t, kr, key, bm, al)'
  BY <1>1 DEF Working
<1> QED BY <1>2 DEF CallInv
-------------------------------------------------------------------------------
(***************************************************************************)
(* The order of writes as a call puts them together.                       *)
(***************************************************************************)
LEMMA ConcatRegroups ==
  ASSUME NEW S, NEW p \in Seq(S), NEW q \in Seq(S), NEW r \in Seq(S)
  PROVE  p \o (q \o r) = (p \o q) \o r
<1> DEFINE left == p \o (q \o r)
           right == (p \o q) \o r
<1>1. /\ left \in Seq(S) /\ right \in Seq(S)
      /\ Len(left) = Len(p) + Len(q) + Len(r) /\ Len(right) = Len(left)
      /\ Len(p) \in Nat /\ Len(q) \in Nat /\ Len(r) \in Nat
  OBVIOUS
<1>2. ASSUME NEW k \in 1 .. Len(left) PROVE left[k] = right[k]
  <2>1. CASE k <= Len(p)
    BY <1>1, <2>1
  <2>2. CASE k > Len(p) /\ k <= Len(p) + Len(q)
    BY <1>1, <2>2
  <2>3. CASE k > Len(p) + Len(q)
    BY <1>1, <2>3
  <2> QED BY <1>1, <2>1, <2>2, <2>3
<1> HIDE DEF left, right
<1>3. left = right
  <2>1. left = [k \in 1 .. Len(left) |-> left[k]] /\ right = [k \in 1 .. Len(left) |-> right[k]]
    BY <1>1
  <2>2. [k \in 1 .. Len(left) |-> left[k]] = [k \in 1 .. Len(left) |-> right[k]]
    BY <1>2
  <2> QED BY <2>1, <2>2
<1> QED BY <1>3 DEF left, right

LEMMA SingleWrite ==
  ASSUME NEW w \in Writes
  PROVE  <<w>> \in Seq(Writes) /\ Len(<<w>>) = 1 /\ <<w>>[1] = w /\ ToSet(<<w>>) = {w}
  BY DEF ToSet

LEMMA OneMore ==
  ASSUME NEW S, NEW p \in Seq(S), NEW w \in S
  PROVE  /\ p \o <<w>> \in Seq(S) /\ Len(p \o <<w>>) = Len(p) + 1 /\ Len(p) \in Nat
         /\ \A k \in 1 .. Len(p) : (p \o <<w>>)[k] = p[k]
         /\ (p \o <<w>>)[Len(p) + 1] = w
         /\ ToSet(p \o <<w>>) = ToSet(p) \union {w}
<1>1. /\ p \o <<w>> \in Seq(S) /\ Len(p \o <<w>>) = Len(p) + 1 /\ Len(p) \in Nat
      /\ \A k \in 1 .. Len(p) : (p \o <<w>>)[k] = p[k]
      /\ (p \o <<w>>)[Len(p) + 1] = w
  OBVIOUS
<1> DEFINE q == <<w>>
<1>2. q \in Seq(S) /\ ToSet(q) = {w}
  BY DEF ToSet
<1> HIDE DEF q
<1>3. ToSet(p \o q) = ToSet(p) \union ToSet(q)
  BY <1>2, ConcatSet
<1> QED BY <1>1, <1>2, <1>3 DEF q

LEMMA AppendWritesAppend ==
  /\ AppendWrites \in Seq(Writes)
  /\ \A w \in ToSet(AppendWrites) : w.region \in Appending
<1>1. AppendWrites \in Seq(Writes)
  BY OtherWritesShape
<1>2. /\ Len(AppendWrites) = 2 /\ DOMAIN AppendWrites = 1 .. 2
      /\ AppendWrites[1].region = "chain" /\ AppendWrites[2].region = "header"
  BY DEF AppendWrites
<1>3. \A k \in 1 .. 2 : k = 1 \/ k = 2
  OBVIOUS
<1> QED BY <1>1, <1>2, <1>3 DEF ToSet, Appending

LEMMA OrderedBuild ==
  ASSUME NEW p \in Seq(Writes), NEW d \in Writes, NEW call,
         \A w \in ToSet(p) : w.region \in Preparing(call), d.region = Decisive(call)
  PROVE  LET ws == (p \o <<d>>) \o AppendWrites IN
         /\ ws \in Seq(Writes) /\ Ordered(ws, call)
         /\ ToSet(ws) = ToSet(p) \union {d} \union ToSet(AppendWrites)
<1> DEFINE pd == p \o <<d>>
           a == AppendWrites
           ws == pd \o a
           m == Len(p) + 1
<1>1. /\ <<d>> \in Seq(Writes) /\ Len(<<d>>) = 1 /\ <<d>>[1] = d /\ ToSet(<<d>>) = {d}
  BY SingleWrite
<1>2. a \in Seq(Writes) /\ \A w \in ToSet(a) : w.region \in Appending
  BY AppendWritesAppend
<1> HIDE DEF a
<1>3. /\ pd \in Seq(Writes) /\ Len(pd) = m /\ Len(p) \in Nat
      /\ \A k \in 1 .. Len(p) : pd[k] = p[k]
      /\ pd[m] = d /\ ToSet(pd) = ToSet(p) \union {d}
  BY OneMore
<1> HIDE DEF pd
<1>4. /\ ws \in Seq(Writes) /\ Len(ws) = m + Len(a) /\ Len(a) \in Nat
      /\ \A k \in 1 .. m : ws[k] = pd[k]
      /\ \A k \in 1 .. m + Len(a) : k > m => k - m \in 1 .. Len(a) /\ ws[k] = a[k - m]
      /\ ToSet(ws) = ToSet(pd) \union ToSet(a)
  <2>1. pd \in Seq(Writes) /\ a \in Seq(Writes)
    BY <1>2, <1>3
  <2>2. /\ pd \o a \in Seq(Writes) /\ Len(pd \o a) = Len(pd) + Len(a) /\ Len(a) \in Nat
        /\ \A k \in 1 .. Len(pd) : (pd \o a)[k] = pd[k]
        /\ \A k \in 1 .. Len(pd) + Len(a) : k > Len(pd) =>
             k - Len(pd) \in 1 .. Len(a) /\ (pd \o a)[k] = a[k - Len(pd)]
    BY <2>1
  <2>3. ToSet(pd \o a) = ToSet(pd) \union ToSet(a)
    BY <2>1, ConcatSet
  <2> QED BY <1>3, <2>2, <2>3
<1> HIDE DEF ws
<1>5. \A k \in 1 .. Len(p) : p[k] \in ToSet(p)
  BY DEF ToSet
<1>6. \A k \in 1 .. Len(a) : a[k] \in ToSet(a)
  BY <1>2 DEF ToSet
<1>7. m \in 0 .. Len(ws)
  BY <1>3, <1>4
<1>8. ASSUME NEW k \in 1 .. Len(ws)
      PROVE  /\ k > m => ws[k].region \in Appending
             /\ k = m => ws[k].region = Decisive(call)
             /\ k < m => ws[k].region \in Preparing(call)
  <2>1. CASE k > m
    BY <1>2, <1>3, <1>4, <1>6, <2>1
  <2>2. CASE k = m
    BY <1>3, <1>4, <2>2
  <2>3. CASE k < m
    <3>1. k \in 1 .. Len(p) /\ k \in 1 .. m
      BY <1>3, <2>3
    <3>2. ws[k] = p[k]
      BY <1>3, <1>4, <3>1
    <3> QED BY <1>3, <1>5, <2>3, <3>1, <3>2
  <2> QED BY <1>3, <1>4, <2>1, <2>2, <2>3
<1>9. Ordered(ws, call)
  BY <1>7, <1>8 DEF Ordered
<1> QED BY <1>3, <1>4, <1>9 DEF ws, pd, a

LEMMA LastBitsSame ==
  ASSUME NEW ws \in Seq(Writes), NEW regions, NEW bits,
         \A w \in ToSet(ws) : w.region \in regions => w.bits = bits
  PROVE  LastBits(ws, regions, bits, bits)
<1>1. \A k \in 1 .. Len(ws) : ws[k] \in ToSet(ws)
  BY DEF ToSet
<1> QED BY <1>1 DEF LastBits

(* The last write of a kind decides, whatever other writes follow.         *)
LEMMA LastBitsBuild ==
  ASSUME NEW p \in Seq(Writes), NEW w \in Writes, NEW q \in Seq(Writes), NEW regions, NEW old,
         w.region \in regions, \A v \in ToSet(q) : v.region \notin regions
  PROVE  LastBits((p \o <<w>>) \o q, regions, old, w.bits)
<1> DEFINE pw == p \o <<w>>
           ws == pw \o q
           m == Len(p) + 1
<1>1. /\ <<w>> \in Seq(Writes) /\ Len(<<w>>) = 1 /\ <<w>>[1] = w
  BY SingleWrite
<1>2. /\ pw \in Seq(Writes) /\ Len(pw) = m /\ Len(p) \in Nat /\ pw[m] = w
  BY OneMore
<1> HIDE DEF pw
<1>3. /\ ws \in Seq(Writes) /\ Len(ws) = m + Len(q) /\ Len(q) \in Nat
      /\ \A k \in 1 .. m : ws[k] = pw[k]
      /\ \A k \in 1 .. m + Len(q) : k > m => k - m \in 1 .. Len(q) /\ ws[k] = q[k - m]
  <2>1. /\ pw \o q \in Seq(Writes) /\ Len(pw \o q) = Len(pw) + Len(q) /\ Len(q) \in Nat
        /\ \A k \in 1 .. Len(pw) : (pw \o q)[k] = pw[k]
        /\ \A k \in 1 .. Len(pw) + Len(q) : k > Len(pw) =>
             k - Len(pw) \in 1 .. Len(q) /\ (pw \o q)[k] = q[k - Len(pw)]
    BY <1>2
  <2> QED BY <1>2, <2>1
<1> HIDE DEF ws
<1>4. \A k \in 1 .. Len(q) : q[k] \in ToSet(q)
  BY DEF ToSet
<1>5. m \in 1 .. Len(ws) /\ ws[m] = w
  BY <1>2, <1>3
<1>6. \A k \in 1 .. Len(ws) : k > m => ws[k].region \notin regions
  BY <1>3, <1>4
<1>7. ASSUME NEW k \in 1 .. Len(ws), ws[k].region \in regions,
             \A l \in 1 .. Len(ws) : l > k => ws[l].region \notin regions
      PROVE  ws[k].bits = w.bits
  <2>1. ~ (k > m) /\ ~ (m > k)
    BY <1>5, <1>6, <1>7
  <2>2. k = m
    BY <1>2, <2>1
  <2> QED BY <1>5, <2>2
<1>8. LastBits(ws, regions, old, w.bits)
  BY <1>5, <1>7 DEF LastBits
<1> QED BY <1>8 DEF ws, pw

(* Where a call begins: between calls, the file it is about not hurt.      *)
LEMMA BeginRests ==
  ASSUME ShapeInv, CallInv, CanMutate, NEW call, NEW name, NEW ws, Begin(call, name, ws), Undamaged'
  PROVE  /\ Rests(handle.key) /\ cached.open /\ todo = <<>>
         /\ hurt' = hurt
         /\ call \in {"update", "delete"} => name \notin hurt
<1>1. /\ todo = <<>> /\ cached.open
      /\ hurt' = (IF call \in {"update", "delete"} /\ name \in hurt THEN Names ELSE hurt)
      /\ faults' = faults
  BY DEF CanMutate, Idle, Begin
<1>2. Undamaged
  BY <1>1 DEF Undamaged
<1>3. PICK key : Rests(key)
  BY <1>1, <1>2, InvariantRests
<1>4. key = handle.key
  BY <1>1, <1>3 DEF Rests, CurrentKey
<1>5. ~ (call \in {"update", "delete"} /\ name \in hurt)
  <2>1. CASE faults = 0
    BY <1>3, <2>1 DEF Rests, Goal
  <2>2. CASE faults # 0
    BY <1>1, <2>2 DEF Undamaged
  <2> QED BY <2>1, <2>2
<1> QED BY <1>1, <1>3, <1>4, <1>5

(* Adding, updating and deleting a file: the call changes one slot of the  *)
(* table and writes blocks that no other file has.                         *)
FileCalls == {"add", "update", "delete"}
OtherThan(slot) == {i \in SoundIn(table, hurt) : i # slot}

WritesFile(ws, slot, e, s) ==
  /\ \A w \in ToSet(ws) : w.region \in {"block", "bitmap", "slot", "chain", "header"}
  /\ \A w \in ToSet(ws) : w.region = "slot" => w.at = slot /\ w.value = e
  /\ \E w \in ToSet(ws) : w.region = "slot"
  /\ \A w \in ToSet(ws) : w.region = "block" => s[w.at] = w.value
  /\ \A b \in Blocks : s[b] = store[b] \/ \E w \in ToSet(ws) : w.region = "block" /\ w.at = b

SparesBlocks(ws, slot, bits) ==
  \A i \in OtherThan(slot) :
    /\ Own(i) \subseteq bits
    /\ \A w \in ToSet(ws) : w.region = "block" => w.at \notin Own(i)
    /\ \A w \in ToSet(ws) : w.region \in {"block", "bitmap"} => Own(i) \subseteq w.bits

NamesFile(slot, e, n) ==
  /\ table[slot].listed => table[slot].name = n
  /\ \A i \in FileSlots : i # slot /\ table[i].listed => table[i].name # n /\ table[i].id # e.id
  /\ e.listed => e.name = n /\ e.id <= calls + 1

StoresFile(s, slot, e, bits) ==
  LET new == IF e.listed THEN StoredBy(s, handle.key, e) ELSE {} IN
  /\ e.listed => Legible(s, handle.key, e) /\ new \subseteq bits
  /\ \A i \in OtherThan(slot) : new \intersect Own(i) = {}
  /\ faults = 0 => bits = new \union UNION {Own(i) : i \in OtherThan(slot)}

Replaces(t, slot, e) == t = [table EXCEPT ![slot] = e]

(* The others stand in the store that the call leaves.                     *)
LEMMA OthersStay ==
  ASSUME ShapeInv, Rests(handle.key), NEW slot, NEW e, NEW ws, NEW bits, NEW s, WellStored(s),
         WritesFile(ws, slot, e, s), SparesBlocks(ws, slot, bits), NEW i \in OtherThan(slot)
  PROVE  Legible(s, handle.key, table[i]) /\ StoredBy(s, handle.key, table[i]) = Own(i)
<1>1. i \in SoundIn(table, hurt) /\ i \in FileSlots /\ table[i].listed
  BY DEF OtherThan, SoundIn
<1>2. /\ table[i].direct \in Seq(Blocks) /\ table[i].overflow \in Blocks /\ table[i].size \in Nat
  BY <1>1, ListedIs DEF ShapeInv, FileShape
<1>3. ChainsAscend(s) /\ ChainsAscend(store)
  BY WellStoredAscends DEF ShapeInv, FileShape
<1>4. Legible(store, handle.key, table[i])
  BY <1>1 DEF Rests, Goal, FilesStand
<1>5. Own(i) \subseteq Blocks
  BY <1>2, <1>3, <1>4, LegibleBlocks DEF Own
<1>6. \A b \in Own(i) : s[b] = store[b]
  BY <1>5 DEF WritesFile, SparesBlocks
<1>7. \A b \in Own(i) : Readable(s, handle.key, table[i].id, b) /\ s[b].body = store[b].body
  BY <1>4, <1>6 DEF Legible, Readable, Own
<1> QED BY <1>2, <1>3, <1>4, <1>7, LegibleAgrees DEF Own

LEMMA FileCallGoal ==
  ASSUME ShapeInv, Rests(handle.key), NEW slot \in FileSlots, NEW n, NEW e \in Entry, NEW ws,
         NEW bits, NEW s, WellStored(s), NEW t, Replaces(t, slot, e),
         WritesFile(ws, slot, e, s), SparesBlocks(ws, slot, bits), NamesFile(slot, e, n),
         StoresFile(s, slot, e, bits)
  PROVE  /\ FilesStand(s, t, handle.key, hurt)
         /\ Marked(s, t, handle.key, hurt, bits)
         /\ faults = 0 => bits = InUse(s, t, handle.key)
         /\ \A i \in SoundIn(t, hurt) : t[i].name # n =>
              i \in OtherThan(slot) /\ StoredBy(s, handle.key, t[i]) = Own(i)
<1> DEFINE new == StoredBy(s, handle.key, e)
<1>1. WellListed(table) /\ Goal(store, table, keyring, handle.key, bitmap, Alloc)
  BY DEF ShapeInv, FileShape, Rests
<1>2. /\ WellListed(t) /\ t[slot] = e
      /\ \A i \in FileSlots : i # slot => t[i] = table[i]
  BY <1>1 DEF WellListed, Replaces
<1>3. \A i \in SoundIn(t, hurt) : i = slot \/ i \in OtherThan(slot)
  BY <1>2 DEF SoundIn, OtherThan
<1>4. ASSUME NEW i \in OtherThan(slot)
      PROVE  /\ i \in SoundIn(t, hurt) /\ t[i] = table[i] /\ i # slot
             /\ Legible(s, handle.key, t[i]) /\ StoredBy(s, handle.key, t[i]) = Own(i)
             /\ Own(i) \subseteq bits
             /\ e.listed => new \intersect Own(i) = {}
  <2>1. i \in SoundIn(t, hurt) /\ t[i] = table[i] /\ i # slot
    BY <1>2 DEF OtherThan, SoundIn
  <2>2. Legible(s, handle.key, table[i]) /\ StoredBy(s, handle.key, table[i]) = Own(i)
    BY OthersStay
  <2>3. Own(i) \subseteq bits
    BY DEF SparesBlocks
  <2>4. e.listed => new \intersect Own(i) = {}
    BY DEF StoresFile
  <2> QED BY <2>1, <2>2, <2>3, <2>4
<1>5. ASSUME slot \in SoundIn(t, hurt)
      PROVE  e.listed /\ t[slot] = e /\ Legible(s, handle.key, e) /\ new \subseteq bits
  BY <1>2, <1>5 DEF SoundIn, StoresFile
<1>6. EntriesApart(t)
  <2>1. EntriesApart(table)
    BY <1>1 DEF Goal, FilesStand
  <2>2. ASSUME NEW i \in FileSlots, i # slot, t[i].listed, e.listed
        PROVE  t[i].name # e.name /\ t[i].id # e.id
    BY <1>2, <2>2 DEF NamesFile
  <2> QED BY <1>2, <2>1, <2>2 DEF EntriesApart
<1>7. \A i \in SoundIn(t, hurt) : Legible(s, handle.key, t[i])
  BY <1>3, <1>4, <1>5
<1>8. ASSUME NEW i \in SoundIn(t, hurt), NEW j \in SoundIn(t, hurt), i # j
      PROVE  StoredBy(s, handle.key, t[i]) \intersect StoredBy(s, handle.key, t[j]) = {}
  <2>1. CASE i # slot /\ j # slot
    <3>1. i \in OtherThan(slot) /\ j \in OtherThan(slot)
      BY <1>3, <2>1
    <3>2. i \in SoundIn(table, hurt) /\ j \in SoundIn(table, hurt)
      BY <3>1 DEF OtherThan
    <3>3. Own(i) \intersect Own(j) = {}
      BY <1>1, <1>8, <3>2 DEF Goal, FilesStand, Own
    <3> QED BY <1>4, <3>1, <3>3
  <2>2. CASE i = slot
    <3>1. j \in OtherThan(slot) /\ e.listed /\ t[i] = e
      BY <1>3, <1>5, <1>8, <2>2
    <3> QED BY <1>4, <3>1
  <2>3. CASE j = slot
    <3>1. i \in OtherThan(slot) /\ e.listed /\ t[j] = e
      BY <1>3, <1>5, <1>8, <2>3
    <3> QED BY <1>4, <3>1
  <2> QED BY <2>1, <2>2, <2>3
<1>9. FilesStand(s, t, handle.key, hurt)
  BY <1>2, <1>6, <1>7, <1>8 DEF FilesStand
<1>10. Marked(s, t, handle.key, hurt, bits)
  <2>1. ASSUME NEW i \in SoundIn(t, hurt) PROVE StoredBy(s, handle.key, t[i]) \subseteq bits
    BY <1>3, <1>4, <1>5
  <2> QED BY <2>1 DEF Marked
<1>11. ASSUME faults = 0 PROVE bits = InUse(s, t, handle.key)
  <2>1. hurt = {}
    BY <1>1, <1>11 DEF Goal
  <2>2. SoundIn(t, {}) = SoundIn(t, hurt)
    BY <2>1
  <2>3. bits = (IF e.listed THEN new ELSE {}) \union UNION {Own(i) : i \in OtherThan(slot)}
    BY <1>11 DEF StoresFile
  <2>4. e.listed => slot \in SoundIn(t, hurt)
    BY <1>2, <2>1 DEF SoundIn
  <2>5. ASSUME NEW b \in bits PROVE b \in InUse(s, t, handle.key)
    <3>1. CASE e.listed /\ b \in new
      BY <1>2, <2>2, <2>4, <3>1 DEF InUse
    <3>2. CASE \E i \in OtherThan(slot) : b \in Own(i)
      <4>1. PICK i \in OtherThan(slot) : b \in Own(i)
        BY <3>2
      <4>2. i \in SoundIn(t, {}) /\ b \in StoredBy(s, handle.key, t[i])
        BY <1>4, <2>2, <4>1
      <4> QED BY <4>2 DEF InUse
    <3> QED BY <2>3, <3>1, <3>2
  <2>6. ASSUME NEW b \in InUse(s, t, handle.key) PROVE b \in bits
    <3>1. PICK i \in SoundIn(t, {}) : b \in StoredBy(s, handle.key, t[i])
      BY DEF InUse
    <3> QED BY <1>10, <2>2, <3>1 DEF Marked
  <2> QED BY <2>5, <2>6
<1>12. ASSUME NEW i \in SoundIn(t, hurt), t[i].name # n
       PROVE  i \in OtherThan(slot) /\ StoredBy(s, handle.key, t[i]) = Own(i)
  <2>1. i # slot
    BY <1>2, <1>5, <1>12 DEF NamesFile
  <2> QED BY <1>3, <1>4, <2>1
<1> QED BY <1>9, <1>10, <1>11, <1>12

LEMMA FileCallWorks ==
  ASSUME ShapeInv, CallsInv, CallInv, CanMutate, NEW call \in FileCalls, NEW n,
         NEW ws \in Seq(Writes), Begin(call, n, ws), Undamaged', UNCHANGED handle,
         NEW slot \in FileSlots, NEW e \in Entry, NEW bits, NEW s, WellStored(s),
         WritesFile(ws, slot, e, s), SparesBlocks(ws, slot, bits), NamesFile(slot, e, n),
         StoresFile(s, slot, e, bits), call = "add" => ~ table[slot].listed,
         Ordered(ws, call), LastBits(ws, {"bitmap"}, bitmap, bits),
         LastBits(ws, {"block", "bitmap"}, handle.alloc, bits)
  PROVE  CallInv'
<1>0. PICK t, key, kr : Replaces(t, slot, e) /\ key = handle.key /\ kr = keyring
  BY DEF Replaces
<1>1. /\ Rests(handle.key) /\ cached.open /\ todo = <<>> /\ hurt' = hurt
  BY BeginRests
<1>2. /\ FilesStand(s, t, key, hurt) /\ Marked(s, t, key, hurt, bits)
      /\ faults = 0 => bits = InUse(s, t, key)
      /\ \A i \in SoundIn(t, hurt) : t[i].name # n =>
           i \in OtherThan(slot) /\ StoredBy(s, key, t[i]) = Own(i)
  BY <1>0, <1>1, FileCallGoal
<1>3. /\ todo' = ws /\ Coming' = ToSet(ws) /\ doing' = [call |-> call, name |-> n]
      /\ calls' = calls + 1 /\ faults' = faults /\ held' = held
      /\ cached' = cached /\ adminSlot' = adminSlot /\ bitmap' = bitmap /\ table' = table
      /\ keyring' = keyring /\ store' = store /\ handle' = handle
  BY DEF Begin, chainVars, fileVars, Coming
<1>4. Alloc' = handle.alloc /\ Alloc = handle.alloc /\ CurrentKey' = key
  BY <1>1, <1>3, <1>0 DEF Alloc, CurrentKey
<1>5. Goal(store, table, kr, key, bitmap, Alloc) /\ adminSlot.dek = key
      /\ handle.adminSlot = adminSlot
  BY <1>1, <1>0 DEF Rests
<1>6. WellListed(table)
  BY DEF ShapeInv, FileShape
<1>7. t[slot] = e /\ \A i \in FileSlots : i # slot => t[i] = table[i]
  BY <1>6, <1>0 DEF WellListed, Replaces
<1>8. KnownSoFar(table, key)' /\ KnownSoFar(t, key)'
  <2>1. /\ calls \in Int /\ KnownSoFar(table, key)
    BY <1>5, BoundsAssumption DEF Goal, CallsInv
  <2>2. key \in 0 .. calls + 1 /\ \A p \in Peers : held[p] \subseteq 0 .. calls + 1
    BY <2>1 DEF KnownSoFar
  <2>3. \A i \in FileSlots : table[i].listed => table[i].id <= calls + 1
    <3> SUFFICES ASSUME NEW i \in FileSlots, table[i].listed PROVE table[i].id <= calls + 1
      OBVIOUS
    <3>1. table[i].id \in Nat /\ table[i].id <= calls
      BY <1>6, <2>1, ListedIs DEF KnownSoFar
    <3> QED BY <2>1, <3>1
  <2>4. \A i \in FileSlots : t[i].listed => t[i].id <= calls + 1
    BY <1>7, <2>3 DEF NamesFile
  <2> QED BY <1>3, <2>2, <2>3, <2>4 DEF KnownSoFar
<1>9. Goal(s, t, kr, key, bits, bits)'
  <2>1. WellGranted(kr) /\ WrapsKey(kr, key) /\ GrantsHolders(kr, key)
        /\ (faults = 0 => hurt = {})
    BY <1>5 DEF Goal
  <2> QED BY <1>1, <1>2, <1>3, <1>8, <2>1 DEF Goal, GrantsHolders
<1>10. Leads(s, t, kr, bits, bits)'
  <2>1. LeadsStore(s)'
    BY <1>3 DEF LeadsStore, WritesFile
  <2>2. LeadsTable(t)'
    <3>1. \A w \in ToSet(ws) : w.region = "slot" => t[w.at] = w.value
      BY <1>7 DEF WritesFile
    <3>2. \A i \in FileSlots :
            t[i] = table[i] \/ \E w \in ToSet(ws) : w.region = "slot" /\ w.at = i
      BY <1>7 DEF WritesFile
    <3> QED BY <1>3, <3>1, <3>2 DEF LeadsTable
  <2>3. LeadsKeyring(kr)'
    <3>1. \A w \in ToSet(ws) : w.region # "recipient"
      BY DEF WritesFile
    <3> QED BY <1>3, <1>0, <3>1 DEF LeadsKeyring
  <2>4. /\ Ordered(ws, call)
        /\ LastBits(ws, {"bitmap"}, bitmap, bits)
        /\ LastBits(ws, {"block", "bitmap"}, handle.alloc, bits)
    OBVIOUS
  <2> QED BY <1>3, <1>4, <2>1, <2>2, <2>3, <2>4 DEF Leads
<1>11. KeysLead(key)'
  <2>1. \A w \in ToSet(ws) : w.region # "keyslot"
    BY DEF WritesFile
  <2>2. WrapsKey(keyring, key) /\ GrantsHolders(keyring, key)
    BY <1>5, <1>0 DEF Goal
  <2> QED BY <1>3, <1>4, <1>5, <2>1, <2>2 DEF KeysLead, GrantsHolders
<1>12. Target'
  <2>1. ASSUME NEW w \in ToSet(ws), w.region = "slot"
        PROVE  /\ table[w.at].listed => table[w.at].name = n
               /\ call = "add" => \A i \in FileSlots : table[i].listed => table[i].name # n
    <3>1. w.at = slot
      BY <2>1 DEF WritesFile
    <3> QED BY <3>1 DEF NamesFile
  <2>2. call \in Calls /\ call # "grant"
    BY DEF Calls, FileCalls
  <2> QED BY <1>3, <2>1, <2>2 DEF Target
<1>13. Spares(s, t, key)'
  <2>1. ASSUME NEW i \in SoundIn(t, hurt), t[i].name # n
        PROVE  LET own == StoredBy(s, key, t[i]) IN
               /\ own \subseteq bitmap /\ own \subseteq handle.alloc
               /\ \A w \in ToSet(ws) : w.region = "block" => w.at \notin own
               /\ \A w \in ToSet(ws) : w.region \in {"block", "bitmap"} => own \subseteq w.bits
    <3>1. i \in OtherThan(slot) /\ StoredBy(s, key, t[i]) = Own(i)
      BY <1>2, <2>1
    <3>2. i \in SoundIn(table, hurt)
      BY <3>1 DEF OtherThan
    <3>3. Own(i) \subseteq bitmap /\ Own(i) \subseteq handle.alloc
      BY <1>4, <1>5, <1>0, <3>2 DEF Goal, Marked, Own
    <3> QED BY <3>1, <3>3 DEF SparesBlocks
  <2> QED BY <1>1, <1>3, <1>4, <2>1 DEF Spares
<1>14. EntriesApart(table)
  BY <1>5 DEF Goal, FilesStand
<1>15. call \in Calls
  BY DEF Calls, FileCalls
<1> QED BY <1>8, <1>9, <1>10, <1>11, <1>12, <1>13, <1>14, <1>15, BeginWorks
-------------------------------------------------------------------------------
(* Storing content.                                                        *)
Overwrites(s, old, blocks, values) ==
  /\ s = [b \in Blocks |-> s[b]]
  /\ \A k \in 1 .. Len(blocks) : s[blocks[k]] = values[k]
  /\ \A b \in Blocks : b \notin ToSet(blocks) => s[b] = old[b]

LEMMA OverwritesExists ==
  ASSUME NEW old, NEW values, NEW blocks \in Seq(Blocks), IsInjective(blocks)
  PROVE  \E s : Overwrites(s, old, blocks, values)
<1> DEFINE at(b) == CHOOSE k \in 1 .. Len(blocks) : blocks[k] = b
           s == [b \in Blocks |-> IF b \in ToSet(blocks) THEN values[at(b)] ELSE old[b]]
<1>1. DOMAIN blocks = 1 .. Len(blocks)
  OBVIOUS
<1>2. ASSUME NEW k \in 1 .. Len(blocks) PROVE s[blocks[k]] = values[k]
  <2>1. blocks[k] \in Blocks /\ blocks[k] \in ToSet(blocks)
    BY <1>1 DEF ToSet
  <2>2. at(blocks[k]) = k
    <3>1. at(blocks[k]) \in 1 .. Len(blocks) /\ blocks[at(blocks[k])] = blocks[k]
      OBVIOUS
    <3> HIDE DEF at
    <3> QED BY <1>1, <3>1 DEF IsInjective
  <2> HIDE DEF at
  <2> QED BY <2>1, <2>2
<1>3. \A b \in Blocks : b \notin ToSet(blocks) => s[b] = old[b]
  OBVIOUS
<1>4. s = [b \in Blocks |-> s[b]]
  OBVIOUS
<1> HIDE DEF s
<1>5. Overwrites(s, old, blocks, values)
  BY <1>2, <1>3, <1>4 DEF Overwrites
<1> QED BY <1>5

(* The blocks that store_new_content writes, and the store after them.     *)
StoresContent(s, p, bits, id, size, version) ==
  LET blocks == StoreBlocks(bits, size)
      after == MarkOccupied(bits, ToSet(blocks)) IN
  /\ WellStored(s)
  /\ p \in Seq(Writes)
  /\ StoreWrites(bits, id, size, version) = p \o <<BitmapWrite(after)>>
  /\ \A w \in ToSet(p) : w.region = "block" /\ w.bits = after /\ w.at \in ToSet(blocks)
                          /\ s[w.at] = w.value
  /\ \A b \in Blocks : s[b] = store[b] \/ \E w \in ToSet(p) : w.region = "block" /\ w.at = b
  /\ Laid(s, handle.key, id, blocks, size, version)

LEMMA ContentIsStored ==
  ASSUME ShapeInv, NEW bits \in SUBSET Blocks, NEW id \in Ids, NEW size \in Nat, NEW version \in Ids,
         FreeCount(bits) >= BlocksNeeded(size)
  PROVE  \E s, p : StoresContent(s, p, bits, id, size, version)
<1> DEFINE blocks == StoreBlocks(bits, size)
           after == MarkOccupied(bits, ToSet(blocks))
           key == handle.key
           sealed(k) == Sealed(key, id, BodyOf(blocks, size, version, k))
           write(k) == BlockWrite(blocks[k], sealed(k), after)
           values == [k \in 1 .. Len(blocks) |-> sealed(k)]
           p == [k \in 1 .. Len(blocks) |-> write(k)]
<1>1. key \in Keys /\ WellStored(store) /\ after \in SUBSET Blocks /\ version \in Int
  BY BoundsAssumption DEF ShapeInv, FileShape, HandleShape, MarkOccupied, Ids
<1>2. /\ Spread(blocks, size) /\ blocks \in Seq(Blocks) /\ IsInjective(blocks)
      /\ DOMAIN blocks = 1 .. Len(blocks) /\ Len(blocks) \in Nat
  <2>1. Spread(blocks, size)
    BY AllocatedSpread
  <2>2. IsInjective(blocks) /\ blocks \in Seq(Blocks)
    BY <2>1, SpreadInjective DEF Spread
  <2> HIDE DEF blocks
  <2> QED BY <2>1, <2>2
<1>3. ASSUME NEW k \in 1 .. Len(blocks)
      PROVE  sealed(k) \in WellSealed(blocks[k]) /\ blocks[k] \in Blocks
  <2>1. BodyOf(blocks, size, version, k) \in Bodies(blocks[k])
    BY <1>1, BodiesShape
  <2> HIDE DEF blocks
  <2> QED BY <1>1, <1>2, <2>1 DEF Sealed, WellSealed
<1>4. StoreWrites(bits, id, size, version) = p \o <<BitmapWrite(after)>>
  BY DEF StoreWrites
<1> HIDE DEF blocks, after, sealed
<1>5. PICK s : Overwrites(s, store, blocks, values)
  BY <1>2, OverwritesExists
<1>6. \A k \in 1 .. Len(blocks) : s[blocks[k]] = sealed(k)
  BY <1>5 DEF Overwrites
<1>7. WellStored(s)
  <2>1. ASSUME NEW b \in Blocks PROVE s[b] = NeverWritten \/ s[b] \in WellSealed(b)
    <3>1. CASE b \in ToSet(blocks)
      <4>1. PICK k \in 1 .. Len(blocks) : b = blocks[k]
        BY <1>2, <3>1 DEF ToSet
      <4> QED BY <1>3, <1>6, <4>1
    <3>2. CASE b \notin ToSet(blocks)
      BY <1>1, <1>5, <3>2 DEF Overwrites, WellStored
    <3> QED BY <3>1, <3>2
  <2> QED BY <1>5, <2>1 DEF WellStored, Overwrites
<1>8. ASSUME NEW k \in 1 .. Len(blocks)
      PROVE  /\ write(k) \in Writes
             /\ write(k).region = "block" /\ write(k).bits = after /\ write(k).at = blocks[k]
             /\ write(k).value = sealed(k)
  <2>1. write(k) \in Writes
    BY <1>1, <1>3, BlockWriteShape
  <2> QED BY <2>1 DEF BlockWrite
<1> HIDE DEF write
<1>9. p \in Seq(Writes) /\ DOMAIN p = 1 .. Len(blocks) /\ \A k \in 1 .. Len(blocks) : p[k] = write(k)
  BY <1>2, <1>8
<1> HIDE DEF p
<1>10. ASSUME NEW w \in ToSet(p)
       PROVE  w.region = "block" /\ w.bits = after /\ w.at \in ToSet(blocks) /\ s[w.at] = w.value
  <2>1. PICK k \in 1 .. Len(blocks) : w = write(k)
    BY <1>9 DEF ToSet
  <2>2. blocks[k] \in ToSet(blocks)
    BY <1>2 DEF ToSet
  <2> QED BY <1>6, <1>8, <2>1, <2>2
<1>11. ASSUME NEW b \in Blocks, s[b] # store[b]
       PROVE  \E w \in ToSet(p) : w.region = "block" /\ w.at = b
  <2>1. b \in ToSet(blocks)
    BY <1>5, <1>11 DEF Overwrites
  <2>2. PICK k \in 1 .. Len(blocks) : b = blocks[k]
    BY <1>2, <2>1 DEF ToSet
  <2>3. write(k) \in ToSet(p)
    BY <1>9 DEF ToSet
  <2> QED BY <1>8, <2>2, <2>3
<1>12. Laid(s, key, id, blocks, size, version)
  BY <1>6 DEF Laid, sealed
<1>13. StoresContent(s, p, bits, id, size, version)
  BY <1>4, <1>7, <1>9, <1>10, <1>11, <1>12 DEF StoresContent, blocks, after
<1> QED BY <1>13

(* A file call: what it writes before, the bitmap, the entry, the chain.   *)
FileWrites(ws, p, bits, slot, e) ==
  ws = ((p \o <<BitmapWrite(bits)>>) \o <<SlotWrite(slot, e)>>) \o AppendWrites
FillsBlocks(p) == \A w \in ToSet(p) : w.region \in {"block", "bitmap"}
SettlesBits(ws, bits) ==
  \A old : /\ LastBits(ws, {"bitmap"}, old, bits)
           /\ LastBits(ws, {"block", "bitmap"}, old, bits)

LEMMA FileWritesOrdered ==
  ASSUME NEW p \in Seq(Writes), NEW bits \in SUBSET Blocks, NEW slot \in FileSlots, NEW e \in Entry,
         NEW call \in FileCalls, NEW ws,
         FileWrites(ws, p, bits, slot, e),
         FillsBlocks(p)
  PROVE  /\ ws \in Seq(Writes) /\ Ordered(ws, call)
         /\ SettlesBits(ws, bits)
         /\ ToSet(ws) = ToSet(p) \union {BitmapWrite(bits), SlotWrite(slot, e)}
                          \union ToSet(AppendWrites)
<1> DEFINE B == BitmapWrite(bits)
           S == SlotWrite(slot, e)
           A == AppendWrites
           pB == p \o <<B>>
           q == <<S>> \o A
           us == (pB \o <<S>>) \o A
<1>1. /\ B \in Writes /\ S \in Writes /\ A \in Seq(Writes)
      /\ B.region = "bitmap" /\ B.bits = bits /\ S.region = "slot"
  BY OtherWritesShape DEF BitmapWrite, SlotWrite
<1>2. \A w \in ToSet(A) : w.region \in Appending
  BY AppendWritesAppend
<1>3. us = ws
  BY DEF FileWrites
<1> HIDE DEF B, S, A
<1>4. pB \in Seq(Writes) /\ ToSet(pB) = ToSet(p) \union {B}
  BY <1>1, OneMore
<1>5. Decisive(call) = "slot" /\ Preparing(call) = {"block", "bitmap"}
  BY DEF Decisive, Preparing, FileCalls
<1> HIDE DEF pB
<1>6. /\ us \in Seq(Writes) /\ Ordered(us, call)
      /\ ToSet(us) = ToSet(pB) \union {S} \union ToSet(A)
  <2>1. \A w \in ToSet(pB) : w.region \in Preparing(call)
    BY <1>1, <1>4, <1>5 DEF FillsBlocks
  <2> QED BY <1>1, <1>4, <1>5, <2>1, OrderedBuild DEF A
<1>7. q \in Seq(Writes) /\ \A w \in ToSet(q) : w.region \notin {"block", "bitmap"}
  <2>1. q \in Seq(Writes) /\ ToSet(q) = {S} \union ToSet(A)
    BY <1>1, ConsSet
  <2> QED BY <1>1, <1>2, <2>1 DEF Appending
<1>8. us = pB \o q
  <2>1. <<S>> \in Seq(Writes)
    BY <1>1
  <2> QED BY <1>1, <1>4, <2>1, ConcatRegroups
<1> HIDE DEF q, us
<1>9. \A r, o : B.region \in r /\ (\A w \in ToSet(q) : w.region \notin r)
                => LastBits(pB \o q, r, o, B.bits)
  BY <1>1, <1>7, LastBitsBuild DEF pB
<1>10. SettlesBits(pB \o q, B.bits)
  BY <1>1, <1>7, <1>9 DEF SettlesBits
<1> QED BY <1>1, <1>3, <1>4, <1>6, <1>8, <1>10 DEF B, S, A

(* A call that stores a file in a slot, on blocks that no other file has.  *)
TakesSlot(slot, n, id) ==
  /\ table[slot].listed => table[slot].name = n
  /\ \A i \in FileSlots : i # slot /\ table[i].listed => table[i].name # n /\ table[i].id # id
  /\ id <= calls + 1
LeavesOthers(slot, bits) ==
  /\ \A i \in OtherThan(slot) : Own(i) \subseteq bits
  /\ faults = 0 => bits = UNION {Own(i) : i \in OtherThan(slot)}

LEMMA StoreCallWorks ==
  ASSUME ShapeInv, CallsInv, CallInv, CanMutate, Undamaged', UNCHANGED handle,
         NEW call \in {"add", "update"}, NEW n \in Names, NEW size \in Sizes, NEW id \in Ids,
         NEW slot \in FileSlots, NEW bits \in SUBSET Blocks, NEW before \in Seq(Writes),
         FreeCount(bits) >= BlocksNeeded(size),
         \A w \in ToSet(before) : w = BitmapWrite(bits),
         Begin(call, n,
               before \o (ThenEntry(slot, NewEntry(n, id, size, calls + 1, StoreBlocks(bits, size)),
                                    StoreWrites(bits, id, size, calls + 1)) \o AppendWrites)),
         TakesSlot(slot, n, id), call = "add" => ~ table[slot].listed,
         LeavesOthers(slot, bits)
  PROVE  CallInv'
<1> DEFINE version == calls + 1
           blocks == StoreBlocks(bits, size)
           after == MarkOccupied(bits, ToSet(blocks))
           e == NewEntry(n, id, size, version, blocks)
           B == BitmapWrite(after)
           S == SlotWrite(slot, e)
           key == handle.key
<1>1. version \in Ids /\ size \in Nat
  BY NewIsAnId, SizesAssumption
<1>2. e \in Entry
  BY <1>1, NewEntryShape
<1>3. Spread(blocks, size) /\ ToSet(blocks) \subseteq Blocks \ bits
  BY <1>1, AllocatedSpread
<1>4. /\ after = bits \union ToSet(blocks) /\ after \in SUBSET Blocks
  BY <1>3 DEF MarkOccupied
<1>5. PICK s, p : StoresContent(s, p, bits, id, size, version)
  BY <1>1, ContentIsStored
<1>6. /\ WellStored(s) /\ p \in Seq(Writes)
      /\ StoreWrites(bits, id, size, version) = p \o <<B>>
      /\ \A w \in ToSet(p) : w.region = "block" /\ w.bits = after /\ w.at \in ToSet(blocks)
                              /\ s[w.at] = w.value
      /\ \A b \in Blocks : s[b] = store[b] \/ \E w \in ToSet(p) : w.region = "block" /\ w.at = b
      /\ Laid(s, key, id, blocks, size, version)
  BY <1>5 DEF StoresContent
<1>7. Legible(s, key, e) /\ StoredBy(s, key, e) = ToSet(blocks)
  <2> HIDE DEF blocks, key, version
  <2> QED BY <1>1, <1>3, <1>6, LaidFile
<1>8. e.listed /\ e.name = n /\ e.id = id
  BY DEF NewEntry
<1>9. B \in Writes /\ S \in Writes /\ AppendWrites \in Seq(Writes)
  <2> HIDE DEF after, e
  <2> QED BY <1>2, <1>4, OtherWritesShape
<1> DEFINE p0 == before \o p
           tail == ((p \o <<B>>) \o <<S>>) \o AppendWrites
           ws == ((p0 \o <<B>>) \o <<S>>) \o AppendWrites
<1>10. Begin(call, n, before \o tail)
  BY <1>6 DEF ThenEntry
<1> HIDE DEF B, S, e, after, blocks, version, key
<1>11. before \o tail = ws
  <2>1. /\ <<B>> \in Seq(Writes) /\ <<S>> \in Seq(Writes)
        /\ p \o <<B>> \in Seq(Writes) /\ (p \o <<B>>) \o <<S>> \in Seq(Writes)
    BY <1>6, <1>9
  <2>2. before \o tail = (before \o ((p \o <<B>>) \o <<S>>)) \o AppendWrites
    BY <1>9, <2>1, ConcatRegroups
  <2>3. before \o ((p \o <<B>>) \o <<S>>) = (before \o (p \o <<B>>)) \o <<S>>
    BY <2>1, ConcatRegroups
  <2>4. before \o (p \o <<B>>) = p0 \o <<B>>
    BY <1>6, <2>1, ConcatRegroups
  <2> QED BY <2>2, <2>3, <2>4
<1>12. p0 \in Seq(Writes) /\ ToSet(p0) = ToSet(before) \union ToSet(p)
  BY <1>6, ConcatSet
<1>13. \A w \in ToSet(p0) :
         \/ w.region = "bitmap" /\ w.bits = bits
         \/ w \in ToSet(p)
  BY <1>12 DEF BitmapWrite
<1> HIDE DEF p0, tail
<1>14. /\ ws \in Seq(Writes) /\ Ordered(ws, call)
       /\ LastBits(ws, {"bitmap"}, bitmap, after) /\ LastBits(ws, {"block", "bitmap"}, handle.alloc, after)
       /\ ToSet(ws) = ToSet(p0) \union {B, S} \union ToSet(AppendWrites)
  <2>1. FillsBlocks(p0)
    BY <1>6, <1>13 DEF FillsBlocks
  <2>2. call \in FileCalls
    BY DEF FileCalls
  <2>3. /\ p0 \in Seq(Writes) /\ after \in SUBSET Blocks /\ slot \in FileSlots /\ e \in Entry
        /\ FileWrites(ws, p0, after, slot, e)
    BY <1>2, <1>4, <1>12 DEF B, S, FileWrites
  <2> HIDE DEF ws
  <2>4. /\ ws \in Seq(Writes) /\ Ordered(ws, call)
        /\ SettlesBits(ws, after)
        /\ ToSet(ws) = ToSet(p0) \union {BitmapWrite(after), SlotWrite(slot, e)}
                         \union ToSet(AppendWrites)
    BY <2>1, <2>2, <2>3, FileWritesOrdered
  <2> QED BY <2>4 DEF B, S, SettlesBits
<1> HIDE DEF ws
<1>15. /\ B.region = "bitmap" /\ B.bits = after
       /\ S.region = "slot" /\ S.at = slot /\ S.value = e
       /\ \A w \in ToSet(AppendWrites) : w.region \in {"chain", "header"}
  BY AppendWritesAppend DEF BitmapWrite, SlotWrite, B, S, Appending
<1>16. ASSUME NEW w \in ToSet(ws)
       PROVE  \/ w \in ToSet(p)
              \/ w.region = "bitmap" /\ w.bits \in {bits, after}
              \/ w = S
              \/ w.region \in {"chain", "header"}
  BY <1>13, <1>14, <1>15
<1>17. S \in ToSet(ws) /\ ToSet(p) \subseteq ToSet(ws)
  BY <1>12, <1>14
<1>18. WritesFile(ws, slot, e, s)
  <2>1. \A w \in ToSet(ws) : w.region \in {"block", "bitmap", "slot", "chain", "header"}
    BY <1>6, <1>15, <1>16
  <2>2. \A w \in ToSet(ws) : w.region = "slot" => w.at = slot /\ w.value = e
    BY <1>6, <1>15, <1>16
  <2>3. \A w \in ToSet(ws) : w.region = "block" => s[w.at] = w.value
    BY <1>6, <1>15, <1>16
  <2>4. \A b \in Blocks : s[b] = store[b] \/ \E w \in ToSet(ws) : w.region = "block" /\ w.at = b
    BY <1>6, <1>17
  <2> QED BY <1>15, <1>17, <2>1, <2>2, <2>3, <2>4 DEF WritesFile
<1>19. SparesBlocks(ws, slot, after)
  <2> SUFFICES ASSUME NEW i \in OtherThan(slot)
               PROVE  /\ Own(i) \subseteq after
                      /\ \A w \in ToSet(ws) : w.region = "block" => w.at \notin Own(i)
                      /\ \A w \in ToSet(ws) : w.region \in {"block", "bitmap"} => Own(i) \subseteq w.bits
    BY DEF SparesBlocks
  <2>1. Own(i) \subseteq bits /\ Own(i) \subseteq after
    BY <1>4 DEF LeavesOthers
  <2>2. \A w \in ToSet(ws) : w.region = "block" => w \in ToSet(p)
    BY <1>15, <1>16
  <2>3. \A w \in ToSet(ws) : w.region = "block" => w.at \notin Own(i)
    BY <1>3, <1>6, <2>1, <2>2
  <2>4. \A w \in ToSet(ws) : w.region \in {"block", "bitmap"} => w.bits \in {bits, after}
    BY <1>6, <1>15, <1>16
  <2> QED BY <2>1, <2>3, <2>4
<1>20. NamesFile(slot, e, n)
  BY <1>8 DEF NamesFile, TakesSlot
<1>21. StoresFile(s, slot, e, after)
  <2>1. ToSet(blocks) \subseteq after
    BY <1>4
  <2>2. \A i \in OtherThan(slot) : ToSet(blocks) \intersect Own(i) = {}
    BY <1>3 DEF LeavesOthers
  <2>3. faults = 0 => after = ToSet(blocks) \union UNION {Own(i) : i \in OtherThan(slot)}
    BY <1>4 DEF LeavesOthers
  <2> QED BY <1>7, <1>8, <2>1, <2>2, <2>3 DEF StoresFile, key
<1>22. call \in FileCalls
  BY DEF FileCalls
<1>23. Begin(call, n, ws)
  BY <1>10, <1>11
<1> QED
  BY <1>2, <1>6, <1>14, <1>18, <1>19, <1>20, <1>21, <1>22, <1>23, FileCallWorks

(* What the others have, where all files have what the allocator marks.    *)
LEMMA OthersOnly ==
  ASSUME ShapeInv, Rests(handle.key), cached.open, NEW slot
  PROVE  /\ \A i \in OtherThan(slot) : Own(i) \subseteq handle.alloc /\ Own(i) \subseteq bitmap
         /\ \A i \in OtherThan(slot) : slot \in SoundIn(table, hurt) => Own(i) \intersect Own(slot) = {}
         /\ slot \in SoundIn(table, hurt) => Own(slot) \subseteq handle.alloc
         /\ faults = 0 => /\ hurt = {}
                          /\ handle.alloc = UNION {Own(i) : i \in SoundIn(table, hurt)}
<1>1. Goal(store, table, keyring, handle.key, bitmap, Alloc) /\ Alloc = handle.alloc
  BY DEF Rests, Alloc
<1>2. \A i \in OtherThan(slot) : i \in SoundIn(table, hurt) /\ i # slot
  BY DEF OtherThan
<1>3. \A i \in SoundIn(table, hurt) : Own(i) \subseteq handle.alloc /\ Own(i) \subseteq bitmap
  BY <1>1 DEF Goal, Marked, Own
<1>4. \A i, j \in SoundIn(table, hurt) : i # j => Own(i) \intersect Own(j) = {}
  BY <1>1 DEF Goal, FilesStand, Own
<1>5. ASSUME faults = 0
      PROVE  hurt = {} /\ handle.alloc = UNION {Own(i) : i \in SoundIn(table, hurt)}
  <2>1. hurt = {} /\ handle.alloc = InUse(store, table, handle.key)
    BY <1>1, <1>5 DEF Goal
  <2> QED BY <2>1 DEF InUse, Own
<1> QED BY <1>2, <1>3, <1>4, <1>5

LEMMA AddFileWorks ==
  ASSUME ShapeInv, CallsInv, CallInv, NEW n \in Names, NEW size \in Sizes, AddFile(n, size), Undamaged'
  PROVE  CallInv'
<1> DEFINE new == calls + 1
           slot == Min(FreeSlots)
           bits == handle.alloc
           before == <<>>
           entry == NewEntry(n, new, size, new, StoreBlocks(bits, size))
           ws == ThenEntry(slot, entry, StoreWrites(bits, new, size, new)) \o AppendWrites
<1>1. /\ CanMutate /\ SlotsNamed(n) = {} /\ FreeSlots # {} /\ UNCHANGED handle
      /\ FreeCount(bits) >= BlocksNeeded(size)
      /\ Begin("add", n, ws)
  BY DEF AddFile
<1>2. slot \in FileSlots /\ ~ table[slot].listed
  <2>1. FreeSlots \in SUBSET Nat
    BY MaxFilesAssumption DEF FreeSlots, FileSlots
  <2>2. slot \in FreeSlots
    BY <1>1, <2>1, MinExists
  <2> QED BY <2>2 DEF FreeSlots, ListedSlots
<1>3. new \in Ids /\ bits \in SUBSET Blocks /\ calls \in Nat
  BY <1>1, NewIsAnId, BoundsAssumption DEF ShapeInv, HandleShape, CallsInv
<1>4. Rests(handle.key) /\ cached.open
  BY <1>1, BeginRests
<1> HIDE DEF slot
<1>5. TakesSlot(slot, n, new)
  <2>1. ASSUME NEW i \in FileSlots, table[i].listed PROVE table[i].name # n /\ table[i].id # new
    <3>1. table[i].name # n
      BY <1>1, <2>1 DEF SlotsNamed, ListedSlots
    <3>2. table[i].id \in Nat /\ table[i].id <= calls
      BY <1>4, <2>1, ListedIs DEF ShapeInv, FileShape, Rests, Goal, KnownSoFar
    <3> QED BY <1>3, <3>1, <3>2
  <2> QED BY <1>2, <1>3, <2>1 DEF TakesSlot
<1>6. LeavesOthers(slot, bits)
  <2>1. OtherThan(slot) = SoundIn(table, hurt)
    BY <1>2 DEF OtherThan, SoundIn
  <2>2. /\ \A i \in OtherThan(slot) : Own(i) \subseteq bits
        /\ faults = 0 => bits = UNION {Own(i) : i \in SoundIn(table, hurt)}
    BY <1>4, OthersOnly
  <2> QED BY <2>1, <2>2 DEF LeavesOthers
<1>7. before \in Seq(Writes) /\ \A w \in ToSet(before) : w = BitmapWrite(bits)
  BY DEF ToSet
<1>8. ws \in Seq(Writes)
  <2>1. entry \in Entry
    BY <1>1, <1>3, NewEntryShape
  <2>2. StoreWrites(bits, new, size, new) \in Seq(Writes)
    BY <1>3, SizesAssumption, StoreWritesShape DEF ShapeInv, HandleShape
  <2>3. SlotWrite(slot, entry) \in Writes /\ AppendWrites \in Seq(Writes)
    <3> HIDE DEF entry
    <3> QED BY <1>2, <2>1, OtherWritesShape
  <2> HIDE DEF entry
  <2>4. <<SlotWrite(slot, entry)>> \in Seq(Writes)
    BY <2>3
  <2> QED BY <2>2, <2>3, <2>4 DEF ThenEntry
<1>9. before \o ws = ws
  <2> HIDE DEF ws
  <2> QED BY <1>8
<1>10. Begin("add", n, before \o ws)
  <2> HIDE DEF ws, before
  <2> QED BY <1>1, <1>9
<1> HIDE DEF before
<1> QED BY <1>1, <1>2, <1>3, <1>5, <1>6, <1>7, <1>10, StoreCallWorks

LEMMA SlotOfName ==
  ASSUME ShapeInv, CallsInv, Rests(handle.key), NEW n \in Names, n \notin hurt, SlotsNamed(n) # {}
  PROVE  LET slot == SlotByName(n) IN
         /\ slot \in FileSlots /\ table[slot].listed /\ table[slot].name = n
         /\ slot \in SoundIn(table, hurt) /\ table[slot] \in Entry /\ table[slot].id \in Ids
         /\ TakesSlot(slot, n, table[slot].id)
         /\ Legible(store, handle.key, table[slot])
<1> DEFINE slot == SlotByName(n)
<1>1. slot \in ListedSlots /\ slot \in SlotsNamed(n)
  BY SlotByNameIs
<1>2. slot \in FileSlots /\ table[slot].listed /\ table[slot].name = n
  BY <1>1 DEF ListedSlots, SlotsNamed
<1> HIDE DEF slot
<1>3. slot \in SoundIn(table, hurt)
  BY <1>2 DEF SoundIn
<1>4. table[slot] \in Entry /\ table[slot].id \in Ids /\ table[slot].id \in Nat
  BY <1>2, ListedIs DEF ShapeInv, FileShape
<1>5. EntriesApart(table) /\ KnownSoFar(table, handle.key) /\ Legible(store, handle.key, table[slot])
  BY <1>3 DEF Rests, Goal, FilesStand
<1>6. table[slot].id <= calls + 1
  BY <1>2, <1>4, <1>5, BoundsAssumption DEF KnownSoFar, CallsInv
<1>7. TakesSlot(slot, n, table[slot].id)
  BY <1>2, <1>5, <1>6 DEF TakesSlot, EntriesApart
<1> QED BY <1>2, <1>3, <1>4, <1>5, <1>7 DEF slot

LEMMA FreedLeavesOthers ==
  ASSUME ShapeInv, Rests(handle.key), cached.open, NEW slot \in SoundIn(table, hurt)
  PROVE  LeavesOthers(slot, Free(handle.alloc, Own(slot)))
<1>1. /\ \A i \in OtherThan(slot) : Own(i) \subseteq handle.alloc
      /\ \A i \in OtherThan(slot) : Own(i) \intersect Own(slot) = {}
      /\ faults = 0 => handle.alloc = UNION {Own(i) : i \in SoundIn(table, hurt)}
  BY OthersOnly
<1>2. \A i \in SoundIn(table, hurt) : i = slot \/ i \in OtherThan(slot)
  BY DEF OtherThan
<1>3. \A i \in OtherThan(slot) : i \in SoundIn(table, hurt)
  BY DEF OtherThan
<1>4. \A i \in OtherThan(slot) : Own(i) \subseteq Free(handle.alloc, Own(slot))
  BY <1>1 DEF Free
<1>5. ASSUME faults = 0
      PROVE  Free(handle.alloc, Own(slot)) = UNION {Own(i) : i \in OtherThan(slot)}
  BY <1>1, <1>2, <1>3, <1>5 DEF Free
<1> QED BY <1>4, <1>5 DEF LeavesOthers

LEMMA UpdateFileWorks ==
  ASSUME ShapeInv, CallsInv, CallInv, NEW n \in Names, NEW size \in Sizes, UpdateFile(n, size), Undamaged'
  PROVE  CallInv'
<1> DEFINE new == calls + 1
           slot == SlotByName(n)
           old == table[slot]
           oldBlocks == AllBlocks(store, handle.key, old)
           bits == Free(handle.alloc, ToSet(oldBlocks))
           blocks == StoreBlocks(bits, size)
           stored == ThenEntry(slot, NewEntry(n, old.id, size, new, blocks),
                               StoreWrites(bits, old.id, size, new)) \o AppendWrites
           enough == FreeCount(bits) >= BlocksNeeded(size)
           before == <<BitmapWrite(bits)>>
           ws == before \o (IF FreeCount(bits) < BlocksNeeded(size) THEN <<>> ELSE stored)
<1>1. /\ CanMutate /\ SlotsNamed(n) # {} /\ UNCHANGED handle
      /\ FreeCount(handle.alloc) + Len(oldBlocks) >= BlocksNeeded(size)
      /\ Begin("update", n, ws)
  BY DEF UpdateFile
<1> HIDE DEF ws
<1>2. Rests(handle.key) /\ cached.open /\ n \notin hurt
  BY <1>1, BeginRests
<1>3. /\ slot \in FileSlots /\ old.listed /\ old.name = n
      /\ slot \in SoundIn(table, hurt) /\ old \in Entry /\ old.id \in Ids
      /\ TakesSlot(slot, n, old.id)
      /\ Legible(store, handle.key, old)
  BY <1>1, <1>2, SlotOfName
<1>4. old.direct \in Seq(Blocks) /\ old.overflow \in Blocks
  BY <1>3, ListedIs DEF ShapeInv, FileShape
<1>5. ChainsAscend(store) /\ handle.alloc \in SUBSET Blocks /\ new \in Ids
  BY <1>1, NewIsAnId, WellStoredAscends DEF ShapeInv, FileShape, HandleShape
<1>6. oldBlocks \in Seq(Blocks) /\ IsInjective(oldBlocks) /\ ToSet(oldBlocks) = Own(slot)
  <2>1. AllBlocks(store, handle.key, old) \in Seq(Blocks)
    BY <1>3, <1>4, <1>5, LegibleBlocks
  <2> QED BY <1>3, <2>1 DEF Legible, Own, StoredBy
<1> HIDE DEF slot, old, oldBlocks
<1>7. Own(slot) \subseteq handle.alloc
  BY <1>2, <1>3, OthersOnly
<1>8. bits = Free(handle.alloc, Own(slot)) /\ bits \in SUBSET Blocks
  BY <1>5, <1>6 DEF Free
<1>9. LeavesOthers(slot, bits)
  BY <1>2, <1>3, <1>8, FreedLeavesOthers
<1>10. enough
  <2>1. FreeCount(bits) = FreeCount(handle.alloc) + Len(oldBlocks)
    BY <1>5, <1>6, <1>7, FreedCount
  <2> QED BY <1>1, <2>1
<1>11. ~ (FreeCount(bits) < BlocksNeeded(size))
  <2>1. FreeCount(bits) \in Int
    BY <1>8, AllocatedBlocks
  <2>2. BlocksNeeded(size) \in Int
    BY SizesAssumption, BlocksNeededIs
  <2> QED BY <1>10, <2>1, <2>2
<1> HIDE DEF bits
<1>12. ws = before \o stored
  BY <1>11 DEF ws
<1>13. before \in Seq(Writes) /\ \A w \in ToSet(before) : w = BitmapWrite(bits)
  <2>1. BitmapWrite(bits) \in Writes
    BY <1>8, OtherWritesShape
  <2> QED BY <2>1, SingleWrite
<1> HIDE DEF before
<1>14. Begin("update", n, before \o stored)
  <2> HIDE DEF stored
  <2> QED BY <1>1, <1>12
<1>15. FreeCount(bits) >= BlocksNeeded(size)
  BY <1>10
<1>16. "update" \in {"add", "update"} /\ ("update" = "add" => ~ table[slot].listed)
  OBVIOUS
<1>17. /\ old.id \in Ids /\ slot \in FileSlots /\ TakesSlot(slot, n, old.id)
       /\ CanMutate /\ UNCHANGED handle
  BY <1>1, <1>3
<1> QED BY <1>8, <1>9, <1>13, <1>14, <1>15, <1>16, <1>17, StoreCallWorks

LEMMA DeleteFileWorks ==
  ASSUME ShapeInv, CallsInv, CallInv, NEW n \in Names, DeleteFile(n), Undamaged'
  PROVE  CallInv'
<1> DEFINE slot == SlotByName(n)
           old == table[slot]
           bits == Free(handle.alloc, BlocksOf(old))
           e == [old EXCEPT !.listed = FALSE]
           ws == <<BitmapWrite(bits), SlotWrite(slot, e)>> \o AppendWrites
           s == store
<1>1. /\ CanMutate /\ SlotsNamed(n) # {} /\ UNCHANGED handle
      /\ Begin("delete", n, ws)
  BY DEF DeleteFile
<1> HIDE DEF ws
<1>2. Rests(handle.key) /\ cached.open /\ n \notin hurt
  BY <1>1, BeginRests
<1>3. /\ slot \in FileSlots /\ old.listed /\ old.name = n
      /\ slot \in SoundIn(table, hurt) /\ old \in Entry
      /\ TakesSlot(slot, n, old.id)
  BY <1>1, <1>2, SlotOfName
<1> HIDE DEF slot
<1>4. e \in Entry /\ ~ e.listed /\ e.id = old.id
  BY <1>3 DEF Entry
<1>5. BlocksOf(old) = Own(slot)
  BY <1>2 DEF BlocksOf, CurrentKey, Own, StoredBy
<1>6. bits = Free(handle.alloc, Own(slot))
  BY <1>5
<1>7. bits \in SUBSET Blocks /\ LeavesOthers(slot, bits)
  BY <1>2, <1>3, <1>6, FreedLeavesOthers DEF ShapeInv, HandleShape, Free
<1> HIDE DEF bits, old
<1>8. BitmapWrite(bits) \in Writes /\ SlotWrite(slot, e) \in Writes /\ AppendWrites \in Seq(Writes)
  <2> HIDE DEF e
  <2> QED BY <1>3, <1>4, <1>7, OtherWritesShape
<1> HIDE DEF e
<1> DEFINE call == "delete"
           p == <<>>
<1>9. FileWrites(ws, p, bits, slot, e) /\ p \in Seq(Writes)
  BY <1>8 DEF ws, FileWrites
<1>20. ToSet(p) = {}
  BY DEF ToSet
<1> HIDE DEF p
<1>10. /\ ws \in Seq(Writes) /\ Ordered(ws, "delete") /\ SettlesBits(ws, bits)
       /\ ToSet(ws) = {BitmapWrite(bits), SlotWrite(slot, e)} \union ToSet(AppendWrites)
  <2>1. FillsBlocks(p)
    BY <1>20 DEF FillsBlocks
  <2>2. call \in FileCalls
    BY DEF FileCalls
  <2>3. slot \in FileSlots /\ e \in Entry /\ bits \in SUBSET Blocks
    BY <1>3, <1>4, <1>7
  <2> HIDE DEF call
  <2>4. /\ ws \in Seq(Writes) /\ Ordered(ws, call) /\ SettlesBits(ws, bits)
        /\ ToSet(ws) = ToSet(p) \union {BitmapWrite(bits), SlotWrite(slot, e)}
                         \union ToSet(AppendWrites)
    BY <1>9, <2>1, <2>2, <2>3, FileWritesOrdered
  <2> QED BY <1>20, <2>4 DEF call
<1>11. ASSUME NEW w \in ToSet(ws)
       PROVE  \/ w.region = "bitmap" /\ w.bits = bits
              \/ w.region = "slot" /\ w.at = slot /\ w.value = e
              \/ w.region \in {"chain", "header"}
  <2>1. CASE w \in ToSet(AppendWrites)
    BY <2>1, AppendWritesAppend DEF Appending
  <2>2. CASE w \in {BitmapWrite(bits), SlotWrite(slot, e)}
    BY <2>2 DEF BitmapWrite, SlotWrite
  <2> QED BY <1>10, <2>1, <2>2
<1>12. WritesFile(ws, slot, e, s)
  <2>1. \A w \in ToSet(ws) : w.region \in {"block", "bitmap", "slot", "chain", "header"}
    BY <1>11
  <2>2. \A w \in ToSet(ws) : w.region = "slot" => w.at = slot /\ w.value = e
    BY <1>11
  <2>3. \A w \in ToSet(ws) : w.region # "block"
    BY <1>11
  <2>4. SlotWrite(slot, e) \in ToSet(ws) /\ SlotWrite(slot, e).region = "slot"
    BY <1>10 DEF SlotWrite
  <2> QED BY <2>1, <2>2, <2>3, <2>4 DEF WritesFile
<1>13. SparesBlocks(ws, slot, bits)
  <2>1. ASSUME NEW i \in OtherThan(slot)
        PROVE  /\ Own(i) \subseteq bits
               /\ \A w \in ToSet(ws) : w.region = "block" => w.at \notin Own(i)
               /\ \A w \in ToSet(ws) : w.region \in {"block", "bitmap"} => Own(i) \subseteq w.bits
    <3>1. Own(i) \subseteq bits
      BY <1>7 DEF LeavesOthers
    <3> QED BY <1>11, <3>1
  <2> QED BY <2>1 DEF SparesBlocks
<1>14. NamesFile(slot, e, n)
  BY <1>3, <1>4 DEF NamesFile, TakesSlot
<1>15. StoresFile(s, slot, e, bits)
  BY <1>4, <1>7 DEF StoresFile, LeavesOthers
<1>16. LastBits(ws, {"bitmap"}, bitmap, bits) /\ LastBits(ws, {"block", "bitmap"}, handle.alloc, bits)
  BY <1>10 DEF SettlesBits
<1>17. "delete" \in FileCalls /\ ("delete" = "add" => ~ table[slot].listed) /\ WellStored(s)
  BY DEF FileCalls, ShapeInv, FileShape
<1>18. CanMutate /\ UNCHANGED handle /\ Begin("delete", n, ws)
  BY <1>1
<1>19. slot \in FileSlots /\ e \in Entry /\ ws \in Seq(Writes) /\ Ordered(ws, "delete")
  BY <1>3, <1>4, <1>10
<1> HIDE DEF s
<1> QED BY <1>12, <1>13, <1>14, <1>15, <1>16, <1>17, <1>18, <1>19, FileCallWorks

(* Granting and revoking access.                                           *)
LEMMA KnownLater ==
  ASSUME CallsInv, NEW t, WellListed(t), NEW key, KnownSoFar(t, key), calls' = calls + 1, held' = held
  PROVE  KnownSoFar(t, key)'
<1>1. calls \in Int
  BY BoundsAssumption DEF CallsInv
<1>2. key \in 0 .. calls + 1 /\ \A p \in Peers : held[p] \subseteq 0 .. calls + 1
  BY <1>1 DEF KnownSoFar
<1>3. ASSUME NEW i \in FileSlots, t[i].listed PROVE t[i].id <= calls + 1
  <2>1. t[i].id \in Nat /\ t[i].id <= calls
    BY <1>3, ListedIs DEF KnownSoFar
  <2> QED BY <1>1, <2>1
<1> QED BY <1>2, <1>3 DEF KnownSoFar

Grants(kr, slot, r) ==
  /\ kr = [i \in RecipientSlots |-> kr[i]] /\ kr[slot] = r
  /\ \A i \in RecipientSlots : i # slot => kr[i] = keyring[i]

LEMMA GrantKeyring ==
  ASSUME WellGranted(keyring), NEW key, WrapsKey(keyring, key), GrantsHolders(keyring, key),
         NEW slot \in RecipientSlots, keyring[slot].peer = NoPeer,
         NEW p \in Peers, NEW r \in Recipients, r.dek = key, NEW kr, Grants(kr, slot, r)
  PROVE  WellGranted(kr) /\ WrapsKey(kr, key) /\ GrantsHolders(kr, key)
<1>1. \A i \in RecipientSlots : kr[i] = r \/ kr[i] = keyring[i]
  BY DEF Grants
<1>2. WellGranted(kr) /\ WrapsKey(kr, key)
  BY <1>1 DEF WellGranted, WrapsKey, Grants
<1>3. ASSUME NEW q \in Peers, key \in held[q]
      PROVE  \E i \in RecipientSlots : kr[i].peer = q
  <2>1. PICK i \in RecipientSlots : keyring[i].peer = q
    BY <1>3 DEF GrantsHolders
  <2>2. i # slot
    BY <2>1, NamesAssumption
  <2> QED BY <2>1, <2>2 DEF Grants
<1> QED BY <1>2, <1>3 DEF GrantsHolders

Prepares(p, call) == \A w \in ToSet(p) : w.region \in Preparing(call)
Decides(d, call) == d.region = Decisive(call)
BuiltOn(ws, p, d) == ws = (p \o <<d>>) \o AppendWrites
LEMMA OrderedBuilt ==
  ASSUME NEW p \in Seq(Writes), NEW d \in Writes, NEW call, NEW ws, BuiltOn(ws, p, d),
         Prepares(p, call), Decides(d, call)
  PROVE  /\ ws \in Seq(Writes) /\ Ordered(ws, call)
         /\ ToSet(ws) = ToSet(p) \union {d} \union ToSet(AppendWrites)
<1> DEFINE us == (p \o <<d>>) \o AppendWrites
<1>1. us = ws
  BY DEF BuiltOn
<1>2. /\ us \in Seq(Writes) /\ Ordered(us, call)
      /\ ToSet(us) = ToSet(p) \union {d} \union ToSet(AppendWrites)
  BY OrderedBuild DEF Prepares, Decides
<1> HIDE DEF us
<1> QED BY <1>1, <1>2

LEMMA GrantAccessWorks ==
  ASSUME ShapeInv, CallsInv, CallInv, NEW p \in Peers, GrantAccess(p), Undamaged'
  PROVE  CallInv'
<1> DEFINE free == RecipientSlots \ GrantedSlots
           slot == Min(free)
           r == [peer |-> p, dek |-> handle.key]
           R == RecipientWrite(slot, r)
           ws == <<R>> \o AppendWrites
<1>1. /\ CanMutate /\ free # {} /\ UNCHANGED handle /\ Begin("grant", NoName, ws)
  BY DEF GrantAccess
<1>2. slot \in RecipientSlots /\ keyring[slot].peer = NoPeer
  <2>1. free \in SUBSET Nat
    BY MaxRecipientsAssumption DEF RecipientSlots
  <2>2. slot \in free
    BY <1>1, <2>1, MinExists
  <2> QED BY <2>2 DEF GrantedSlots
<1>3. r \in Recipients /\ r.dek = handle.key
  BY DEF Recipients, ShapeInv, HandleShape
<1> HIDE DEF slot, r
<1>4. R \in Writes /\ R.region = "recipient" /\ R.at = slot /\ R.value = r /\ AppendWrites \in Seq(Writes)
  BY <1>2, <1>3, OtherWritesShape DEF RecipientWrite
<1> HIDE DEF R
<1> DEFINE none == <<>>
<1>5. none \in Seq(Writes) /\ BuiltOn(ws, none, R)
  BY <1>4 DEF BuiltOn
<1>6. ToSet(none) = {}
  BY DEF ToSet
<1> HIDE DEF none, ws
<1>7. /\ ws \in Seq(Writes) /\ Ordered(ws, "grant")
      /\ ToSet(ws) = {R} \union ToSet(AppendWrites)
  <2> DEFINE call == "grant"
  <2>1. Prepares(none, call)
    BY <1>6 DEF Prepares
  <2>2. Decides(R, call)
    BY <1>4 DEF Decisive, Decides
  <2> HIDE DEF call
  <2>3. /\ ws \in Seq(Writes) /\ Ordered(ws, call)
        /\ ToSet(ws) = ToSet(none) \union {R} \union ToSet(AppendWrites)
    <3>1. R \in Writes /\ none \in Seq(Writes) /\ BuiltOn(ws, none, R)
      BY <1>4, <1>5
    <3> QED BY <2>1, <2>2, <3>1, OrderedBuilt
  <2> QED BY <1>6, <2>3 DEF call
<1>8. \A w \in ToSet(ws) : w = R \/ w.region \in {"chain", "header"}
  BY <1>7, AppendWritesAppend DEF Appending
<1>9. PICK s, t, kr, key, bm, al :
        /\ s = store /\ t = table /\ key = handle.key /\ bm = bitmap /\ al = handle.alloc
        /\ kr = [i \in RecipientSlots |-> IF i = slot THEN r ELSE keyring[i]]
  OBVIOUS
<1>10. Grants(kr, slot, r)
  BY <1>2, <1>9 DEF Grants
<1>11. /\ todo' = ws /\ Coming' = ToSet(ws) /\ doing' = [call |-> "grant", name |-> NoName]
       /\ calls' = calls + 1 /\ faults' = faults /\ held' = held
       /\ cached' = cached /\ adminSlot' = adminSlot /\ bitmap' = bitmap /\ table' = table
       /\ keyring' = keyring /\ store' = store /\ handle' = handle
  BY <1>1 DEF Begin, chainVars, fileVars, Coming
<1>12. Rests(handle.key) /\ cached.open /\ hurt' = hurt
  BY <1>1, BeginRests
<1>13. Alloc' = al /\ Alloc = al /\ CurrentKey' = key
  BY <1>9, <1>11, <1>12 DEF Alloc, CurrentKey
<1>14. /\ Goal(s, t, keyring, key, bm, al) /\ adminSlot.dek = key /\ handle.adminSlot = adminSlot
  BY <1>9, <1>12, <1>13 DEF Rests
<1>15. /\ FilesStand(s, t, key, hurt)
       /\ Marked(s, t, key, hurt, bm) /\ Marked(s, t, key, hurt, al)
       /\ faults = 0 => hurt = {} /\ al = bm /\ bm = InUse(s, t, key)
       /\ WrapsKey(keyring, key) /\ GrantsHolders(keyring, key) /\ KnownSoFar(t, key)
  BY <1>14 DEF Goal
<1>16. WellGranted(keyring) /\ WellListed(t)
  BY <1>9 DEF ShapeInv, FileShape
<1>17. WellGranted(kr) /\ WrapsKey(kr, key) /\ GrantsHolders(kr, key)
  BY <1>2, <1>3, <1>9, <1>10, <1>15, <1>16, GrantKeyring
<1>18. KnownSoFar(t, key)'
  BY <1>11, <1>15, <1>16, KnownLater
<1>19. KnownSoFar(table, key)'
  BY <1>9, <1>11, <1>18 DEF KnownSoFar
<1>20. Goal(s, t, kr, key, bm, al)'
  BY <1>11, <1>12, <1>15, <1>17, <1>18 DEF Goal, GrantsHolders
<1>21. Leads(s, t, kr, bm, al)'
  <2>1. \A w \in ToSet(ws) : w.region \notin {"block", "slot", "bitmap"}
    BY <1>4, <1>8
  <2>2. LeadsStore(s)' /\ LeadsTable(t)'
    BY <1>9, <1>11, <2>1 DEF LeadsStore, LeadsTable
  <2>3. R \in ToSet(ws)
    BY <1>7
  <2>4. LeadsKeyring(kr)'
    <3>1. \A w \in ToSet(ws) : w.region = "recipient" => kr[w.at] = w.value
      BY <1>4, <1>8, <1>10 DEF Grants
    <3>2. \A i \in RecipientSlots :
            kr[i] = keyring[i] \/ \E w \in ToSet(ws) : w.region = "recipient" /\ w.at = i
      BY <1>4, <1>10, <2>3 DEF Grants
    <3> QED BY <1>11, <3>1, <3>2 DEF LeadsKeyring
  <2>5. LastBits(ws, {"bitmap"}, bm, bm) /\ LastBits(ws, {"block", "bitmap"}, al, al)
    BY <1>7, <2>1, LastBitsSame
  <2> QED BY <1>7, <1>9, <1>11, <1>13, <2>2, <2>4, <2>5 DEF Leads
<1>22. KeysLead(key)'
  <2>1. \A w \in ToSet(ws) : w.region # "keyslot"
    BY <1>4, <1>8
  <2> QED BY <1>11, <1>13, <1>14, <1>15, <2>1 DEF KeysLead, GrantsHolders
<1>23. Target'
  <2>1. \A w \in ToSet(ws) : w.region # "slot"
    BY <1>4, <1>8
  <2> QED BY <1>11, <2>1 DEF Target, Calls
<1>24. Spares(s, t, key)'
  <2>1. \A w \in ToSet(ws) : w.region \notin {"block", "bitmap"}
    BY <1>4, <1>8
  <2>2. \A i \in SoundIn(t, hurt) : StoredBy(s, key, t[i]) \subseteq bm /\ StoredBy(s, key, t[i]) \subseteq al
    BY <1>15 DEF Marked
  <2> QED BY <1>9, <1>11, <1>12, <1>13, <2>1, <2>2 DEF Spares
<1>25. EntriesApart(table)
  BY <1>9, <1>15 DEF FilesStand
<1>26. "grant" \in Calls /\ Begin("grant", NoName, ws)
  BY <1>1 DEF Calls
<1> QED BY <1>7, <1>19, <1>20, <1>21, <1>22, <1>23, <1>24, <1>25, <1>26, BeginWorks

(* What a revocation writes: every block in use once more, the keyring,    *)
(* and then the header.                                                    *)
Reseal(i, b, new) == BlockWrite(b, Sealed(new, table[i].id, store[b].body), handle.alloc)

LEMMA ResealSet ==
  ASSUME FileShape, HandleShape, NEW i \in ListedSlots, NEW new
  PROVE  ToSet(ResealWrites(i, new)) = {Reseal(i, b, new) : b \in Own(i)}
<1> DEFINE blocks == AllBlocks(store, handle.key, table[i])
           write(k) == Reseal(i, blocks[k], new)
           ws == [k \in 1 .. Len(blocks) |-> write(k)]
<1>1. blocks \in Seq(Nat)
  BY WellStoredAscends, ListedEntries, FilesAreNumbers DEF FileShape
<1>2. ResealWrites(i, new) = ws
  BY DEF ResealWrites, ResealEach, Reseal
<1>3. Own(i) = ToSet(blocks)
  BY DEF Own, StoredBy
<1> HIDE DEF blocks
<1>4. /\ Len(blocks) \in Nat /\ DOMAIN blocks = 1 .. Len(blocks)
      /\ DOMAIN ws = 1 .. Len(blocks) /\ \A k \in 1 .. Len(blocks) : ws[k] = Reseal(i, blocks[k], new)
  BY <1>1
<1> HIDE DEF ws
<1>5. ToSet(ws) = {ws[k] : k \in 1 .. Len(blocks)} /\ ToSet(blocks) = {blocks[k] : k \in 1 .. Len(blocks)}
  BY <1>4 DEF ToSet
<1>6. ToSet(ws) = {Reseal(i, b, new) : b \in ToSet(blocks)}
  BY <1>4, <1>5
<1> QED BY <1>2, <1>3, <1>6

LEMMA ResealAllSet ==
  ASSUME FileShape, HandleShape, AllReadable, NEW new \in Keys
  PROVE  /\ \A w \in ToSet(ResealAll(new)) :
              \E i \in ListedSlots : \E b \in Own(i) : w = Reseal(i, b, new)
         /\ \A i \in ListedSlots : \A b \in Own(i) : Reseal(i, b, new) \in ToSet(ResealAll(new))
<1> DEFINE each(i) == IF i - 1 \in ListedSlots THEN ResealWrites(i - 1, new) ELSE <<>>
           all == [i \in 1 .. MaxFiles |-> each(i)]
<1>1. ASSUME NEW i \in 1 .. MaxFiles PROVE each(i) \in Seq(Writes)
  <2>1. CASE i - 1 \in ListedSlots
    BY <2>1, ResealShape
  <2>2. CASE i - 1 \notin ListedSlots
    BY <2>2
  <2> QED BY <2>1, <2>2
<1>2. MaxFiles \in Nat
  BY MaxFilesAssumption
<1>3. ResealAll(new) = FlattenSeq(all)
  BY DEF ResealAll
<1>4. ASSUME NEW i \in 1 .. MaxFiles, NEW w \in ToSet(each(i))
      PROVE  i - 1 \in ListedSlots /\ \E b \in Own(i - 1) : w = Reseal(i - 1, b, new)
  <2>1. i - 1 \in ListedSlots
    BY <1>4 DEF ToSet
  <2>2. w \in ToSet(ResealWrites(i - 1, new))
    BY <1>4, <2>1
  <2> DEFINE j == i - 1
  <2>3. j \in ListedSlots /\ w \in ToSet(ResealWrites(j, new))
    BY <2>1, <2>2
  <2> HIDE DEF j
  <2>4. w \in {Reseal(j, b, new) : b \in Own(j)}
    BY <2>3, ResealSet
  <2>5. \E b \in Own(j) : w = Reseal(j, b, new)
    BY <2>4
  <2> QED BY <2>1, <2>5 DEF j
<1>5. ASSUME NEW i \in ListedSlots, NEW b \in Own(i)
      PROVE  i + 1 \in 1 .. MaxFiles /\ Reseal(i, b, new) \in ToSet(each(i + 1))
  <2>1. i + 1 \in 1 .. MaxFiles /\ (i + 1) - 1 = i
    BY <1>2 DEF ListedSlots, FileSlots
  <2>2. each(i + 1) = ResealWrites(i, new)
    BY <2>1
  <2>3. Reseal(i, b, new) \in ToSet(ResealWrites(i, new))
    BY ResealSet
  <2> HIDE DEF each
  <2> QED BY <2>1, <2>2, <2>3
<1> HIDE DEF each
<1>6. all \in Seq(Seq(Writes)) /\ Len(all) = MaxFiles /\ \A i \in 1 .. MaxFiles : all[i] = each(i)
  BY <1>1, <1>2
<1> HIDE DEF all
<1>7. ToSet(FlattenSeq(all)) = UNION {ToSet(all[i]) : i \in 1 .. Len(all)}
  BY <1>6, FlattenedSet
<1>8. ASSUME NEW w \in ToSet(ResealAll(new))
      PROVE  \E i \in ListedSlots : \E b \in Own(i) : w = Reseal(i, b, new)
  <2>1. PICK i \in 1 .. MaxFiles : w \in ToSet(each(i))
    BY <1>3, <1>6, <1>7
  <2> QED BY <1>4, <2>1
<1>9. ASSUME NEW i \in ListedSlots, NEW b \in Own(i)
      PROVE  Reseal(i, b, new) \in ToSet(ResealAll(new))
  <2>1. i + 1 \in 1 .. Len(all) /\ Reseal(i, b, new) \in ToSet(all[i + 1])
    BY <1>5, <1>6
  <2> QED BY <1>3, <1>7, <2>1
<1> QED BY <1>8, <1>9

LEMMA RewrapSet ==
  ASSUME WellGranted(keyring), NEW slots \in SUBSET GrantedSlots, NEW new \in Keys
  PROVE  /\ \A w \in ToSet(Rewrap(slots, new)) :
              \E i \in slots : w = RecipientWrite(i, [keyring[i] EXCEPT !.dek = new])
         /\ \A i \in slots :
              RecipientWrite(i, [keyring[i] EXCEPT !.dek = new]) \in ToSet(Rewrap(slots, new))
<1> DEFINE write(i) == RecipientWrite(i, [keyring[i] EXCEPT !.dek = new])
           each(i) == IF i - 1 \in slots THEN <<write(i - 1)>> ELSE <<>>
           all == [i \in 1 .. MaxRecipients |-> each(i)]
<1>1. MaxRecipients \in Nat
  BY MaxRecipientsAssumption
<1>2. \A i \in slots : write(i) \in Writes
  <2> SUFFICES ASSUME NEW i \in slots PROVE write(i) \in Writes
    OBVIOUS
  <2>1. i \in RecipientSlots /\ keyring[i].peer # NoPeer
    BY DEF GrantedSlots
  <2>2. keyring[i] \in [peer : Peers, dek : Keys]
    BY <2>1 DEF WellGranted, Recipients, NoRecipient
  <2>3. [keyring[i] EXCEPT !.dek = new] \in Recipients
    BY <2>2 DEF Recipients
  <2> QED BY <2>1, <2>3, OtherWritesShape
<1>3. Rewrap(slots, new) = FlattenSeq(all)
  BY DEF Rewrap
<1> HIDE DEF write
<1>4. ASSUME NEW i \in 1 .. MaxRecipients
      PROVE  /\ each(i) \in Seq(Writes)
             /\ \A w \in ToSet(each(i)) : i - 1 \in slots /\ w = write(i - 1)
  <2>1. CASE i - 1 \in slots
    BY <1>2, <2>1, SingleWrite
  <2>2. CASE i - 1 \notin slots
    BY <2>2 DEF ToSet
  <2> QED BY <2>1, <2>2
<1>5. ASSUME NEW i \in slots PROVE i + 1 \in 1 .. MaxRecipients /\ write(i) \in ToSet(each(i + 1))
  <2>1. i + 1 \in 1 .. MaxRecipients /\ (i + 1) - 1 = i
    BY <1>1 DEF GrantedSlots, RecipientSlots
  <2>2. each(i + 1) = <<write(i)>>
    BY <2>1
  <2> HIDE DEF each
  <2> QED BY <1>2, <2>1, <2>2, SingleWrite
<1> HIDE DEF each
<1>6. all \in Seq(Seq(Writes)) /\ Len(all) = MaxRecipients /\ \A i \in 1 .. MaxRecipients : all[i] = each(i)
  BY <1>1, <1>4
<1> HIDE DEF all
<1>7. ToSet(FlattenSeq(all)) = UNION {ToSet(all[i]) : i \in 1 .. Len(all)}
  BY <1>6, FlattenedSet
<1>8. ASSUME NEW w \in ToSet(Rewrap(slots, new)) PROVE \E i \in slots : w = write(i)
  <2>1. PICK i \in 1 .. MaxRecipients : w \in ToSet(each(i))
    BY <1>3, <1>6, <1>7
  <2> QED BY <1>4, <2>1
<1>9. ASSUME NEW i \in slots PROVE write(i) \in ToSet(Rewrap(slots, new))
  <2>1. i + 1 \in 1 .. Len(all) /\ write(i) \in ToSet(all[i + 1])
    BY <1>5, <1>6
  <2> QED BY <1>3, <1>7, <2>1
<1> QED BY <1>8, <1>9 DEF write

Resealed(b) == \E i \in ListedSlots : b \in Own(i)
Reseals(s, new) ==
  /\ s = [b \in Blocks |-> s[b]]
  /\ \A b \in Blocks : Resealed(b) => s[b] = Sealed(new, store[b].id, store[b].body)
  /\ \A b \in Blocks : ~ Resealed(b) => s[b] = store[b]

(* The store that a revocation leaves.                                     *)
LEMMA ResealsExists ==
  ASSUME NEW new
  PROVE  \E s : Reseals(s, new)
<1> DEFINE s == [b \in Blocks |-> IF Resealed(b) THEN Sealed(new, store[b].id, store[b].body)
                                  ELSE store[b]]
<1>1. Reseals(s, new)
  BY DEF Reseals
<1> HIDE DEF s
<1> QED BY <1>1

LEMMA ResealedFiles ==
  ASSUME ShapeInv, Rests(handle.key), AllReadable, NEW new \in Keys, NEW s, Reseals(s, new)
  PROVE  /\ WellStored(s)
         /\ \A i \in SoundIn(table, hurt) :
              Legible(s, new, table[i]) /\ StoredBy(s, new, table[i]) = Own(i)
<1>1. WellStored(store) /\ WellListed(table) /\ handle.key \in Keys
  BY DEF ShapeInv, FileShape, HandleShape
<1>2. ASSUME NEW b \in Blocks, Resealed(b) PROVE s[b] \in WellSealed(b)
  <2>1. PICK i \in ListedSlots : b \in Own(i)
    BY <1>2 DEF Resealed
  <2>2. store[b].key = handle.key
    BY <2>1 DEF AllReadable, Readable
  <2>3. store[b].key \in Int /\ store[b].key >= 0
    BY <1>1, <2>2, BoundsAssumption DEF Keys
  <2>4. store[b] # NeverWritten
    BY <2>3 DEF NeverWritten, Sealed
  <2>5. store[b] \in WellSealed(b)
    BY <1>1, <2>4 DEF WellStored
  <2>6. store[b].id \in Ids /\ store[b].body \in Bodies(b)
    BY <2>5 DEF WellSealed
  <2>7. s[b] = Sealed(new, store[b].id, store[b].body)
    BY <1>2 DEF Reseals
  <2> QED BY <2>6, <2>7 DEF WellSealed, Sealed
<1>3. WellStored(s)
  BY <1>1, <1>2 DEF WellStored, Reseals
<1>4. ASSUME NEW i \in SoundIn(table, hurt)
      PROVE  Legible(s, new, table[i]) /\ StoredBy(s, new, table[i]) = Own(i)
  <2>1. i \in FileSlots /\ table[i].listed /\ i \in ListedSlots
    BY DEF SoundIn, ListedSlots
  <2>2. table[i].direct \in Seq(Blocks) /\ table[i].overflow \in Blocks /\ table[i].size \in Nat
    BY <1>1, <2>1, ListedIs
  <2>3. ChainsAscend(s) /\ ChainsAscend(store)
    BY <1>1, <1>3, WellStoredAscends
  <2>4. Legible(store, handle.key, table[i])
    BY DEF Rests, Goal, FilesStand
  <2>5. Own(i) \subseteq Blocks
    BY <2>2, <2>3, <2>4, LegibleBlocks DEF Own
  <2>6. ASSUME NEW b \in Own(i) PROVE Readable(s, new, table[i].id, b) /\ s[b].body = store[b].body
    <3>1. b \in Blocks /\ Resealed(b) /\ store[b].id = table[i].id
      BY <2>1, <2>5 DEF Resealed, AllReadable, Readable
    <3>2. s[b] = Sealed(new, store[b].id, store[b].body)
      BY <3>1 DEF Reseals
    <3> QED BY <3>1, <3>2 DEF Sealed, Readable
  <2>7. \A b \in StoredBy(store, handle.key, table[i]) :
          Readable(s, new, table[i].id, b) /\ s[b].body = store[b].body
    BY <2>6 DEF Own
  <2> QED BY <2>2, <2>3, <2>4, <2>7, LegibleAgrees DEF Own
<1> QED BY <1>3, <1>4

LEMMA ResealedStand ==
  ASSUME ShapeInv, Rests(handle.key), AllReadable, NEW new \in Keys, NEW s, Reseals(s, new)
  PROVE  /\ FilesStand(s, table, new, hurt)
         /\ Marked(s, table, new, hurt, bitmap) /\ Marked(s, table, new, hurt, Alloc)
         /\ faults = 0 => hurt = {} /\ Alloc = bitmap /\ bitmap = InUse(s, table, new)
<1>1. /\ FilesStand(store, table, handle.key, hurt)
      /\ Marked(store, table, handle.key, hurt, bitmap) /\ Marked(store, table, handle.key, hurt, Alloc)
      /\ faults = 0 => hurt = {} /\ Alloc = bitmap /\ bitmap = InUse(store, table, handle.key)
  BY DEF Rests, Goal
<1>2. /\ WellStored(s)
      /\ \A i \in SoundIn(table, hurt) :
           Legible(s, new, table[i]) /\ StoredBy(s, new, table[i]) = Own(i)
  BY ResealedFiles
<1>3. FilesStand(s, table, new, hurt)
  BY <1>1, <1>2 DEF FilesStand, Own
<1>4. Marked(s, table, new, hurt, bitmap) /\ Marked(s, table, new, hurt, Alloc)
  BY <1>1, <1>2 DEF Marked, Own
<1>5. ASSUME faults = 0 PROVE hurt = {} /\ Alloc = bitmap /\ bitmap = InUse(s, table, new)
  <2>1. hurt = {} /\ Alloc = bitmap /\ bitmap = InUse(store, table, handle.key)
    BY <1>1, <1>5
  <2>2. \A i \in SoundIn(table, {}) : StoredBy(s, new, table[i]) = StoredBy(store, handle.key, table[i])
    BY <1>2, <2>1 DEF Own
  <2>3. InUse(s, table, new) = InUse(store, table, handle.key)
    BY <2>2 DEF InUse
  <2> QED BY <2>1, <2>3
<1> QED BY <1>3, <1>4, <1>5

(* The keyring that it leaves.                                             *)
Rewraps(kr, revoked, new) ==
  /\ kr = [i \in RecipientSlots |-> kr[i]]
  /\ kr[revoked] = NoRecipient
  /\ \A i \in GrantedSlots : i # revoked => kr[i] = [keyring[i] EXCEPT !.dek = new]
  /\ \A i \in RecipientSlots : i \notin GrantedSlots /\ i # revoked => kr[i] = keyring[i]

LEMMA RewrapsExists ==
  ASSUME NEW revoked \in RecipientSlots, NEW new
  PROVE  \E kr : Rewraps(kr, revoked, new)
<1> DEFINE kr == [i \in RecipientSlots |->
                    IF i = revoked THEN NoRecipient
                    ELSE IF i \in GrantedSlots THEN [keyring[i] EXCEPT !.dek = new]
                    ELSE keyring[i]]
<1>1. kr = [i \in RecipientSlots |-> kr[i]] /\ kr[revoked] = NoRecipient
  OBVIOUS
<1>2. \A i \in GrantedSlots : i \in RecipientSlots
  BY DEF GrantedSlots
<1>3. \A i \in GrantedSlots : i # revoked => kr[i] = [keyring[i] EXCEPT !.dek = new]
  BY <1>2
<1>4. \A i \in RecipientSlots : i \notin GrantedSlots /\ i # revoked => kr[i] = keyring[i]
  OBVIOUS
<1> HIDE DEF kr
<1> QED BY <1>1, <1>3, <1>4 DEF Rewraps

LEMMA RewrappedKeyring ==
  ASSUME WellGranted(keyring), NEW revoked \in RecipientSlots, NEW new \in Keys, NEW kr,
         Rewraps(kr, revoked, new)
  PROVE  WellGranted(kr) /\ WrapsKey(kr, new)
<1>1. ASSUME NEW i \in RecipientSlots
      PROVE  kr[i] \in Recipients /\ (kr[i].peer # NoPeer => kr[i].dek = new)
  <2>1. CASE i = revoked
    BY <2>1 DEF Rewraps, Recipients, NoRecipient
  <2>2. CASE i # revoked /\ i \in GrantedSlots
    <3>1. keyring[i] \in [peer : Peers, dek : Keys]
      BY <2>2 DEF GrantedSlots, WellGranted, Recipients, NoRecipient
    <3>2. kr[i] = [keyring[i] EXCEPT !.dek = new]
      BY <2>2 DEF Rewraps
    <3> QED BY <3>1, <3>2 DEF Recipients
  <2>3. CASE i # revoked /\ i \notin GrantedSlots
    BY <2>3 DEF Rewraps, GrantedSlots, WellGranted
  <2> QED BY <2>1, <2>2, <2>3
<1> QED BY <1>1 DEF WellGranted, WrapsKey, Rewraps

(* The writes of a revocation.                                             *)
RevokeWrites(ws, revoked, new, K) ==
  ws = ((ResealAll(new) \o KeyringWrites(revoked, new)) \o <<K>>) \o AppendWrites
IsReseal(w, new) ==
  /\ w.region = "block" /\ w.bits = handle.alloc
  /\ \E i \in ListedSlots : w.at \in Own(i) /\ w.value = Sealed(new, table[i].id, store[w.at].body)
IsRewrap(w, revoked, new) ==
  /\ w.region = "recipient"
  /\ \/ w.at = revoked /\ w.value = NoRecipient
     \/ w.at \in GrantedSlots \ {revoked} /\ w.value = [keyring[w.at] EXCEPT !.dek = new]

LEMMA KeyringSet ==
  ASSUME WellGranted(keyring), NEW revoked \in RecipientSlots, NEW new \in Keys
  PROVE  /\ KeyringWrites(revoked, new) \in Seq(Writes)
         /\ \A w \in ToSet(KeyringWrites(revoked, new)) : IsRewrap(w, revoked, new)
         /\ \A i \in (GrantedSlots \ {revoked}) \union {revoked} :
              \E w \in ToSet(KeyringWrites(revoked, new)) : w.at = i /\ w.region = "recipient"
<1> DEFINE slots == GrantedSlots \ {revoked}
           R == RecipientWrite(revoked, NoRecipient)
           rest == Rewrap(slots, new)
<1>1. rest \in Seq(Writes)
  BY RewrapShape
<1>2. R \in Writes /\ R.region = "recipient" /\ R.at = revoked /\ R.value = NoRecipient
  BY OtherWritesShape DEF Recipients, RecipientWrite
<1>3. /\ \A w \in ToSet(rest) :
           \E i \in slots : w = RecipientWrite(i, [keyring[i] EXCEPT !.dek = new])
      /\ \A i \in slots : RecipientWrite(i, [keyring[i] EXCEPT !.dek = new]) \in ToSet(rest)
  BY RewrapSet
<1>4. KeyringWrites(revoked, new) = <<R>> \o rest
  BY DEF KeyringWrites
<1> HIDE DEF R, rest
<1>5. <<R>> \o rest \in Seq(Writes) /\ ToSet(<<R>> \o rest) = {R} \union ToSet(rest)
  BY <1>1, <1>2, ConsSet
<1>6. \A w \in ToSet(rest) : IsRewrap(w, revoked, new)
  <2> SUFFICES ASSUME NEW w \in ToSet(rest) PROVE IsRewrap(w, revoked, new)
    OBVIOUS
  <2>1. PICK i \in slots : w = RecipientWrite(i, [keyring[i] EXCEPT !.dek = new])
    BY <1>3
  <2>2. w.region = "recipient" /\ w.at = i /\ w.value = [keyring[i] EXCEPT !.dek = new]
    BY <2>1 DEF RecipientWrite
  <2> QED BY <2>2 DEF IsRewrap
<1>7. IsRewrap(R, revoked, new)
  BY <1>2 DEF IsRewrap
<1>8. ASSUME NEW i \in slots
      PROVE  \E w \in ToSet(rest) : w.at = i /\ w.region = "recipient"
  <2> DEFINE w == RecipientWrite(i, [keyring[i] EXCEPT !.dek = new])
  <2>1. w \in ToSet(rest) /\ w.at = i /\ w.region = "recipient"
    BY <1>3 DEF RecipientWrite
  <2> HIDE DEF w
  <2> QED BY <2>1
<1> QED BY <1>2, <1>4, <1>5, <1>6, <1>7, <1>8

LEMMA RevokeWritesAre ==
  ASSUME ShapeInv, AllReadable, NEW revoked \in RecipientSlots, NEW new \in Keys, NEW K \in Writes,
         K.region = "keyslot", NEW ws, RevokeWrites(ws, revoked, new, K)
  PROVE  /\ ws \in Seq(Writes) /\ Ordered(ws, "revoke") /\ K \in ToSet(ws)
         /\ \A w \in ToSet(ws) : \/ IsReseal(w, new) \/ IsRewrap(w, revoked, new) \/ w = K
                                 \/ w.region \in {"chain", "header"}
         /\ \A i \in ListedSlots : \A b \in Own(i) :
              \E w \in ToSet(ws) : w.region = "block" /\ w.at = b
         /\ \A i \in (GrantedSlots \ {revoked}) \union {revoked} :
              \E w \in ToSet(ws) : w.region = "recipient" /\ w.at = i
<1> DEFINE all == ResealAll(new)
           ring == KeyringWrites(revoked, new)
           p == all \o ring
           call == "revoke"
<1>1. FileShape /\ HandleShape /\ WellGranted(keyring)
  BY DEF ShapeInv, FileShape
<1>2. /\ all \in Seq(Writes)
      /\ \A w \in ToSet(all) : \E i \in ListedSlots : \E b \in Own(i) : w = Reseal(i, b, new)
      /\ \A i \in ListedSlots : \A b \in Own(i) : Reseal(i, b, new) \in ToSet(all)
  BY <1>1, ResealAllShape, ResealAllSet
<1>3. /\ ring \in Seq(Writes)
      /\ \A w \in ToSet(ring) : IsRewrap(w, revoked, new)
      /\ \A i \in (GrantedSlots \ {revoked}) \union {revoked} :
           \E w \in ToSet(ring) : w.at = i /\ w.region = "recipient"
  BY <1>1, KeyringSet
<1> HIDE DEF all, ring
<1>4. p \in Seq(Writes) /\ ToSet(p) = ToSet(all) \union ToSet(ring)
  BY <1>2, <1>3, ConcatSet
<1>5. BuiltOn(ws, p, K)
  BY DEF BuiltOn, RevokeWrites, all, ring
<1> HIDE DEF p
<1>6. \A w \in ToSet(all) : IsReseal(w, new)
  <2> SUFFICES ASSUME NEW w \in ToSet(all) PROVE IsReseal(w, new)
    OBVIOUS
  <2>1. PICK i \in ListedSlots : \E b \in Own(i) : w = Reseal(i, b, new)
    BY <1>2
  <2>2. PICK b \in Own(i) : w = Reseal(i, b, new)
    BY <2>1
  <2>3. /\ w.region = "block" /\ w.at = b /\ w.bits = handle.alloc
        /\ w.value = Sealed(new, table[i].id, store[b].body)
    BY <2>2 DEF Reseal, BlockWrite
  <2> QED BY <2>3 DEF IsReseal
<1>7. Prepares(p, call) /\ Decides(K, call)
  BY <1>3, <1>4, <1>6 DEF Prepares, Decides, Preparing, Decisive, IsReseal, IsRewrap
<1>8. /\ ws \in Seq(Writes) /\ Ordered(ws, call)
      /\ ToSet(ws) = ToSet(p) \union {K} \union ToSet(AppendWrites)
  <2> HIDE DEF call
  <2> QED BY <1>4, <1>5, <1>7, OrderedBuilt
<1>9. \A w \in ToSet(ws) : \/ IsReseal(w, new) \/ IsRewrap(w, revoked, new) \/ w = K
                            \/ w.region \in {"chain", "header"}
  BY <1>3, <1>4, <1>6, <1>8, AppendWritesAppend DEF Appending
<1>10. ASSUME NEW i \in ListedSlots, NEW b \in Own(i)
       PROVE  \E w \in ToSet(ws) : w.region = "block" /\ w.at = b
  <2>1. Reseal(i, b, new) \in ToSet(ws)
    BY <1>2, <1>4, <1>8
  <2>2. Reseal(i, b, new).region = "block" /\ Reseal(i, b, new).at = b
    BY DEF Reseal, BlockWrite
  <2> QED BY <2>1, <2>2
<1>11. \A i \in (GrantedSlots \ {revoked}) \union {revoked} :
         \E w \in ToSet(ws) : w.region = "recipient" /\ w.at = i
  BY <1>3, <1>4, <1>8
<1> QED BY <1>8, <1>9, <1>10, <1>11

LEMMA RevokeAccessWorks ==
  ASSUME ShapeInv, CallsInv, CallInv, NEW p \in Peers, NEW password \in Passwords,
         RevokeAccess(p, password), Undamaged'
  PROVE  CallInv'
<1> DEFINE version == calls + 1
           revoked == Min(SlotsOfPeer(p))
           slot == [password |-> password, dek |-> version]
           K == KeySlotWrite(slot)
           ws == ((ResealAll(version) \o KeyringWrites(revoked, version)) \o <<K>>) \o AppendWrites
<1>1. /\ CanMutate /\ SlotsOfPeer(p) # {}
      /\ \A i \in ListedSlots :
           /\ CollectOk(store, handle.key, table[i])
           /\ \A b \in BlocksOf(table[i]) : Readable(store, handle.key, table[i].id, b)
      /\ Begin("revoke", NoName, ws)
      /\ handle' = [handle EXCEPT !.key = version]
  BY DEF RevokeAccess
<1> HIDE DEF ws
<1>2. version \in Keys /\ calls \in Nat
  BY <1>1, NewIsAnId, BoundsAssumption DEF CallsInv
<1>3. revoked \in RecipientSlots
  <2>1. SlotsOfPeer(p) \in SUBSET Nat
    BY MaxRecipientsAssumption DEF SlotsOfPeer, GrantedSlots, RecipientSlots
  <2>2. revoked \in SlotsOfPeer(p)
    BY <1>1, <2>1, MinExists
  <2> QED BY <2>2 DEF SlotsOfPeer, GrantedSlots
<1>4. K \in Writes /\ K.region = "keyslot" /\ K.value.dek = version
  <2>1. slot \in AdminSlot /\ slot.dek = version
    BY <1>2 DEF AdminSlot
  <2> HIDE DEF slot
  <2> QED BY <2>1, OtherWritesShape DEF KeySlotWrite
<1> HIDE DEF revoked, K
<1>5. RevokeWrites(ws, revoked, version, K)
  BY DEF RevokeWrites, ws
<1>6. Rests(handle.key) /\ cached.open /\ hurt' = hurt
  BY <1>1, BeginRests
<1>7. AllReadable
  BY RevokeReads
<1>8. PICK s : Reseals(s, version)
  BY ResealsExists
<1>9. PICK kr : Rewraps(kr, revoked, version)
  BY <1>3, RewrapsExists
<1>10. PICK t, key, bm, al : t = table /\ key = version /\ bm = bitmap /\ al = handle.alloc
  OBVIOUS
<1> HIDE DEF version
<1>11. /\ ws \in Seq(Writes) /\ Ordered(ws, "revoke") /\ K \in ToSet(ws)
       /\ \A w \in ToSet(ws) : \/ IsReseal(w, key) \/ IsRewrap(w, revoked, key) \/ w = K
                               \/ w.region \in {"chain", "header"}
       /\ \A i \in ListedSlots : \A b \in Own(i) :
            \E w \in ToSet(ws) : w.region = "block" /\ w.at = b
       /\ \A i \in (GrantedSlots \ {revoked}) \union {revoked} :
            \E w \in ToSet(ws) : w.region = "recipient" /\ w.at = i
  BY <1>2, <1>3, <1>4, <1>5, <1>7, <1>10, RevokeWritesAre
<1>12. /\ todo' = ws /\ Coming' = ToSet(ws) /\ doing' = [call |-> "revoke", name |-> NoName]
       /\ calls' = calls + 1 /\ faults' = faults /\ held' = held
       /\ cached' = cached /\ adminSlot' = adminSlot /\ bitmap' = bitmap /\ table' = table
       /\ keyring' = keyring /\ store' = store
  BY <1>1 DEF Begin, chainVars, fileVars, Coming
<1>13. handle'.key = key /\ handle'.alloc = al
  BY <1>1, <1>10 DEF ShapeInv, HandleShape
<1>14. Alloc' = al /\ Alloc = al /\ CurrentKey' = key
  BY <1>6, <1>10, <1>12, <1>13 DEF Alloc, CurrentKey
<1>15. /\ FilesStand(s, t, key, hurt)
       /\ Marked(s, t, key, hurt, bm) /\ Marked(s, t, key, hurt, al)
       /\ faults = 0 => hurt = {} /\ al = bm /\ bm = InUse(s, t, key)
  <2>1. /\ FilesStand(s, table, version, hurt)
        /\ Marked(s, table, version, hurt, bitmap) /\ Marked(s, table, version, hurt, Alloc)
        /\ faults = 0 => hurt = {} /\ Alloc = bitmap /\ bitmap = InUse(s, table, version)
    BY <1>2, <1>6, <1>7, <1>8, ResealedStand
  <2> QED BY <1>10, <1>14, <2>1
<1>16. WellGranted(keyring) /\ WellListed(t)
  BY <1>10 DEF ShapeInv, FileShape
<1>17. WellGranted(kr) /\ WrapsKey(kr, key)
  BY <1>2, <1>3, <1>9, <1>10, <1>16, RewrappedKeyring
<1>18. /\ \A q \in Peers : held[q] \subseteq 0 .. calls
       /\ EntriesApart(t)
       /\ KnownSoFar(t, handle.key)
  BY <1>6, <1>10 DEF Rests, Goal, KnownSoFar, FilesStand
<1>19. KnownSoFar(t, key)'
  <2>1. PICK k : k = handle.key
    OBVIOUS
  <2>2. KnownSoFar(t, k)'
    BY <1>12, <1>16, <1>18, <2>1, KnownLater
  <2>3. key \in 0 .. calls + 1
    BY <1>2, <1>10 DEF version
  <2> QED BY <1>12, <2>2, <2>3 DEF KnownSoFar
<1>20. GrantsHolders(kr, key)'
  <2>1. key = calls + 1
    BY <1>10 DEF version
  <2>2. ASSUME NEW q \in Peers PROVE key \notin held[q]
    BY <1>2, <1>18, <2>1
  <2> QED BY <1>12, <2>2 DEF GrantsHolders
<1>21. Goal(s, t, kr, key, bm, al)'
  BY <1>6, <1>12, <1>15, <1>17, <1>19, <1>20 DEF Goal
<1>22. LeadsStore(s)'
  <2>1. ASSUME NEW w \in ToSet(ws), w.region = "block" PROVE s[w.at] = w.value
    <3>1. IsReseal(w, key)
      BY <1>4, <1>11, <2>1 DEF IsRewrap
    <3>2. PICK i \in ListedSlots : w.at \in Own(i) /\ w.value = Sealed(key, table[i].id, store[w.at].body)
      BY <3>1 DEF IsReseal
    <3>3. store[w.at].id = table[i].id /\ Resealed(w.at)
      BY <1>7, <3>2 DEF AllReadable, Readable, Resealed
    <3>4. w.at \in Blocks
      BY <1>7, <3>2 DEF AllReadable, Readable
    <3> QED BY <1>8, <1>10, <3>2, <3>3, <3>4 DEF Reseals
  <2>2. ASSUME NEW b \in Blocks
        PROVE  s[b] = store[b] \/ \E w \in ToSet(ws) : w.region = "block" /\ w.at = b
    <3>1. CASE Resealed(b)
      BY <1>11, <3>1 DEF Resealed
    <3>2. CASE ~ Resealed(b)
      BY <1>8, <3>2 DEF Reseals
    <3> QED BY <3>1, <3>2
  <2> QED BY <1>12, <2>1, <2>2 DEF LeadsStore
<1>23. LeadsTable(t)'
  <2>1. \A w \in ToSet(ws) : w.region # "slot"
    BY <1>4, <1>11 DEF IsReseal, IsRewrap
  <2> QED BY <1>10, <1>12, <2>1 DEF LeadsTable
<1>24. LeadsKeyring(kr)'
  <2>1. ASSUME NEW w \in ToSet(ws), w.region = "recipient" PROVE kr[w.at] = w.value
    <3>1. IsRewrap(w, revoked, key)
      BY <1>4, <1>11, <2>1 DEF IsReseal
    <3> QED BY <1>9, <1>10, <3>1 DEF IsRewrap, Rewraps
  <2>2. ASSUME NEW i \in RecipientSlots
        PROVE  kr[i] = keyring[i] \/ \E w \in ToSet(ws) : w.region = "recipient" /\ w.at = i
    <3>1. CASE i \in GrantedSlots \/ i = revoked
      BY <1>11, <3>1
    <3>2. CASE i \notin GrantedSlots /\ i # revoked
      BY <1>9, <3>2 DEF Rewraps
    <3> QED BY <3>1, <3>2
  <2> QED BY <1>12, <2>1, <2>2 DEF LeadsKeyring
<1>25. Leads(s, t, kr, bm, al)'
  <2>1. \A w \in ToSet(ws) : w.region # "bitmap" /\ (w.region = "block" => w.bits = al)
    BY <1>4, <1>10, <1>11 DEF IsReseal, IsRewrap
  <2>2. LastBits(ws, {"bitmap"}, bm, bm) /\ LastBits(ws, {"block", "bitmap"}, al, al)
    BY <1>11, <2>1, LastBitsSame
  <2> QED BY <1>10, <1>11, <1>12, <1>14, <1>22, <1>23, <1>24, <2>2 DEF Leads
<1>26. KeysLead(key)'
  <2>1. \A w \in ToSet(ws) : w.region = "keyslot" => w.value.dek = key
    BY <1>4, <1>10, <1>11 DEF IsReseal, IsRewrap
  <2> QED BY <1>4, <1>11, <1>12, <1>14, <2>1 DEF KeysLead
<1>27. Target'
  <2>1. \A w \in ToSet(ws) : w.region # "slot"
    BY <1>4, <1>11 DEF IsReseal, IsRewrap
  <2> QED BY <1>12, <2>1 DEF Target, Calls
<1>28. Spares(s, t, key)'
  BY <1>12 DEF Spares
<1>29. KnownSoFar(table, key)'
  BY <1>10, <1>12, <1>19 DEF KnownSoFar
<1>30. "revoke" \in Calls /\ EntriesApart(table) /\ Begin("revoke", NoName, ws)
  BY <1>1, <1>10, <1>18 DEF Calls
<1> QED BY <1>11, <1>21, <1>25, <1>26, <1>27, <1>28, <1>29, <1>30, BeginWorks
-------------------------------------------------------------------------------
(***************************************************************************)
(* The invariant holds from the start, and every step keeps it.            *)
(***************************************************************************)
LEMMA RestsInvariantNext ==
  \A key : ShapeInv' /\ todo' = <<>> /\ Target' /\ Rests(key)' => CallInv'
<1>1. (\A key : ShapeInv /\ todo = <<>> /\ Target /\ Rests(key) => CallInv)'
  BY RestsInvariant, PTL
<1> QED BY <1>1

LEMMA IdleTarget == todo = <<>> /\ doing = NoCall => Target
  BY DEF Target, NoCall, Coming, ToSet

LEMMA InitCallInv == VaultInit => CallInv
<1> SUFFICES ASSUME VaultInit PROVE CallInv
  OBVIOUS
<1>1. ShapeInv
  BY InitShape
<1>2. /\ adminSlot = [password |-> AdminPassword, dek |-> 0]
      /\ bitmap = {} /\ \A i \in FileSlots : table[i] = NoEntry
      /\ \A i \in RecipientSlots : keyring[i] = NoRecipient
      /\ handle = [admin |-> TRUE, key |-> 0, alloc |-> {}, adminSlot |-> adminSlot]
      /\ doing = NoCall /\ todo = <<>> /\ calls = 0 /\ faults = 0
      /\ \A p \in Peers : held[p] = {}
      /\ hurt = {}
  BY DEF VaultInit
<1>3. \A i \in FileSlots : ~ table[i].listed
  BY <1>2 DEF NoEntry
<1>4. SoundIn(table, hurt) = {} /\ SoundIn(table, {}) = {}
  BY <1>3 DEF SoundIn
<1>5. FilesStand(store, table, 0, hurt)
  BY <1>1, <1>3, <1>4 DEF FilesStand, EntriesApart, ShapeInv, FileShape
<1>6. Alloc = {} /\ CurrentKey = 0
  BY <1>2 DEF Alloc, CurrentKey
<1>7. InUse(store, table, 0) = {}
  BY <1>4 DEF InUse
<1>8. WellGranted(keyring) /\ WrapsKey(keyring, 0) /\ GrantsHolders(keyring, 0)
  BY <1>1, <1>2 DEF ShapeInv, FileShape, WrapsKey, GrantsHolders, NoRecipient
<1>9. KnownSoFar(table, 0)
  BY <1>2, <1>3 DEF KnownSoFar
<1>10. Goal(store, table, keyring, 0, bitmap, Alloc)
  BY <1>2, <1>4, <1>5, <1>6, <1>7, <1>8, <1>9 DEF Goal, Marked
<1>11. Rests(0)
  BY <1>2, <1>6, <1>10 DEF Rests
<1> QED BY <1>1, <1>2, <1>11, IdleTarget, RestsInvariant

(* Opening, closing and draining the change log happen between calls.      *)
LEMMA QuietKeepsCallInv ==
  ASSUME ShapeInv, ShapeInv', WriterInv, CallInv, cached \in Handle, Undamaged',
         \/ \E password \in Passwords, admin \in BOOLEAN : Open(password, admin)
         \/ \E p \in Peers : OpenAsRecipient(p)
         \/ Close
         \/ TakeChangeLog
  PROVE  CallInv'
<1>1. todo = <<>> /\ UNCHANGED <<fileVars, callVars, faults, history>>
  <2>1. ASSUME NEW key, NEW admin, OpenWith(key, admin)
        PROVE  todo = <<>> /\ UNCHANGED <<fileVars, callVars, faults, history>>
    BY <2>1 DEF OpenWith, OpenChain, WriterInv
  <2>2. CASE Close \/ TakeChangeLog
    BY <2>2 DEF Close, TakeChangeLog, Idle
  <2>3. CASE \E password \in Passwords, admin \in BOOLEAN : Open(password, admin)
    BY <2>1, <2>3 DEF Open
  <2>4. CASE \E p \in Peers : OpenAsRecipient(p)
    BY <2>1, <2>4 DEF OpenAsRecipient
  <2> QED BY <2>2, <2>3, <2>4
<1>2. /\ todo' = <<>> /\ doing' = doing /\ Undamaged
  BY <1>1 DEF callVars, history, Undamaged
<1>3. PICK s, t, kr, key, bm, al : Working(s, t, kr, key, bm, al)
  BY <1>2 DEF CallInv
<1>4. Rests(key)
  <2>1. \A w \in Coming : w.region \in Appending
    BY <1>1 DEF Coming, ToSet
  <2> QED BY <1>3, <2>1, ReachesGoal
<1>5. Rests(key)'
  BY <1>4, OpenAndCloseRest
<1>6. Target'
  BY <1>2, <1>3 DEF Working, Target, Coming, ToSet
<1> QED BY <1>2, <1>5, <1>6, RestsInvariantNext

LEMMA FaultKeepsCallInv ==
  ASSUME ShapeInv, ShapeInv', WriterInv, CallInv, cached \in Handle, Undamaged', WriteFails \/ Crash
  PROVE  CallInv'
<1>1. /\ todo' = <<>> /\ doing' = NoCall /\ faults' = faults + 1
      /\ hurt' = hurt \union HurtByFault
  BY DEF WriteFails, Crash
<1>2. faults' # 0 /\ hurt' \subseteq Names
  BY <1>1, BoundsAssumption DEF ShapeInv, HistoryShape
<1>3. Undamaged
  BY <1>1, <1>2 DEF Undamaged
<1>4. PICK s, t, kr, key, bm, al : Working(s, t, kr, key, bm, al)
  BY <1>3 DEF CallInv
<1>5. Rests(key)'
  BY <1>4, FaultRests
<1>6. Target'
  <2>1. (todo = <<>> /\ doing = NoCall => Target)'
    BY IdleTarget, PTL
  <2> QED BY <1>1, <2>1
<1> QED BY <1>1, <1>5, <1>6, RestsInvariantNext

LEMMA WriteKeepsCallInv ==
  ASSUME ShapeInv, WriterInv, CallInv, cached \in Handle, Undamaged', Write
  PROVE  CallInv'
<1>1. faults' = faults /\ hurt' = hurt
  BY DEF Write, Advance
<1>2. Undamaged
  BY <1>1 DEF Undamaged
<1>3. PICK s, t, kr, key, bm, al : Working(s, t, kr, key, bm, al)
  BY <1>2 DEF CallInv
<1>4. Working(s, t, kr, key, bm, al)'
  BY <1>3, WriteKeepsWorking
<1> QED BY <1>4 DEF CallInv

LEMMA NextKeepsCallInv ==
  ASSUME ShapeInv, ShapeInv', CallsInv, WriterInv, HashChainTypeOK, CallInv, [VaultNext]_vaultVars
  PROVE  CallInv'
<1> SUFFICES ASSUME Undamaged' PROVE CallInv'
  BY DEF CallInv
<1>1. cached \in Handle
  BY DEF HashChainTypeOK
<1>2. CASE UNCHANGED vaultVars
  <2>1. /\ cached' = cached /\ adminSlot' = adminSlot /\ bitmap' = bitmap /\ table' = table
        /\ keyring' = keyring /\ store' = store /\ handle' = handle /\ doing' = doing
        /\ todo' = todo /\ calls' = calls /\ faults' = faults /\ held' = held /\ hurt' = hurt
    BY <1>2 DEF vaultVars, chainVars, fileVars, callVars, history
  <2>2. Undamaged
    BY <2>1 DEF Undamaged
  <2>3. PICK s, t, kr, key, bm, al : Working(s, t, kr, key, bm, al)
    BY <2>2 DEF CallInv
  <2>4. /\ Alloc' = Alloc /\ CurrentKey' = CurrentKey /\ Coming' = Coming
        /\ GrantsHolders(kr, key)' = GrantsHolders(kr, key)
        /\ KnownSoFar(t, key)' = KnownSoFar(t, key)
    BY <2>1 DEF Alloc, CurrentKey, Coming, GrantsHolders, KnownSoFar
  <2>5. Goal(s, t, kr, key, bm, al)'
    BY <2>1, <2>3, <2>4 DEF Working, Goal
  <2>6. Leads(s, t, kr, bm, al)'
    BY <2>1, <2>3, <2>4 DEF Working, Leads, LeadsStore, LeadsTable, LeadsKeyring
  <2>7. KeysLead(key)' /\ Target'
    BY <2>1, <2>3, <2>4 DEF Working, KeysLead, Target, GrantsHolders
  <2>8. Spares(s, t, key)'
    BY <2>1, <2>3, <2>4 DEF Working, Spares
  <2>9. (EntriesApart(table) /\ KnownSoFar(table, key))'
    BY <2>1, <2>3 DEF Working, KnownSoFar
  <2> QED BY <2>5, <2>6, <2>7, <2>8, <2>9 DEF Working, CallInv
<1>3. ASSUME NEW n \in Names, NEW size \in Sizes, AddFile(n, size) \/ UpdateFile(n, size)
      PROVE  CallInv'
  BY <1>3, AddFileWorks, UpdateFileWorks
<1>4. ASSUME NEW n \in Names, DeleteFile(n) PROVE CallInv'
  BY <1>4, DeleteFileWorks
<1>5. ASSUME NEW p \in Peers, GrantAccess(p) PROVE CallInv'
  BY <1>5, GrantAccessWorks
<1>6. ASSUME NEW p \in Peers, NEW password \in Passwords, RevokeAccess(p, password) PROVE CallInv'
  BY <1>6, RevokeAccessWorks
<1>7. CASE Write
  BY <1>1, <1>7, WriteKeepsCallInv
<1>8. CASE WriteFails \/ Crash
  BY <1>1, <1>8, FaultKeepsCallInv
<1>9. ASSUME NEW password \in Passwords, NEW admin \in BOOLEAN, Open(password, admin) PROVE CallInv'
  BY <1>1, <1>9, QuietKeepsCallInv
<1>10. ASSUME NEW p \in Peers, OpenAsRecipient(p) PROVE CallInv'
  BY <1>1, <1>10, QuietKeepsCallInv
<1>11. CASE Close \/ TakeChangeLog
  BY <1>1, <1>11, QuietKeepsCallInv
<1> QED
  BY <1>2, <1>3, <1>4, <1>5, <1>6, <1>7, <1>8, <1>9, <1>10, <1>11 DEF VaultNext

LEMMA CallInvHolds == VaultSpec => [](ShapeInv /\ CallsInv /\ WriterInv /\ HashChainTypeOK /\ CallInv)
<1>1. VaultSpec => []HashChainTypeOK
  BY VaultImplementsChain, ChainTypeCorrect, PTL
<1>2. VaultSpec => [](ShapeInv /\ CallsInv)
  BY ShapeHolds
<1>3. VaultSpec => []WriterInv
  BY InitWriterInv, NextWriterInv, PTL DEF VaultSpec
<1>4. VaultInit => CallInv
  BY InitCallInv
<1>5. ShapeInv /\ CallsInv /\ WriterInv /\ HashChainTypeOK /\ CallInv /\ ShapeInv'
        /\ [VaultNext]_vaultVars => CallInv'
  BY NextKeepsCallInv
<1> QED BY <1>1, <1>2, <1>3, <1>4, <1>5, PTL DEF VaultSpec
-------------------------------------------------------------------------------
(***************************************************************************)
(* What is promised of files and keys, from the invariant of a call.       *)
(***************************************************************************)
LEMMA SoundIfUndamaged ==
  ASSUME ShapeInv
  PROVE  /\ SoundSlots = SoundIn(table, hurt)
         /\ ~Undamaged => SoundSlots = {}
         /\ \A i \in SoundSlots : i \in FileSlots /\ table[i].listed
<1>1. SoundSlots = SoundIn(table, hurt)
  BY DEF SoundSlots, SoundIn, ListedSlots
<1>2. ASSUME ~Undamaged, NEW i \in SoundSlots PROVE FALSE
  <2>1. table[i].name \in Names
    BY <1>1, <1>2, ListedIs DEF SoundIn, ShapeInv, FileShape
  <2> QED BY <1>1, <1>2, <2>1 DEF Undamaged, SoundIn
<1> QED BY <1>1, <1>2 DEF SoundIn

(* A sound file of a vault at rest, under the one key that everybody has.  *)
LEMMA SoundAtRest ==
  ASSUME ShapeInv, NEW key, Rests(key), NEW i \in SoundSlots
  PROVE  /\ i \in SoundIn(table, hurt)
         /\ Legible(store, key, table[i]) /\ ReadsBack(store, key, table[i])
         /\ BlocksOf(table[i]) = StoredBy(store, key, table[i])
         /\ \A b \in BlocksOf(table[i]) : store[b].key = key
<1>1. i \in SoundIn(table, hurt) /\ i \in FileSlots /\ table[i].listed
  BY SoundIfUndamaged
<1>2. Legible(store, key, table[i])
  BY <1>1 DEF Rests, Goal, FilesStand
<1>3. table[i].direct \in Seq(Blocks) /\ table[i].overflow \in Blocks /\ table[i].size \in Nat
  BY <1>1, ListedIs DEF ShapeInv, FileShape
<1>4. ChainsAscend(store)
  BY WellStoredAscends DEF ShapeInv, FileShape
<1>5. ReadsBack(store, key, table[i])
  BY <1>2, <1>3, <1>4, LegibleReadsBack
<1>6. key = CurrentKey
  BY DEF Rests
<1>7. BlocksOf(table[i]) = StoredBy(store, key, table[i])
  BY <1>6 DEF BlocksOf, StoredBy
<1>8. \A b \in StoredBy(store, key, table[i]) : store[b].key = key
  BY <1>2 DEF Legible, Readable
<1> QED BY <1>1, <1>2, <1>5, <1>7, <1>8

LEMMA InvKeyholdersRead == ShapeInv /\ CallInv => KeyholdersReadAllFiles
<1> SUFFICES ASSUME ShapeInv, CallInv, AtRest, NEW k \in KeysWrapped \union {CurrentKey},
                    NEW i \in SoundSlots
             PROVE  ReadsBack(store, k, table[i])
  BY DEF KeyholdersReadAllFiles
<1>1. Undamaged
  BY SoundIfUndamaged
<1>2. PICK key : Rests(key)
  BY <1>1, InvariantRests DEF AtRest
<1>3. k = key
  <2>1. key = CurrentKey /\ adminSlot.dek = key /\ WrapsKey(keyring, key)
    BY <1>2 DEF Rests, Goal
  <2> QED BY <2>1 DEF KeysWrapped, GrantedSlots, WrapsKey
<1> QED BY <1>2, <1>3, SoundAtRest

(* Between calls, whoever holds a key reads every sound file back as it    *)
(* was last stored, whichever calls were made, in whatever order, and      *)
(* wherever some of them were cut off.                                     *)
THEOREM KeyholdersAlwaysRead == VaultSpec => []KeyholdersReadAllFiles
  BY CallInvHolds, InvKeyholdersRead, PTL

LEMMA InvEndlessWalksAreMisled == ShapeInv /\ CallInv => EndlessWalksAreMisled
<1> SUFFICES ASSUME ShapeInv, CallInv, AtRest, NEW k \in KeysWrapped \union {CurrentKey},
                    NEW i \in ListedSlots,
                    OverflowWalk(store, k, table[i].id, table[i].overflow).end = "never"
             PROVE  /\ table[i].name \in hurt
                    /\ Misled(store, OverflowWalk(store, k, table[i].id, table[i].overflow))
  BY DEF EndlessWalksAreMisled, Misled
<1>1. table[i].name \in hurt
  <2> SUFFICES ASSUME table[i].name \notin hurt PROVE FALSE
    OBVIOUS
  <2>1. i \in SoundSlots
    BY DEF SoundSlots
  <2>2. PICK key : Rests(key)
    BY <2>1, SoundIfUndamaged, InvariantRests DEF AtRest
  <2>3. k = key
    <3>1. key = CurrentKey /\ adminSlot.dek = key /\ WrapsKey(keyring, key)
      BY <2>2 DEF Rests, Goal
    <3> QED BY <3>1 DEF KeysWrapped, GrantedSlots, WrapsKey
  <2>4. CollectOk(store, k, table[i])
    BY <2>1, <2>2, <2>3, SoundAtRest DEF Legible
  <2> QED BY <2>4 DEF CollectOk
<1>2. WellStored(store) /\ table[i].overflow \in Blocks
  BY ListedEntries DEF ShapeInv, FileShape
<1>3. Misled(store, OverflowWalk(store, k, table[i].id, table[i].overflow))
  <2> DEFINE b == table[i].overflow
             id == table[i].id
  <2> SUFFICES ASSUME ~Misled(store, OverflowWalk(store, k, id, b)) PROVE FALSE
    OBVIOUS
  <2>1. b \in Nat /\ NumBlocks \in 0 .. NumBlocks /\ NumBlocks \in Nat
    BY <1>2, BlocksAreNumbers
  <2>2. OverflowWalk(store, k, id, b) = Walk(store, k, id, NumBlocks, b)
    BY WalkIsChosen
  <2> HIDE DEF b, id
  <2>3. b + NumBlocks < NumBlocks
    <3>1. /\ Walk(store, k, id, NumBlocks, b).end = "never"
          /\ ~Misled(store, Walk(store, k, id, NumBlocks, b))
      BY <2>2 DEF b, id
    <3> QED BY <1>2, <2>1, <3>1, EndlessWalksClimb
  <2> QED BY <2>1, <2>3
<1> QED BY <1>1, <1>3

(* Between calls, no walk along the overflow chain of a file goes round    *)
(* for ever, unless a fault hurt the file and the walk meets data that     *)
(* parses as an index block: whatever is stored, updated, revoked or cut   *)
(* off, the index blocks that old entries lead to still point upwards.     *)
THEOREM EndlessWalksAlwaysMisled == VaultSpec => []EndlessWalksAreMisled
  BY CallInvHolds, InvEndlessWalksAreMisled, PTL

LEMMA InvRevokedReadNothing == ShapeInv /\ CallInv => RevokedPeersReadNothing
<1> SUFFICES ASSUME ShapeInv, CallInv, AtRest, hurt # Names,
                    NEW p \in Peers, SlotsOfPeer(p) = {}
             PROVE  /\ CurrentKey \notin held[p]
                    /\ \A i \in SoundSlots : \A b \in BlocksOf(table[i]) : store[b].key \notin held[p]
  BY DEF RevokedPeersReadNothing
<1>1. PICK key : Rests(key)
  BY InvariantRests DEF AtRest, Undamaged
<1>2. key = CurrentKey /\ GrantsHolders(keyring, key)
  BY <1>1 DEF Rests, Goal
<1>3. key \notin held[p]
  <2>1. \A i \in RecipientSlots : keyring[i].peer # p
    BY NamesAssumption DEF SlotsOfPeer, GrantedSlots
  <2> QED BY <1>2, <2>1 DEF GrantsHolders
<1>4. \A i \in SoundSlots : \A b \in BlocksOf(table[i]) : store[b].key = key
  BY <1>1, SoundAtRest
<1> QED BY <1>2, <1>3, <1>4

(* Between calls, a peer that is not granted never holds the key in use,   *)
(* nor one that any block of a sound file is still encrypted under, though *)
(* every key it was ever given is remembered.                              *)
THEOREM RevokedNeverRead == VaultSpec => []RevokedPeersReadNothing
  BY CallInvHolds, InvRevokedReadNothing, PTL

LEMMA InvBlocksAccounted == ShapeInv /\ CallInv => BlocksAccountedFor
<1> DEFINE marked == IF cached.open THEN bitmap \intersect handle.alloc ELSE bitmap
           inUse == UNION {BlocksOf(table[i]) : i \in SoundSlots}
<1> SUFFICES ASSUME ShapeInv, CallInv, AtRest
             PROVE  /\ \A i \in SoundSlots : IsInjective(AllBlocks(store, CurrentKey, table[i]))
                    /\ \A i, j \in SoundSlots : i # j =>
                         BlocksOf(table[i]) \intersect BlocksOf(table[j]) = {}
                    /\ inUse \subseteq marked
                    /\ faults = 0 => bitmap = inUse /\ (cached.open => handle.alloc = inUse)
  BY DEF BlocksAccountedFor
<1>1. CASE ~Undamaged
  <2>1. SoundSlots = {} /\ faults # 0
    BY <1>1, SoundIfUndamaged DEF Undamaged
  <2> QED BY <2>1
<1>2. CASE Undamaged
  <2>1. PICK key : Rests(key)
    BY <1>2, InvariantRests DEF AtRest
  <2>2. /\ FilesStand(store, table, key, hurt)
        /\ Marked(store, table, key, hurt, bitmap) /\ Marked(store, table, key, hurt, Alloc)
        /\ faults = 0 => hurt = {} /\ Alloc = bitmap /\ bitmap = InUse(store, table, key)
        /\ key = CurrentKey
    BY <2>1 DEF Rests, Goal
  <2>3. \A i \in SoundSlots : /\ i \in SoundIn(table, hurt)
                              /\ Legible(store, key, table[i])
                              /\ BlocksOf(table[i]) = StoredBy(store, key, table[i])
    BY <2>1, SoundAtRest
  <2>4. \A i \in SoundSlots : IsInjective(AllBlocks(store, CurrentKey, table[i]))
    BY <2>2, <2>3 DEF Legible
  <2>5. \A i, j \in SoundSlots : i # j => BlocksOf(table[i]) \intersect BlocksOf(table[j]) = {}
    BY <2>2, <2>3 DEF FilesStand
  <2>6. \A i \in SoundSlots : BlocksOf(table[i]) \subseteq marked
    BY <2>2, <2>3 DEF Marked, Alloc
  <2>7. ASSUME faults = 0 PROVE bitmap = inUse /\ (cached.open => handle.alloc = inUse)
    <3>1. SoundSlots = SoundIn(table, {})
      BY <2>2, <2>7, SoundIfUndamaged
    <3>2. InUse(store, table, key) = inUse
      BY <2>3, <3>1 DEF InUse
    <3> QED BY <2>2, <2>7, <3>2 DEF Alloc
  <2> QED BY <2>4, <2>5, <2>6, <2>7
<1> QED BY <1>1, <1>2

(* Between calls, no block belongs to two sound files or twice to one, and *)
(* every block of one is marked in the file and in memory; as long as      *)
(* nothing failed, exactly the blocks in use are.                          *)
THEOREM BlocksAlwaysAccounted == VaultSpec => []BlocksAccountedFor
  BY CallInvHolds, InvBlocksAccounted, PTL

(* A vault at rest in which nothing was cut off passes its own check, the  *)
(* chain and every file.                                                   *)
THEOREM HealthyAlwaysVerifies == VaultSpec => []HealthyVaultVerifies
<1>1. ShapeInv /\ CallInv /\ VerifyFailsOnlyIfTorn => HealthyVaultVerifies
  <2> SUFFICES ASSUME ShapeInv, CallInv, VerifyFailsOnlyIfTorn, Idle,
                      Torn(cached) = {}, hurt = {}
               PROVE  VerifyIntegrity
    BY DEF HealthyVaultVerifies
  <2>1. VerifyChain(cached)
    BY DEF VerifyFailsOnlyIfTorn, Idle
  <2>2. KeyholdersReadAllFiles /\ AtRest /\ cached.open
    BY InvKeyholdersRead DEF Idle, AtRest
  <2>3. handle.key = CurrentKey /\ ListedSlots = SoundSlots
    BY <2>2 DEF CurrentKey, SoundSlots
  <2>4. \A i \in ListedSlots : ReadsBack(store, handle.key, table[i])
    BY <2>2, <2>3 DEF KeyholdersReadAllFiles
  <2> QED BY <2>1, <2>4 DEF VerifyIntegrity
<1> QED BY <1>1, CallInvHolds, VaultVerifiesUnlessTorn, PTL

-------------------------------------------------------------------------------
(* Only the calls on one file have a name.                                 *)
NamedInv == doing.call \notin {"add", "update", "delete"} => doing.name = NoName

LEMMA NamedHolds == VaultSpec => []NamedInv
<1>1. VaultInit => NamedInv
  BY DEF VaultInit, NamedInv, NoCall
<1>2. NamedInv /\ [VaultNext]_vaultVars => NamedInv'
  <2> SUFFICES ASSUME NamedInv, [VaultNext]_vaultVars PROVE NamedInv'
    OBVIOUS
  <2>1. CASE UNCHANGED doing
    BY <2>1 DEF NamedInv
  <2>2. CASE doing' = NoCall
    BY <2>2 DEF NamedInv, NoCall
  <2>3. ASSUME NEW n \in Names, NEW size \in Sizes, AddFile(n, size) \/ UpdateFile(n, size)
        PROVE NamedInv'
    BY <2>3 DEF AddFile, UpdateFile, Begin, NamedInv
  <2>4. ASSUME NEW n \in Names, DeleteFile(n) PROVE NamedInv'
    BY <2>4 DEF DeleteFile, Begin, NamedInv
  <2>5. ASSUME NEW p \in Peers, GrantAccess(p) PROVE NamedInv'
    BY <2>5 DEF GrantAccess, Begin, NamedInv
  <2>6. ASSUME NEW p \in Peers, NEW password \in Passwords, RevokeAccess(p, password)
        PROVE NamedInv'
    BY <2>6 DEF RevokeAccess, Begin, NamedInv
  <2>7. Write \/ WriteFails \/ Crash => doing' = NoCall \/ UNCHANGED doing
    BY DEF Write, Advance, WriteFails, Crash
  <2>8. UNCHANGED vaultVars \/ Close \/ TakeChangeLog => UNCHANGED doing
    BY DEF vaultVars, callVars, Close, TakeChangeLog
  <2>9. \A key, admin : OpenWith(key, admin) => UNCHANGED doing
    BY DEF OpenWith, callVars
  <2> QED
    BY <2>1, <2>2, <2>3, <2>4, <2>5, <2>6, <2>7, <2>8, <2>9 DEF VaultNext, Open, OpenAsRecipient
<1> QED BY <1>1, <1>2, PTL DEF VaultSpec

(* A step that is not a write leaves the table and the blocks alone.       *)
LEMMA OnlyWritesWrite ==
  ASSUME [VaultNext]_vaultVars, ~Write PROVE table' = table /\ store' = store
<1>1. \A call, name, writes : Begin(call, name, writes) => table' = table /\ store' = store
  BY DEF Begin, fileVars
<1>2. \A n \in Names, size \in Sizes : AddFile(n, size) \/ UpdateFile(n, size)
        => table' = table /\ store' = store
  BY <1>1 DEF AddFile, UpdateFile
<1>3. \A n \in Names : DeleteFile(n) => table' = table /\ store' = store
  BY <1>1 DEF DeleteFile
<1>4. \A p \in Peers : GrantAccess(p) => table' = table /\ store' = store
  BY <1>1 DEF GrantAccess
<1>5. \A p \in Peers, password \in Passwords : RevokeAccess(p, password)
        => table' = table /\ store' = store
  BY <1>1 DEF RevokeAccess
<1>6. UNCHANGED vaultVars \/ WriteFails \/ Crash \/ Close \/ TakeChangeLog
        => table' = table /\ store' = store
  BY DEF vaultVars, fileVars, WriteFails, Crash, Close, TakeChangeLog
<1>7. \A key, admin : OpenWith(key, admin) => table' = table /\ store' = store
  BY DEF OpenWith, fileVars
<1> QED
  BY <1>2, <1>3, <1>4, <1>5, <1>6, <1>7 DEF VaultNext, Open, OpenAsRecipient

LEMMA WriteSparesOthers ==
  ASSUME ShapeInv, WriterInv, cached \in Handle, CallInv, NamedInv, Write,
         doing.name # NoName, NEW i \in SoundSlots, table[i].name # doing.name
  PROVE  /\ table'[i] = table[i]
         /\ \A b \in BlocksOf(table[i]) : store'[b] = store[b]
<1>1. Undamaged /\ i \in SoundIn(table, hurt) /\ i \in FileSlots /\ table[i].listed
  BY SoundIfUndamaged
<1>2. PICK s, t, kr, key, bm, al : Working(s, t, kr, key, bm, al)
  BY <1>1 DEF CallInv
<1>3. doing.call # "revoke"
  BY DEF NamedInv
<1>4. /\ t[i] = table[i] /\ i \in SoundIn(t, hurt)
      /\ StoredBy(store, key, table[i]) = StoredBy(s, key, t[i])
  BY <1>1, <1>2, <1>3, OthersStand
<1>5. BlocksOf(table[i]) = StoredBy(s, key, t[i])
  BY <1>2, <1>4 DEF BlocksOf, StoredBy, Working, KeysLead
<1> DEFINE w == Head(todo)
<1>6. /\ w \in Coming
      /\ store' = IF w.region = "block" THEN [store EXCEPT ![w.at] = w.value] ELSE store
      /\ table' = IF w.region = "slot" THEN [table EXCEPT ![w.at] = w.value] ELSE table
  BY WriteEffects
<1> HIDE DEF w
<1>7. w.region = "slot" => w.at # i
  BY <1>1, <1>2, <1>6 DEF Working, Target
<1>8. w.region = "block" => w.at \notin StoredBy(s, key, t[i])
  BY <1>2, <1>3, <1>4, <1>6 DEF Working, Spares
<1>9. table'[i] = table[i]
  BY <1>6, <1>7
<1>10. \A b \in StoredBy(s, key, t[i]) : store'[b] = store[b]
  BY <1>6, <1>8
<1> QED BY <1>5, <1>9, <1>10

(* No write of a call on one file ever changes the table entry or a block  *)
(* of another, of all that no fault has hurt.                              *)
THEOREM OtherFilesStayUntouched == VaultSpec => OtherFilesUntouched
<1>1. ShapeInv /\ WriterInv /\ HashChainTypeOK /\ CallInv /\ NamedInv /\ [VaultNext]_vaultVars
        => [doing.name # NoName => SpareOtherFiles(SoundSlots)]_vaultVars
  <2> SUFFICES ASSUME ShapeInv, WriterInv, HashChainTypeOK, CallInv, NamedInv,
                      [VaultNext]_vaultVars, doing.name # NoName,
                      NEW i \in SoundSlots, table[i].name # doing.name
               PROVE  /\ table'[i] = table[i]
                      /\ \A b \in BlocksOf(table[i]) : store'[b] = store[b]
    BY DEF SpareOtherFiles
  <2>1. CASE Write
    <3>1. cached \in Handle
      BY DEF HashChainTypeOK
    <3> QED BY <2>1, <3>1, WriteSparesOthers
  <2>2. CASE ~Write
    BY <2>2, OnlyWritesWrite
  <2> QED BY <2>1, <2>2
<1> QED BY <1>1, CallInvHolds, NamedHolds, PTL DEF VaultSpec, OtherFilesUntouched
-------------------------------------------------------------------------------
(***************************************************************************)
(* The promise.  What a user sees can be read off the file table, the      *)
(* keyring and the files hurt: the files that anybody can look at can be   *)
(* read, with any key that is wrapped.                                     *)
(***************************************************************************)
Shown(n) ==
  IF n \in hurt THEN LostFile
  ELSE IF SlotsNamed(n) = {} THEN 0
  ELSE table[SlotByName(n)].version
Listing == [n \in Names |-> Shown(n)]
Readers == IF hurt = Names THEN {} ELSE {p \in Peers : SlotsOfPeer(p) # {}}
Files == [n \in Names |-> VisibleFile(n)]
Risk == HurtByFault \ hurt

LEMMA PendingIs ==
  ASSUME ShapeInv
  PROVE  Pending <=> \E w \in Coming : TakesEffect(w)
<1>1. todo \in Seq(Writes) /\ DOMAIN todo = 1 .. Len(todo)
  BY DEF ShapeInv, CallShape
<1> QED BY <1>1 DEF Pending, Coming, ToSet

(* A file that anybody can look at reads back.                             *)
LEMMA SeenReadsBack ==
  ASSUME ShapeInv, CallInv, NamedInv, NEW n \in Names, n \notin hurt, SlotsNamed(n) # {},
         doing.call # "revoke", ~ (Pending /\ doing.name = n),
         NEW k \in KeysWrapped \union {CurrentKey}
  PROVE  ReadsBack(store, k, table[SlotByName(n)])
<1>1. Undamaged
  BY DEF Undamaged
<1>2. PICK s, t, kr, key, bm, al : Working(s, t, kr, key, bm, al)
  BY <1>1 DEF CallInv
<1>3. PICK i : i = SlotByName(n)
  OBVIOUS
<1>4. i \in SoundIn(table, hurt) /\ i \in FileSlots /\ table[i].listed /\ table[i].name = n
  BY <1>3, SlotByNameIs DEF SlotsNamed, ListedSlots, SoundIn
<1>5. /\ table[i].direct \in Seq(Blocks) /\ table[i].overflow \in Blocks /\ table[i].size \in Nat
      /\ ChainsAscend(store)
  BY <1>4, ListedIs, WellStoredAscends DEF ShapeInv, FileShape
<1>6. Legible(store, key, table[i])
  <2>1. CASE doing.name # n
    <3>1. table[i].name # doing.name
      BY <1>4, <2>1
    <3> QED BY <1>2, <1>4, <3>1, OthersStand
  <2>2. CASE doing.name = n
    <3>1. doing.call \in FileCalls
      BY <2>2, NamesAssumption DEF NamedInv, FileCalls
    <3>2. Ordered(todo, doing.call) /\ Decisive(doing.call) = "slot"
      BY <1>2, <3>1 DEF Working, Leads, Decisive, FileCalls
    <3>3. \A k1 \in 1 .. Len(todo) : todo[k1].region # "slot"
      BY <2>2 DEF Pending, TakesEffect
    <3>4. \A w \in Coming : w.region \in Appending
      BY <3>2, <3>3, StillToDecide
    <3>5. Rests(key)
      BY <1>2, <3>4, ReachesGoal
    <3> QED BY <1>4, <3>5 DEF Rests, Goal, FilesStand
  <2> QED BY <2>1, <2>2
<1>7. k = key
  <2>1. \A w \in Coming : w.region # "keyslot"
    <3>1. PICK c : c = doing.call
      OBVIOUS
    <3>2. Ordered(todo, c) /\ c # "revoke"
      BY <1>2, <3>1 DEF Working, Leads
    <3>3. \A w \in Coming : w.region \in Appending \union {Decisive(c)} \union Preparing(c)
      BY <3>2, StillToDecide
    <3> QED BY <3>2, <3>3 DEF Decisive, Preparing, Appending
  <2>2. key = CurrentKey /\ adminSlot.dek = key /\ WrapsKey(keyring, key)
    BY <1>2, <2>1 DEF Working, KeysLead
  <2> QED BY <2>2 DEF KeysWrapped, GrantedSlots, WrapsKey
<1> QED BY <1>3, <1>5, <1>6, <1>7, LegibleReadsBack

LEMMA FilesSeen ==
  ASSUME ShapeInv, CallInv, NamedInv PROVE Files = Listing
<1> SUFFICES ASSUME NEW n \in Names PROVE VisibleFile(n) = Shown(n)
  BY DEF Files, Listing
<1>1. CASE n \in hurt \/ SlotsNamed(n) = {}
  BY <1>1 DEF VisibleFile, Shown
<1>2. CASE ~ (n \in hurt \/ SlotsNamed(n) = {})
  <2> DEFINE readable == \A key \in KeysWrapped \union {CurrentKey} :
                            ReadsBack(store, key, table[SlotByName(n)])
  <2>1. doing.call = "revoke" \/ (Pending /\ doing.name = n) \/ readable
    BY <1>2, SeenReadsBack
  <2> QED BY <1>2, <2>1 DEF VisibleFile, Shown
<1> QED BY <1>1, <1>2

LEMMA ReadersSeen ==
  ASSUME ShapeInv, CallInv PROVE VisibleReaders = Readers
<1>1. CASE hurt = Names
  BY <1>1 DEF VisibleReaders, Readers
<1>2. CASE hurt # Names
  <2>1. PICK s, t, kr, key, bm, al : Working(s, t, kr, key, bm, al)
    BY <1>2 DEF CallInv, Undamaged
  <2>2. doing.call # "revoke" => \A i \in GrantedSlots : keyring[i].dek = CurrentKey
    BY <2>1 DEF Working, KeysLead, WrapsKey, GrantedSlots
  <2> QED BY <1>2, <2>2 DEF VisibleReaders, Readers, SlotsOfPeer
<1> QED BY <1>1, <1>2

Seen == Files = Listing /\ VisibleReaders = Readers
Keeps == [Promise!PromiseNext]_(Promise!promiseVars)

LEMMA InvSeen == ShapeInv /\ CallInv /\ NamedInv => Seen
  BY FilesSeen, ReadersSeen DEF Seen

(* What is lost is what is hurt: no file is shown with the mark of a lost  *)
(* one or, if it has an entry, as absent.                                  *)
LEMMA ShownVersions ==
  ASSUME ShapeInv, NEW n \in Names, n \notin hurt, SlotsNamed(n) # {}
  PROVE  Shown(n) \in Nat \ {0} /\ Shown(n) = table[SlotByName(n)].version
<1>1. PICK i \in FileSlots : i = SlotByName(n) /\ table[i].listed
  BY SlotByNameIs DEF ListedSlots
<1>2. table[i].version \in Nat \ {0}
  BY <1>1, ListedIs, BoundsAssumption DEF ShapeInv, FileShape, Entry, Ids
<1> QED BY <1>1, <1>2 DEF Shown

LEMMA LostIsHurt ==
  ASSUME ShapeInv PROVE {n \in Names : Listing[n] = -2} = hurt
<1>1. hurt \subseteq Names
  BY DEF ShapeInv, HistoryShape
<1>2. ASSUME NEW n \in Names PROVE Listing[n] = -2 <=> n \in hurt
  <2>1. Listing[n] = Shown(n)
    BY DEF Listing
  <2>2. CASE n \in hurt
    BY <2>1, <2>2 DEF Shown, LostFile
  <2>3. CASE n \notin hurt /\ SlotsNamed(n) = {}
    BY <2>1, <2>3 DEF Shown
  <2>4. CASE n \notin hurt /\ SlotsNamed(n) # {}
    BY <2>1, <2>4, ShownVersions
  <2> QED BY <2>2, <2>3, <2>4
<1> QED BY <1>1, <1>2

LEMMA SameTable ==
  ASSUME table' = table
  PROVE  \A n : SlotsNamed(n)' = SlotsNamed(n) /\ SlotByName(n)' = SlotByName(n)
  BY DEF SlotsNamed, SlotByName, ListedSlots

LEMMA SameKeyring ==
  ASSUME keyring' = keyring
  PROVE  \A p : SlotsOfPeer(p)' = SlotsOfPeer(p)
  BY DEF SlotsOfPeer, GrantedSlots

LEMMA HurtingLoses ==
  ASSUME table' = table, keyring' = keyring, hurt \subseteq hurt', hurt' \subseteq Names
  PROVE  /\ Listing' = [n \in Names |-> IF n \in hurt' \ hurt THEN -2 ELSE Listing[n]]
         /\ Readers' = IF hurt' = Names THEN {} ELSE Readers
<1>1. ASSUME NEW n \in Names PROVE Shown(n)' = IF n \in hurt' \ hurt THEN -2 ELSE Listing[n]
  <2>1. Listing[n] = Shown(n)
    BY DEF Listing
  <2>2. SlotsNamed(n)' = SlotsNamed(n) /\ SlotByName(n)' = SlotByName(n)
    BY SameTable
  <2> QED BY <2>1, <2>2 DEF Shown, LostFile
<1>2. Listing' = [n \in Names |-> IF n \in hurt' \ hurt THEN -2 ELSE Listing[n]]
  BY <1>1 DEF Listing
<1>3. Readers' = IF hurt' = Names THEN {} ELSE Readers
  BY SameKeyring DEF Readers
<1> QED BY <1>2, <1>3

(* A step that hurts what was at risk, and ends what was pending.          *)
LEMMA GivingUpKeeps ==
  ASSUME ShapeInv, ShapeInv', Seen, Seen', table' = table, keyring' = keyring, calls' = calls,
         hurt' = hurt \union Risk, ~Pending', Risk' = {}
  PROVE  Keeps
<1>1. hurt' \subseteq Names /\ hurt' \ hurt = Risk /\ hurt \subseteq hurt'
  BY DEF ShapeInv, HistoryShape, Risk
<1>2. /\ Files' = [n \in Names |-> IF n \in Risk THEN -2 ELSE Files[n]]
      /\ VisibleReaders' = IF hurt' = Names THEN {} ELSE VisibleReaders
  BY <1>1, HurtingLoses DEF Seen
<1>3. {n \in Names : Files[n] = -2} = hurt
  BY LostIsHurt DEF Seen
<1>4. VisibleReaders' = IF Risk \union {n \in Names : Files[n] = -2} = Names THEN {} ELSE VisibleReaders
  BY <1>2, <1>3
<1>5. CASE Pending \/ Risk # {}
  <2>1. Pending' = FALSE
    BY DEF Pending
  <2>2. Promise!GiveUp
    BY <1>2, <1>4, <1>5, <2>1
      DEF Promise!GiveUp, Promise!Lose, Promise!LostFiles, Promise!Lost, Files, Risk
  <2> QED BY <2>2 DEF Keeps, Promise!PromiseNext
<1>6. CASE ~ (Pending \/ Risk # {})
  <2>1. Pending' = Pending
    BY <1>6 DEF Pending
  <2>2. Files' = Files
    BY <1>2, <1>6 DEF Files
  <2>3. VisibleReaders' = VisibleReaders
    <3>1. hurt' = hurt
      BY <1>6
    <3> QED BY <1>2, <3>1 DEF Seen, Readers
  <2>4. Risk' = Risk
    BY <1>6
  <2> QED BY <2>1, <2>2, <2>3, <2>4 DEF Keeps, Promise!promiseVars, Files, Risk
<1> QED BY <1>5, <1>6

(* A step that nobody sees.                                                *)
LEMMA StutterKeeps ==
  ASSUME Seen, Seen', table' = table, keyring' = keyring, calls' = calls, hurt' = hurt,
         hurt \subseteq Names, Pending' = Pending, Risk' = Risk
  PROVE  Keeps
<1>1. Listing' = [n \in Names |-> Listing[n]] /\ Readers' = Readers
  BY HurtingLoses DEF Readers
<1>2. Files' = Files /\ VisibleReaders' = VisibleReaders
  BY <1>1 DEF Seen, Listing
<1> QED BY <1>2 DEF Keeps, Promise!promiseVars, Files, Risk

LEMMA NothingAtRisk ==
  ASSUME todo = <<>> PROVE ~Pending /\ HurtByFault = {}
<1>1. ~ \E k \in 1 .. Len(todo) : TRUE
  OBVIOUS
<1> QED BY <1>1 DEF Pending, HurtByFault

(* A call begins: it puts at risk what the promise allows for it.          *)
LEMMA BeginKeeps ==
  ASSUME ShapeInv, ShapeInv', CallsInv, Seen, Seen', CanMutate, NEW call, NEW name, NEW ws,
         Begin(call, name, ws),
         call \in {"update", "delete"} => name \in Names /\ SlotsNamed(name) # {},
         call = "revoke" => \E p \in Peers : SlotsOfPeer(p) # {}
  PROVE  Keeps
<1>1. /\ todo = <<>> /\ table' = table /\ keyring' = keyring /\ calls' = calls + 1
      /\ hurt' = (IF call \in {"update", "delete"} /\ name \in hurt THEN Names ELSE hurt)
      /\ doing'.call = call /\ doing'.name = name
  BY DEF CanMutate, Idle, Begin, fileVars
<1>2. hurt \subseteq Names /\ hurt' \subseteq Names /\ hurt \subseteq hurt'
  BY <1>1 DEF ShapeInv, HistoryShape
<1>3. ~Pending /\ Risk = {}
  BY <1>1, NothingAtRisk DEF Risk
<1>4. Pending' \in BOOLEAN
  BY DEF Pending
<1>5. {n \in Names : Files[n] = -2} = hurt
  BY LostIsHurt DEF Seen
<1>6. /\ Files' = [n \in Names |-> IF n \in hurt' \ hurt THEN -2 ELSE Files[n]]
      /\ VisibleReaders' = IF hurt' = Names THEN {} ELSE VisibleReaders
  BY <1>1, <1>2, HurtingLoses DEF Seen
<1>7. Files' = [n \in Names |-> IF n \in hurt' THEN -2 ELSE Files[n]]
  BY <1>5, <1>6
<1>8. HurtByFault' = {} \/ (call \in {"update", "delete"} /\ HurtByFault' = {name})
                       \/ (call = "revoke" /\ HurtByFault' = Names)
  BY <1>1 DEF HurtByFault
<1>9. \/ Risk' = {}
      \/ \E n \in Names \ hurt : Files[n] # 0 /\ Risk' = {n}
      \/ VisibleReaders # {} /\ Risk' = Names \ hurt
  <2>1. CASE HurtByFault' = {}
    BY <2>1 DEF Risk
  <2>2. CASE call \in {"update", "delete"} /\ HurtByFault' = {name} /\ name \in hurt
    BY <1>1, <2>2 DEF Risk
  <2>3. CASE call \in {"update", "delete"} /\ HurtByFault' = {name} /\ name \notin hurt
    <3>1. Files[name] = Shown(name) /\ Shown(name) \in Nat \ {0}
      BY <2>3, ShownVersions DEF Seen, Listing
    <3> QED BY <1>1, <2>3, <3>1 DEF Risk
  <2>4. CASE call = "revoke" /\ HurtByFault' = Names /\ hurt = Names
    BY <1>1, <2>4 DEF Risk
  <2>5. CASE call = "revoke" /\ HurtByFault' = Names /\ hurt # Names
    <3>1. VisibleReaders # {}
      BY <2>5 DEF Seen, Readers
    <3> QED BY <1>1, <2>5, <3>1 DEF Risk
  <2> QED BY <1>8, <2>1, <2>2, <2>3, <2>4, <2>5
<1>10. \/ hurt' = hurt
       \/ hurt # {} /\ hurt' = Names
  BY <1>1
<1>11. ASSUME hurt' = hurt PROVE Promise!Lose({})
  <2>1. Files' = [n \in Names |-> IF n \in {} THEN -2 ELSE Files[n]]
    BY <1>6, <1>11
  <2>2. VisibleReaders' = IF {} \union {n \in Names : Files[n] = -2} = Names THEN {} ELSE VisibleReaders
    BY <1>5, <1>6, <1>11
  <2> QED BY <2>1, <2>2 DEF Promise!Lose, Promise!LostFiles, Promise!Lost, Files
<1>12. ASSUME hurt # {}, hurt' = Names PROVE Promise!LostFiles # {} /\ Promise!Lose(Names)
  <2>1. Files' = [n \in Names |-> IF n \in Names THEN -2 ELSE Files[n]]
    BY <1>7, <1>12
  <2>2. VisibleReaders' = IF Names \union {n \in Names : Files[n] = -2} = Names THEN {} ELSE VisibleReaders
    BY <1>2, <1>5, <1>6, <1>12
  <2> QED BY <1>5, <1>12, <2>1, <2>2 DEF Promise!Lose, Promise!LostFiles, Promise!Lost, Files
<1>13. \/ Promise!Lose({})
       \/ Promise!LostFiles # {} /\ Promise!Lose(Names)
  BY <1>10, <1>11, <1>12
<1>14. Promise!LostFiles = hurt
  BY <1>5 DEF Promise!LostFiles, Promise!Lost, Files
<1>15. Promise!BeginCall
  BY <1>1, <1>3, <1>4, <1>9, <1>13, <1>14 DEF Promise!BeginCall, Promise!Absent, Files, Risk
<1> QED BY <1>15 DEF Keeps, Promise!PromiseNext

(* What a call is still going to write, and what it may assume of the      *)
(* table and the keyring until then.                                       *)
StoresEntry(w) ==
  /\ doing.call \in {"add", "update"} =>
       w.value.listed /\ w.value.name = doing.name /\ w.value.version = calls
  /\ doing.call = "delete" => ~ w.value.listed
  /\ doing.call \in {"update", "delete"} => table[w.at].listed
WritesSlot(w) ==
  /\ doing.call = "grant" =>
       /\ keyring[w.at].peer = NoPeer /\ w.value.peer \in Peers
       /\ \A i \in RecipientSlots : keyring[i].peer # w.value.peer
  /\ doing.call = "revoke" =>
       /\ keyring[w.at].peer # NoPeer
       /\ w.value = NoRecipient \/ w.value.peer = keyring[w.at].peer
(* A revocation empties one slot, and no other write to the keyring is     *)
(* before it or to the same slot after it.                                 *)
DropsFirst(ws) ==
  \A k, l \in 1 .. Len(ws) :
    k < l /\ ws[k].region = "recipient" /\ ws[l].region = "recipient" =>
      /\ ws[l].value # NoRecipient
      /\ ws[k].value = NoRecipient => ws[l].at # ws[k].at
PeersApart ==
  \A i, j \in GrantedSlots : keyring[i].peer = keyring[j].peer => i = j
PromiseInv ==
  hurt # Names =>
    /\ PeersApart
    /\ \A n \in hurt : SlotsNamed(n) # {}
    /\ doing.call \in FileCalls => doing.name \notin hurt
    /\ \A w \in Coming : w.region = "slot" => StoresEntry(w)
    /\ \A w \in Coming : w.region = "recipient" => WritesSlot(w)
    /\ doing.call = "revoke" => DropsFirst(todo)

(* The three phases of a call, seen from its next write.                   *)
LEMMA OrderedHead ==
  ASSUME NEW call, NEW ws \in Seq(Writes), ws # <<>>, Ordered(ws, call)
  PROVE  \/ /\ Head(ws).region \in Appending \union {Decisive(call)}
            /\ \A w \in ToSet(Tail(ws)) : w.region \in Appending
         \/ /\ Head(ws).region \in Preparing(call)
            /\ \E w \in ToSet(Tail(ws)) : w.region = Decisive(call)
<1>1. /\ Len(ws) \in Nat /\ Len(ws) >= 1 /\ Head(ws) = ws[1]
      /\ Tail(ws) \in Seq(Writes) /\ Len(Tail(ws)) = Len(ws) - 1
      /\ \A k \in 1 .. Len(ws) - 1 : Tail(ws)[k] = ws[k + 1]
  BY HeadAndTail
<1>2. PICK m \in 0 .. Len(ws) :
        /\ \A k \in 1 .. Len(ws) : k > m => ws[k].region \in Appending
        /\ \A k \in 1 .. Len(ws) : k = m => ws[k].region = Decisive(call)
        /\ \A k \in 1 .. Len(ws) : k < m => ws[k].region \in Preparing(call)
  BY DEF Ordered
<1>3. ToSet(Tail(ws)) = {Tail(ws)[k] : k \in 1 .. Len(ws) - 1}
  <2> DEFINE tail == Tail(ws)
  <2>1. tail \in Seq(Writes) /\ Len(tail) = Len(ws) - 1
    BY <1>1
  <2> HIDE DEF tail
  <2>2. DOMAIN tail = 1 .. Len(ws) - 1
    BY <2>1
  <2>3. ToSet(tail) = {tail[k] : k \in 1 .. Len(ws) - 1}
    BY <2>2 DEF ToSet
  <2> QED BY <2>3 DEF tail
<1>4. CASE m <= 1
  <2>1. ws[1].region \in Appending \union {Decisive(call)}
    BY <1>1, <1>2, <1>4
  <2>2. ASSUME NEW k \in 1 .. Len(ws) - 1 PROVE Tail(ws)[k].region \in Appending
    <3>1. k + 1 \in 1 .. Len(ws) /\ k + 1 > m /\ Tail(ws)[k] = ws[k + 1]
      BY <1>1, <1>4
    <3> QED BY <1>2, <3>1
  <2> QED BY <1>1, <1>3, <2>1, <2>2
<1>5. CASE m > 1
  <2>1. ws[1].region \in Preparing(call)
    BY <1>1, <1>2, <1>5
  <2>2. m - 1 \in 1 .. Len(ws) - 1 /\ (m - 1) + 1 = m /\ m \in 1 .. Len(ws)
    BY <1>1, <1>5
  <2>3. Tail(ws)[m - 1] = ws[m]
    BY <1>1, <2>2
  <2>4. ws[m].region = Decisive(call)
    BY <1>2, <2>2
  <2> QED BY <1>1, <1>3, <2>1, <2>2, <2>3, <2>4
<1> QED BY <1>4, <1>5

LEMMA PendingIff == ShapeInv => (Pending <=> \E x \in Coming : TakesEffect(x))
  BY PendingIs

(* What a write does to what is pending and at risk.                       *)
LEMMA WriteSettles ==
  ASSUME ShapeInv, ShapeInv', WriterInv, cached \in Handle, Write
  PROVE  LET w == Head(todo) IN
         /\ TakesEffect(w) => Pending
         /\ Pending' => Pending
         /\ ~ TakesEffect(w) => Pending' = Pending
         /\ ~ TakesEffect(w) /\ w.region # "keyslot" => HurtByFault' = HurtByFault
<1> DEFINE w == Head(todo)
<1>1. /\ Coming = {w} \union Coming'
      /\ doing' = doing \/ (doing' = NoCall /\ todo' = <<>>)
  BY WriteEffects
<1> HIDE DEF w
<1>2. Pending <=> \E x \in Coming : TakesEffect(x)
  BY PendingIs
<1>3. Pending' <=> \E x \in Coming' : TakesEffect(x)'
  <2>1. (ShapeInv => (Pending <=> \E x \in Coming : TakesEffect(x)))'
    BY PendingIff, PTL
  <2> QED BY <2>1
<1>4. todo' = <<>> => Coming' = {}
  BY DEF Coming, ToSet
<1>5. doing' = doing => \A x : TakesEffect(x)' = TakesEffect(x)
  BY DEF TakesEffect
<1>6. /\ TakesEffect(w) => Pending
      /\ Pending' => Pending
      /\ ~ TakesEffect(w) => (Pending' <=> Pending)
  BY <1>1, <1>2, <1>3, <1>4, <1>5
<1>7. ASSUME ~ TakesEffect(w), w.region # "keyslot" PROVE HurtByFault' = HurtByFault
  <2> DEFINE Ahead == \E k \in 1 .. Len(todo) : todo[k].region = "keyslot"
  <2>1. Ahead <=> \E x \in Coming : x.region = "keyslot"
    BY DEF Coming, ToSet, ShapeInv, CallShape
  <2>2. Ahead' <=> \E x \in Coming' : x.region = "keyslot"
    BY DEF Coming, ToSet, ShapeInv, CallShape
  <2>3. Ahead' <=> Ahead
    BY <1>1, <1>7, <2>1, <2>2
  <2>4. Pending' <=> Pending
    BY <1>6, <1>7
  <2>5. CASE doing' = doing
    BY <2>3, <2>4, <2>5 DEF HurtByFault
  <2>6. CASE doing' = NoCall /\ todo' = <<>>
    <3>1. ~ Ahead' /\ ~ Pending'
      BY <1>3, <1>4, <2>2, <2>6
    <3>2. HurtByFault' = {}
      BY <2>6 DEF HurtByFault, NoCall
    <3>3. HurtByFault = {}
      BY <2>3, <2>4, <3>1 DEF HurtByFault
    <3> QED BY <3>2, <3>3
  <2> QED BY <1>1, <2>5, <2>6
<1>8. Pending \in BOOLEAN /\ Pending' \in BOOLEAN
  BY DEF Pending
<1> QED BY <1>6, <1>7, <1>8 DEF w

(* The writes that nobody sees: those that change neither the table nor    *)
(* who is granted, and take no effect.                                     *)
LEMMA UnseenKeeps ==
  ASSUME Seen, Seen', table' = table, Readers' = Readers, calls' = calls, hurt' = hurt,
         Pending' = Pending, Risk' = Risk
  PROVE  Keeps
<1>1. ASSUME NEW n \in Names PROVE Shown(n)' = Shown(n)
  BY SameTable DEF Shown
<1>2. Listing' = Listing
  BY <1>1 DEF Listing
<1>3. Files' = Files /\ VisibleReaders' = VisibleReaders
  BY <1>2 DEF Seen
<1> QED BY <1>3 DEF Keeps, Promise!promiseVars, Files, Risk

LEMMA QuietWriteKeeps ==
  ASSUME ShapeInv, ShapeInv', WriterInv, cached \in Handle, Seen, Seen', Write,
         Head(todo).region \notin {"slot", "recipient", "keyslot"}
  PROVE  Keeps
<1>1. table' = table /\ keyring' = keyring
  BY WriteEffects
<1>2. calls' = calls /\ hurt' = hurt
  BY DEF Write, Advance
<1>3. ~ TakesEffect(Head(todo)) /\ Head(todo).region # "keyslot"
  BY DEF TakesEffect
<1>4. Pending' = Pending /\ HurtByFault' = HurtByFault
  <2>1. PICK w : w = Head(todo)
    OBVIOUS
  <2>2. ~ TakesEffect(w) => Pending' = Pending
    BY <2>1, WriteSettles
  <2>3. ~ TakesEffect(w) /\ w.region # "keyslot" => HurtByFault' = HurtByFault
    BY <2>1, WriteSettles
  <2> QED BY <1>3, <2>1, <2>2, <2>3
<1>5. Readers' = Readers
  <2>1. \A p \in Peers : SlotsOfPeer(p)' = SlotsOfPeer(p)
    BY <1>1, SameKeyring
  <2>2. {p \in Peers : SlotsOfPeer(p)' # {}} = {p \in Peers : SlotsOfPeer(p) # {}}
    BY <2>1
  <2> QED BY <1>2, <2>2 DEF Readers
<1>6. Risk' = Risk
  BY <1>2, <1>4 DEF Risk
<1> QED BY <1>1, <1>2, <1>4, <1>5, <1>6, UnseenKeeps

(* The write that decides a call.                                          *)
LEMMA AheadOf ==
  ASSUME ShapeInv, ShapeInv', WriterInv, cached \in Handle, CallInv, hurt # Names, Write
  PROVE  /\ doing.call \in Calls
         /\ \/ /\ Head(todo).region \in Appending \union {Decisive(doing.call)}
               /\ \A x \in Coming' : x.region \in Appending
            \/ /\ Head(todo).region \in Preparing(doing.call)
               /\ \E x \in Coming' : x.region = Decisive(doing.call)
         /\ \A x \in Coming : x.region \in Appending \union {Decisive(doing.call)} \union Preparing(doing.call)
         /\ Target /\ EntriesApart(table)
<1>1. PICK s, t, kr, key, bm, al : Working(s, t, kr, key, bm, al)
  BY DEF CallInv, Undamaged
<1>2. Ordered(todo, doing.call) /\ Target /\ EntriesApart(table)
  BY <1>1 DEF Working, Leads
<1>3. todo \in Seq(Writes) /\ todo # <<>> /\ todo' = Tail(todo)
  BY WriteEffects DEF ShapeInv, CallShape
<1>4. doing.call \in Calls
  BY <1>2, <1>3 DEF Target
<1>5. Coming' = ToSet(Tail(todo))
  BY <1>3 DEF Coming
<1>6. PICK call : call = doing.call
  OBVIOUS
<1>7. \/ /\ Head(todo).region \in Appending \union {Decisive(call)}
         /\ \A x \in ToSet(Tail(todo)) : x.region \in Appending
      \/ /\ Head(todo).region \in Preparing(call)
         /\ \E x \in ToSet(Tail(todo)) : x.region = Decisive(call)
  BY <1>2, <1>3, <1>6, OrderedHead
<1>8. \A x \in Coming : x.region \in Appending \union {Decisive(call)} \union Preparing(call)
  BY <1>2, <1>6, StillToDecide
<1> QED BY <1>2, <1>4, <1>5, <1>6, <1>7, <1>8

LEMMA AppendingSettles ==
  ASSUME ShapeInv', \A x \in Coming' : x.region \in Appending
  PROVE  ~Pending' /\ HurtByFault' = {}
<1>1. (ShapeInv => (Pending <=> \E x \in Coming : TakesEffect(x)))'
  BY PendingIff, PTL
<1>2. ASSUME NEW x \in Coming' PROVE x.region # "keyslot" /\ ~ TakesEffect(x)'
  BY DEF TakesEffect, Appending
<1>3. ~Pending'
  BY <1>1, <1>2
<1>4. \A k \in 1 .. Len(todo') : todo'[k] \in Coming'
  BY DEF Coming, ToSet, ShapeInv, CallShape
<1>5. ~ (\E k \in 1 .. Len(todo) : todo[k].region = "keyslot")'
  BY <1>2, <1>4
<1> QED BY <1>3, <1>5 DEF HurtByFault

(* A write of a table entry stores or removes the file of the call.        *)
LEMMA SlotWriteKeeps ==
  ASSUME ShapeInv, ShapeInv', WriterInv, cached \in Handle, CallInv, PromiseInv, hurt # Names,
         Seen, Seen', Write, Head(todo).region = "slot"
  PROVE  Keeps
<1>1. PICK w : w = Head(todo)
  OBVIOUS
<1>2. PICK i : i = w.at
  OBVIOUS
<1>3. PICK n : n = doing.name
  OBVIOUS
<1>4. PICK e : e = w.value
  OBVIOUS
<1>5. /\ table' = [table EXCEPT ![i] = e] /\ keyring' = keyring /\ w \in Coming
      /\ w \in Writes /\ w.region = "slot"
  BY <1>1, <1>2, <1>4, WriteEffects
<1>6. calls' = calls /\ hurt' = hurt
  BY DEF Write, Advance
<1>7. i \in FileSlots /\ e \in Entry
  BY <1>2, <1>4, <1>5, WriteShapes
<1>8. doing.call \in FileCalls /\ \A x \in Coming' : x.region \in Appending
  BY <1>1, <1>5, AheadOf DEF Calls, FileCalls, Preparing, Decisive, Appending
<1>9. Pending /\ ~Pending' /\ HurtByFault' = {}
  <2>1. TakesEffect(w)
    BY <1>5 DEF TakesEffect
  <2> QED BY <1>1, <1>8, <2>1, WriteSettles, AppendingSettles
<1>10. /\ StoresEntry(w) /\ n \notin hurt
  BY <1>3, <1>5, <1>8 DEF PromiseInv
<1>11. n \in Names
  BY <1>3, <1>4, <1>7, <1>8, <1>10 DEF StoresEntry, Entry, ShapeInv, CallShape, FileCalls
<1>12. /\ table[i].listed => table[i].name = n
       /\ \A j \in FileSlots : j # i /\ table[j].listed => table[j].name # n
  BY <1>2, <1>3, <1>5, <1>7, <1>8, <1>10, AheadOf DEF Target, EntriesApart, StoresEntry, FileCalls
<1>13. /\ e.listed => e.name = n
       /\ doing.call # "delete" => e.listed /\ e.version = calls
       /\ doing.call = "delete" => ~e.listed /\ table[i].listed
  BY <1>2, <1>3, <1>4, <1>8, <1>10 DEF StoresEntry, FileCalls
<1>14. table'[i] = e /\ \A j \in FileSlots : j # i => table'[j] = table[j]
  BY <1>5, <1>7 DEF ShapeInv, FileShape, WellListed
<1>15. ASSUME NEW m \in Names, m # n PROVE Shown(m)' = Shown(m)
  <2>1. SlotsNamed(m)' = SlotsNamed(m)
    BY <1>12, <1>13, <1>14, <1>15 DEF SlotsNamed, ListedSlots
  <2>2. i \notin SlotsNamed(m)
    BY <1>12, <1>15 DEF SlotsNamed, ListedSlots
  <2>3. SlotByName(m)' = SlotByName(m)
    BY <2>1 DEF SlotByName
  <2>4. CASE SlotsNamed(m) = {}
    BY <1>6, <2>1, <2>4 DEF Shown
  <2>5. CASE SlotsNamed(m) # {}
    <3>1. SlotByName(m) \in FileSlots /\ SlotByName(m) # i
      BY <2>2, <2>5, SlotByNameIs DEF ListedSlots
    <3>2. table'[SlotByName(m)] = table[SlotByName(m)]
      BY <1>14, <3>1
    <3> QED BY <1>6, <2>1, <2>3, <3>2 DEF Shown
  <2> QED BY <2>4, <2>5
<1>16. VisibleReaders' = VisibleReaders
  BY <1>5, <1>6, SameKeyring DEF Seen, Readers
<1>17. Risk \subseteq {n} /\ Risk' = {}
  BY <1>3, <1>8, <1>9 DEF Risk, HurtByFault, FileCalls
<1>18. Pending = TRUE /\ Pending' = FALSE
  BY <1>9 DEF Pending
<1>19. Files[n] = Shown(n) /\ Files = [m \in Names |-> Shown(m)] /\ Files' = [m \in Names |-> Shown(m)']
  BY <1>11 DEF Seen, Listing
<1>20. CASE doing.call # "delete"
  <2>1. SlotsNamed(n)' = {i}
    BY <1>7, <1>12, <1>13, <1>14, <1>20 DEF SlotsNamed, ListedSlots
  <2>2. SlotByName(n)' = i
    <3>1. SlotByName(n)' = Min({i})
      BY <2>1 DEF SlotByName
    <3>2. i \in Nat
      BY <1>7, MaxFilesAssumption DEF FileSlots
    <3> QED BY <3>1, <3>2 DEF Min
  <2>3. Shown(n)' = calls
    BY <1>6, <1>10, <1>13, <1>14, <1>20, <2>1, <2>2 DEF Shown
  <2>4. Files' = [Files EXCEPT ![n] = calls]
    BY <1>11, <1>15, <1>19, <2>3
  <2>5. Files[n] # -2
    <3>1. CASE SlotsNamed(n) = {}
      BY <1>10, <1>19, <3>1 DEF Shown
    <3>2. CASE SlotsNamed(n) # {}
      BY <1>10, <1>11, <1>19, <3>2, ShownVersions
    <3> QED BY <3>1, <3>2
  <2>6. Promise!PutFile(n)
    BY <1>6, <1>16, <1>17, <1>18, <2>4, <2>5
      DEF Promise!PutFile, Promise!TakeEffect, Promise!Lost, Files, Risk
  <2> QED BY <1>11, <2>6 DEF Keeps, Promise!PromiseNext
<1>21. CASE doing.call = "delete"
  <2>1. SlotsNamed(n)' = {}
    BY <1>7, <1>12, <1>13, <1>14, <1>21 DEF SlotsNamed, ListedSlots
  <2>2. Shown(n)' = 0
    BY <1>6, <1>10, <2>1 DEF Shown
  <2>3. Files' = [Files EXCEPT ![n] = 0]
    BY <1>11, <1>15, <1>19, <2>2
  <2>4. SlotsNamed(n) # {}
    BY <1>7, <1>12, <1>13, <1>21 DEF SlotsNamed, ListedSlots
  <2>5. Files[n] \in Nat \ {0}
    BY <1>10, <1>11, <1>19, <2>4, ShownVersions
  <2>6. Promise!RemoveFile(n)
    BY <1>6, <1>16, <1>17, <1>18, <2>3, <2>5
      DEF Promise!RemoveFile, Promise!TakeEffect, Promise!Lost, Promise!Absent, Files, Risk
  <2> QED BY <1>11, <2>6 DEF Keeps, Promise!PromiseNext
<1> QED BY <1>20, <1>21

(* A write of a recipient slot adds or removes a reader, or wraps a new    *)
(* key for one who stays.                                                  *)
LEMMA SlotsOfPeerIs ==
  ASSUME NEW p \in Peers
  PROVE  SlotsOfPeer(p) = {i \in RecipientSlots : keyring[i].peer = p}
  BY NamesAssumption DEF SlotsOfPeer, GrantedSlots

LEMMA RecipientWritten ==
  ASSUME ShapeInv, WriterInv, cached \in Handle, Write, Head(todo).region = "recipient",
         NEW i, NEW r, i = Head(todo).at, r = Head(todo).value
  PROVE  /\ i \in RecipientSlots /\ r \in Recipients /\ table' = table
         /\ calls' = calls /\ hurt' = hurt
         /\ \A p \in Peers : SlotsOfPeer(p)' = IF r.peer = p THEN SlotsOfPeer(p) \union {i}
                                                ELSE SlotsOfPeer(p) \ {i}
<1>1. PICK w : w = Head(todo)
  OBVIOUS
<1>2. /\ table' = table /\ keyring' = [keyring EXCEPT ![i] = r] /\ w \in Writes /\ w.region = "recipient"
  BY <1>1, WriteEffects
<1>3. i \in RecipientSlots /\ r \in Recipients
  BY <1>1, <1>2, WriteShapes
<1>4. keyring'[i] = r /\ \A j \in RecipientSlots : j # i => keyring'[j] = keyring[j]
  BY <1>2, <1>3 DEF ShapeInv, FileShape, WellGranted
<1>5. ASSUME NEW p \in Peers
      PROVE  SlotsOfPeer(p)' = IF r.peer = p THEN SlotsOfPeer(p) \union {i} ELSE SlotsOfPeer(p) \ {i}
  <2>2. SlotsOfPeer(p)' = {j \in RecipientSlots : keyring'[j].peer = p}
    BY NamesAssumption DEF SlotsOfPeer, GrantedSlots
  <2>3. SlotsOfPeer(p) = {j \in RecipientSlots : keyring[j].peer = p}
    BY SlotsOfPeerIs
  <2> QED BY <1>3, <1>4, <2>2, <2>3
<1>6. calls' = calls /\ hurt' = hurt
  BY DEF Write, Advance
<1> QED BY <1>2, <1>3, <1>5, <1>6

LEMMA SameListing ==
  ASSUME Seen, Seen', table' = table, hurt' = hurt PROVE Files' = Files
<1>1. ASSUME NEW n \in Names PROVE Shown(n)' = Shown(n)
  BY SameTable DEF Shown
<1> QED BY <1>1 DEF Seen, Listing

LEMMA GrantWriteKeeps ==
  ASSUME ShapeInv, ShapeInv', WriterInv, cached \in Handle, CallInv, PromiseInv, hurt # Names,
         Seen, Seen', Write, Head(todo).region = "recipient", doing.call = "grant"
  PROVE  Keeps
<1>1. PICK w : w = Head(todo)
  OBVIOUS
<1>2. PICK i : i = w.at
  OBVIOUS
<1>3. PICK r : r = w.value
  OBVIOUS
<1>4. /\ i \in RecipientSlots /\ r \in Recipients /\ table' = table /\ calls' = calls /\ hurt' = hurt
      /\ \A p \in Peers : SlotsOfPeer(p)' = IF r.peer = p THEN SlotsOfPeer(p) \union {i}
                                             ELSE SlotsOfPeer(p) \ {i}
  BY <1>1, <1>2, <1>3, RecipientWritten
<1>5. w \in Coming /\ w.region = "recipient"
  BY <1>1, WriteEffects
<1>6. WritesSlot(w)
  BY <1>5 DEF PromiseInv
<1>7. PICK p \in Peers : p = r.peer
  BY <1>3, <1>6 DEF WritesSlot
<1>8. keyring[i].peer = NoPeer /\ \A j \in RecipientSlots : keyring[j].peer # p
  BY <1>2, <1>3, <1>6, <1>7 DEF WritesSlot
<1>9. \A x \in Coming' : x.region \in Appending
  BY <1>1, <1>5, AheadOf DEF Preparing
<1>10. Pending = TRUE /\ Pending' = FALSE
  <2>1. TakesEffect(w)
    BY <1>5 DEF TakesEffect
  <2> QED BY <1>1, <1>9, <2>1, WriteSettles, AppendingSettles DEF Pending
<1>11. Risk = {} /\ Risk' = {}
  BY <1>9, AppendingSettles DEF Risk, HurtByFault
<1>12. SlotsOfPeer(p) = {} /\ SlotsOfPeer(p)' = {i}
  BY <1>4, <1>7, <1>8, SlotsOfPeerIs
<1>13. ASSUME NEW q \in Peers, q # p PROVE SlotsOfPeer(q)' = SlotsOfPeer(q)
  <2>1. i \notin SlotsOfPeer(q)
    BY <1>8 DEF SlotsOfPeer, GrantedSlots
  <2>2. SlotsOfPeer(q)' = SlotsOfPeer(q) \ {i}
    BY <1>4, <1>7, <1>13
  <2> QED BY <2>1, <2>2
<1>14. p \notin VisibleReaders /\ VisibleReaders' = VisibleReaders \union {p}
  BY <1>4, <1>12, <1>13 DEF Seen, Readers
<1>15. Files' = Files
  BY <1>4, SameListing
<1>16. Promise!AddReader(p)
  BY <1>4, <1>10, <1>11, <1>14, <1>15 DEF Promise!AddReader, Promise!TakeEffect, Files, Risk
<1> QED BY <1>16 DEF Keeps, Promise!PromiseNext

LEMMA RevokingAhead ==
  ASSUME ShapeInv, ShapeInv', WriterInv, cached \in Handle, CallInv, hurt # Names,
         Write, Head(todo).region = "recipient", doing.call = "revoke"
  PROVE  /\ doing' = doing
         /\ HurtByFault = Names /\ HurtByFault' = Names
         /\ \A x \in Coming : x.region # "slot"
<1>1. PICK w : w = Head(todo)
  OBVIOUS
<1>2. /\ Coming = {w} \union Coming' /\ w.region = "recipient"
      /\ doing' = doing \/ (doing' = NoCall /\ todo' = <<>>)
  BY <1>1, WriteEffects
<1>3. \E x \in Coming' : x.region = "keyslot"
  BY <1>1, <1>2, AheadOf DEF Appending, Decisive
<1>4. \E x \in Coming : x.region = "keyslot"
  BY <1>2, <1>3
<1>5. \E k \in 1 .. Len(todo) : todo[k].region = "keyslot"
  BY <1>4 DEF Coming, ToSet, ShapeInv, CallShape
<1>6. \E k \in 1 .. Len(todo') : todo'[k].region = "keyslot"
  BY <1>3 DEF Coming, ToSet, ShapeInv, CallShape
<1>7. todo' # <<>>
  <2> SUFFICES ASSUME todo' = <<>> PROVE FALSE
    OBVIOUS
  <2>1. Len(todo') = 0
    OBVIOUS
  <2> QED BY <1>6, <2>1
<1>8. doing' = doing
  BY <1>2, <1>7
<1>9. \A x \in Coming : x.region # "slot"
  BY AheadOf DEF Appending, Decisive, Preparing
<1> QED BY <1>5, <1>6, <1>8, <1>9 DEF HurtByFault

LEMMA DropWriteKeeps ==
  ASSUME ShapeInv, ShapeInv', WriterInv, cached \in Handle, CallInv, PromiseInv, hurt # Names,
         Seen, Seen', Write, Head(todo).region = "recipient", doing.call = "revoke",
         Head(todo).value = NoRecipient
  PROVE  Keeps
<1>1. PICK w : w = Head(todo)
  OBVIOUS
<1>2. PICK i : i = w.at
  OBVIOUS
<1>3. PICK r : r = w.value
  OBVIOUS
<1>4. /\ i \in RecipientSlots /\ table' = table /\ calls' = calls /\ hurt' = hurt
      /\ \A p \in Peers : SlotsOfPeer(p)' = IF r.peer = p THEN SlotsOfPeer(p) \union {i}
                                             ELSE SlotsOfPeer(p) \ {i}
  BY <1>1, <1>2, <1>3, RecipientWritten
<1>5. /\ w \in Coming /\ w.region = "recipient" /\ todo # <<>> /\ todo' = Tail(todo)
  BY <1>1, WriteEffects
<1>6. WritesSlot(w) /\ PeersApart /\ DropsFirst(todo)
  BY <1>5 DEF PromiseInv
<1>7. PICK p : p = keyring[i].peer
  OBVIOUS
<1>8. p # NoPeer /\ p \in Peers /\ r.peer \notin Peers
  BY <1>1, <1>2, <1>3, <1>4, <1>6, <1>7, NamesAssumption
    DEF WritesSlot, ShapeInv, FileShape, WellGranted, Recipients, NoRecipient
<1>9. SlotsOfPeer(p) = {i}
  BY <1>2, <1>4, <1>6, <1>7, <1>8 DEF PeersApart, SlotsOfPeer, GrantedSlots
<1>10. SlotsOfPeer(p)' = {}
  BY <1>4, <1>8, <1>9
<1>11. ASSUME NEW q \in Peers, q # p PROVE SlotsOfPeer(q)' = SlotsOfPeer(q)
  <2>1. i \notin SlotsOfPeer(q)
    BY <1>7, <1>11 DEF SlotsOfPeer
  <2> QED BY <1>4, <1>8, <2>1
<1>12. doing' = doing /\ HurtByFault' = HurtByFault /\ \A x \in Coming : x.region # "slot"
  BY RevokingAhead
<1>13. Pending = TRUE
  <2>1. TakesEffect(w)
    BY <1>1, <1>5 DEF TakesEffect
  <2> QED BY <1>1, <2>1, WriteSettles DEF Pending
<1>14. Pending' = FALSE
  <2> SUFFICES ASSUME Pending' PROVE FALSE
    BY DEF Pending
  <2>1. (ShapeInv => (Pending <=> \E x \in Coming : TakesEffect(x)))'
    BY PendingIff, PTL
  <2>2. PICK x \in Coming' : x.region = "slot" \/ (x.region = "recipient" /\ x.value = NoRecipient)
    BY <1>12, <2>1 DEF TakesEffect
  <2>3. x.region = "recipient" /\ x.value = NoRecipient
    BY <1>1, <1>12, <2>2, WriteEffects
  <2>4. /\ Len(todo) \in Nat /\ Len(todo) >= 1 /\ Head(todo) = todo[1]
        /\ Len(Tail(todo)) = Len(todo) - 1 /\ Tail(todo) \in Seq(Writes)
        /\ \A k \in 1 .. Len(todo) - 1 : Tail(todo)[k] = todo[k + 1]
    BY <1>5, HeadAndTail DEF ShapeInv, CallShape
  <2>5. PICK k \in 1 .. Len(todo') : todo'[k] = x
    BY <2>2 DEF Coming, ToSet, ShapeInv, CallShape
  <2>6. /\ k + 1 \in 1 .. Len(todo) /\ 1 \in 1 .. Len(todo) /\ 1 < k + 1
        /\ todo[k + 1] = x /\ todo[1] = w
    BY <1>1, <1>5, <2>4, <2>5
  <2> QED BY <1>5, <1>6, <2>3, <2>6 DEF DropsFirst
<1>15. Risk' = Risk
  BY <1>4, <1>12 DEF Risk
<1>16. p \in VisibleReaders /\ VisibleReaders' = VisibleReaders \ {p}
  BY <1>4, <1>8, <1>9, <1>10, <1>11 DEF Seen, Readers
<1>17. Files' = Files
  BY <1>4, SameListing
<1>18. Promise!RemoveReader(p)
  BY <1>4, <1>13, <1>14, <1>15, <1>16, <1>17 DEF Promise!RemoveReader, Promise!TakeEffect, Files, Risk
<1> QED BY <1>8, <1>18 DEF Keeps, Promise!PromiseNext

LEMMA RewrapWriteKeeps ==
  ASSUME ShapeInv, ShapeInv', WriterInv, cached \in Handle, CallInv, PromiseInv, hurt # Names,
         Seen, Seen', Write, Head(todo).region = "recipient", doing.call = "revoke",
         Head(todo).value # NoRecipient
  PROVE  Keeps
<1>1. PICK w : w = Head(todo)
  OBVIOUS
<1>2. PICK i : i = w.at
  OBVIOUS
<1>3. PICK r : r = w.value
  OBVIOUS
<1>4. /\ i \in RecipientSlots /\ table' = table /\ calls' = calls /\ hurt' = hurt
      /\ \A p \in Peers : SlotsOfPeer(p)' = IF r.peer = p THEN SlotsOfPeer(p) \union {i}
                                             ELSE SlotsOfPeer(p) \ {i}
  BY <1>1, <1>2, <1>3, RecipientWritten
<1>5. w \in Coming /\ w.region = "recipient"
  BY <1>1, WriteEffects
<1>6. r.peer = keyring[i].peer
  BY <1>1, <1>2, <1>3, <1>5 DEF PromiseInv, WritesSlot
<1>7. ASSUME NEW p \in Peers PROVE SlotsOfPeer(p)' = SlotsOfPeer(p)
  <2>1. i \in SlotsOfPeer(p) <=> r.peer = p
    BY <1>4, <1>6, SlotsOfPeerIs
  <2>2. SlotsOfPeer(p)' = IF r.peer = p THEN SlotsOfPeer(p) \union {i} ELSE SlotsOfPeer(p) \ {i}
    BY <1>4
  <2> QED BY <2>1, <2>2
<1>8. Readers' = Readers
  <2>1. {p \in Peers : SlotsOfPeer(p)' # {}} = {p \in Peers : SlotsOfPeer(p) # {}}
    BY <1>7
  <2> QED BY <1>4, <2>1 DEF Readers
<1>9. ~ TakesEffect(w)
  BY <1>1, <1>5 DEF TakesEffect
<1>10. Pending' = Pending
  BY <1>1, <1>9, WriteSettles
<1>11. Risk' = Risk
  BY <1>4, RevokingAhead DEF Risk
<1> QED BY <1>4, <1>8, <1>10, <1>11, UnseenKeeps

(* A write of the admin slot ends what a revocation put at risk.           *)
LEMMA KeySlotWriteKeeps ==
  ASSUME ShapeInv, ShapeInv', WriterInv, cached \in Handle, CallInv, hurt # Names,
         Seen, Seen', Write, Head(todo).region = "keyslot"
  PROVE  Keeps
<1>1. PICK w : w = Head(todo)
  OBVIOUS
<1>2. /\ table' = table /\ keyring' = keyring /\ w.region = "keyslot"
      /\ w \in Coming /\ Coming = {w} \union Coming'
  BY <1>1, WriteEffects
<1>3. calls' = calls /\ hurt' = hurt
  BY DEF Write, Advance
<1>4. doing.call = "revoke" /\ \A x \in Coming' : x.region \in Appending
  BY <1>1, <1>2, AheadOf DEF Appending, Decisive, Preparing, Calls
<1>5. ~ Pending
  <2>1. \A x \in Coming : ~ TakesEffect(x)
    BY <1>2, <1>4 DEF TakesEffect, Appending
  <2> QED BY <2>1, PendingIs
<1>6. Pending' = Pending
  BY <1>4, <1>5, AppendingSettles DEF Pending
<1>7. HurtByFault = Names /\ HurtByFault' = {}
  <2>1. \E k \in 1 .. Len(todo) : todo[k].region = "keyslot"
    BY <1>2 DEF Coming, ToSet, ShapeInv, CallShape
  <2> QED BY <1>4, <2>1, AppendingSettles DEF HurtByFault
<1>8. Risk # {} /\ Risk' = {}
  BY <1>7 DEF Risk, ShapeInv, HistoryShape
<1>9. Files' = Files
  BY <1>2, <1>3, SameListing
<1>10. VisibleReaders' = VisibleReaders
  BY <1>2, <1>3, SameKeyring DEF Seen, Readers
<1>11. Promise!Settle
  BY <1>3, <1>5, <1>6, <1>8, <1>9, <1>10 DEF Promise!Settle, Files, Risk
<1> QED BY <1>11 DEF Keeps, Promise!PromiseNext

(* Where everything is lost, a call can only give up.                      *)
LEMMA LostWriteKeeps ==
  ASSUME ShapeInv, ShapeInv', WriterInv, cached \in Handle, hurt = Names, Seen, Seen', Write
  PROVE  Keeps
<1>1. calls' = calls /\ hurt' = hurt
  BY DEF Write, Advance
<1>2. Files = [n \in Names |-> -2] /\ Files' = [n \in Names |-> -2]
  BY <1>1 DEF Seen, Listing, Shown, LostFile
<1>3. VisibleReaders = {} /\ VisibleReaders' = {}
  BY <1>1 DEF Seen, Readers
<1>4. HurtByFault \subseteq Names /\ HurtByFault' \subseteq Names
  BY DEF HurtByFault, ShapeInv, CallShape
<1>5. Risk = {} /\ Risk' = {}
  BY <1>1, <1>4 DEF Risk
<1>6. Pending' => Pending
  BY WriteSettles
<1>7. Pending \in BOOLEAN /\ Pending' \in BOOLEAN
  BY DEF Pending
<1>8. CASE Pending' = Pending
  BY <1>1, <1>2, <1>3, <1>5, <1>8 DEF Keeps, Promise!promiseVars, Files, Risk
<1>9. CASE Pending' # Pending
  <2>1. Pending /\ Pending' = FALSE
    BY <1>6, <1>7, <1>9
  <2>2. Promise!Lose({})
    <3>1. Files' = [n \in Names |-> IF n \in {} THEN -2 ELSE Files[n]]
      BY <1>2
    <3>2. VisibleReaders' = IF {} \union {n \in Names : Files[n] = -2} = Names THEN {} ELSE VisibleReaders
      BY <1>2, <1>3
    <3> QED BY <3>1, <3>2 DEF Promise!Lose, Promise!LostFiles, Promise!Lost, Files
  <2>3. Promise!GiveUp
    BY <1>1, <1>5, <2>1, <2>2 DEF Promise!GiveUp, Risk
  <2> QED BY <2>3 DEF Keeps, Promise!PromiseNext
<1> QED BY <1>8, <1>9

LEMMA WriteKeeps ==
  ASSUME ShapeInv, ShapeInv', WriterInv, cached \in Handle, CallInv, PromiseInv, Seen, Seen', Write
  PROVE  Keeps
<1>1. CASE hurt = Names
  BY <1>1, LostWriteKeeps
<1>2. CASE hurt # Names
  <2>1. CASE Head(todo).region = "slot"
    BY <1>2, <2>1, SlotWriteKeeps
  <2>2. CASE Head(todo).region = "keyslot"
    BY <1>2, <2>2, KeySlotWriteKeeps
  <2>3. CASE Head(todo).region = "recipient"
    <3>1. doing.call \in {"grant", "revoke"}
      BY <1>2, <2>3, AheadOf DEF Appending, Decisive, Preparing, Calls
    <3> QED BY <1>2, <2>3, <3>1, GrantWriteKeeps, DropWriteKeeps, RewrapWriteKeeps
  <2> QED BY <2>1, <2>2, <2>3, QuietWriteKeeps
<1> QED BY <1>1, <1>2
-------------------------------------------------------------------------------
(***************************************************************************)
(* What the writes to come assume of table and keyring stays true.         *)
(***************************************************************************)
LEMMA InitPromise == VaultInit => PromiseInv
<1> SUFFICES ASSUME VaultInit PROVE PromiseInv
  OBVIOUS
<1>1. Coming = {} /\ GrantedSlots = {} /\ hurt = {} /\ doing.call = "none"
  BY DEF VaultInit, Coming, ToSet, GrantedSlots, NoRecipient, NoCall
<1> QED BY <1>1 DEF PromiseInv, PeersApart, FileCalls

LEMMA QuietKeepsPromise ==
  ASSUME PromiseInv, table' = table, keyring' = keyring, hurt' = hurt,
         doing' = doing, todo' = todo, calls' = calls
  PROVE  PromiseInv'
<1>1. Coming' = Coming /\ GrantedSlots' = GrantedSlots /\ \A n : SlotsNamed(n)' = SlotsNamed(n)
  BY SameTable DEF Coming, GrantedSlots
<1>2. PeersApart => PeersApart'
  BY <1>1 DEF PeersApart
<1>3. DropsFirst(todo) => DropsFirst(todo)'
  BY DEF DropsFirst
<1>4. \A w : /\ StoresEntry(w) => StoresEntry(w)'
             /\ WritesSlot(w) => WritesSlot(w)'
  BY DEF StoresEntry, WritesSlot
<1> QED BY <1>1, <1>2, <1>3, <1>4 DEF PromiseInv

(* A file is lost only by a call that had an entry to lose.                *)
LEMMA FaultKeepsPromise ==
  ASSUME ShapeInv, WriterInv, cached \in Handle, CallInv, PromiseInv, WriteFails \/ Crash
  PROVE  PromiseInv'
<1> SUFFICES ASSUME hurt' # Names PROVE PromiseInv'
  BY DEF PromiseInv
<1>1. /\ todo' = <<>> /\ doing' = NoCall /\ hurt' = hurt \union HurtByFault /\ calls' = calls
      /\ table' = table /\ keyring' = keyring
  BY FaultEffects DEF fileVars
<1>2. hurt # Names /\ HurtByFault # Names
  BY <1>1 DEF ShapeInv, HistoryShape, HurtByFault, CallShape
<1>3. Coming' = {} /\ doing'.call = "none"
  BY <1>1 DEF Coming, ToSet, NoCall
<1>4. GrantedSlots' = GrantedSlots /\ \A n : SlotsNamed(n)' = SlotsNamed(n)
  BY <1>1, SameTable DEF GrantedSlots
<1>5. PeersApart'
  BY <1>1, <1>2, <1>4 DEF PromiseInv, PeersApart
<1>6. ASSUME NEW n \in HurtByFault PROVE SlotsNamed(n) # {}
  <2>1. n = doing.name /\ doing.call \in {"update", "delete"} /\ Pending
    BY <1>2, <1>6 DEF HurtByFault
  <2>2. PICK w \in Coming : TakesEffect(w)
    BY <2>1, PendingIs
  <2>3. PICK s, t, kr, key, bm, al : Working(s, t, kr, key, bm, al)
    BY <1>2 DEF CallInv, Undamaged
  <2>4. w.region = "slot"
    <3>1. PICK call : call = doing.call
      OBVIOUS
    <3>2. Ordered(todo, call)
      BY <2>3, <3>1 DEF Working, Leads
    <3>3. w.region \in Appending \union {Decisive(call)} \union Preparing(call)
      BY <3>2, StillToDecide
    <3> QED BY <2>1, <2>2, <3>1, <3>3 DEF Decisive, Preparing, Appending, TakesEffect
  <2>5. table[w.at].listed
    BY <1>2, <2>1, <2>2, <2>4 DEF PromiseInv, StoresEntry
  <2>6. table[w.at].name = n
    BY <2>1, <2>2, <2>3, <2>4, <2>5 DEF Working, Target
  <2>7. w.at \in FileSlots
    <3>1. w \in Writes
      BY DEF Coming, ToSet, ShapeInv, CallShape
    <3> QED BY <2>4, <3>1, WriteShapes
  <2> QED BY <2>5, <2>6, <2>7 DEF SlotsNamed, ListedSlots
<1>7. \A n \in hurt' : SlotsNamed(n)' # {}
  BY <1>1, <1>2, <1>4, <1>6 DEF PromiseInv
<1> QED BY <1>3, <1>5, <1>7 DEF PromiseInv, FileCalls

(* A call begins.                                                          *)
LEMMA BeginKeepsPromise ==
  ASSUME PromiseInv, NEW call, NEW name, NEW ws, Begin(call, name, ws), call # "none",
         call = "add" => SlotsNamed(name) = {},
         hurt' # Names => \A w \in Coming' : /\ w.region = "slot" => StoresEntry(w)'
                                             /\ w.region = "recipient" => WritesSlot(w)',
         call = "revoke" => DropsFirst(todo')
  PROVE  PromiseInv'
<1> SUFFICES ASSUME hurt' # Names PROVE PromiseInv'
  BY DEF PromiseInv
<1>1. /\ table' = table /\ keyring' = keyring /\ todo' = ws
      /\ doing'.call = call /\ doing'.name = name
      /\ hurt' = (IF call \in {"update", "delete"} /\ name \in hurt THEN Names ELSE hurt)
  BY DEF Begin, fileVars
<1>2. hurt' = hurt /\ hurt # Names /\ (call \in {"update", "delete"} => name \notin hurt)
  BY <1>1
<1>3. GrantedSlots' = GrantedSlots /\ \A n : SlotsNamed(n)' = SlotsNamed(n)
  BY <1>1, SameTable DEF GrantedSlots
<1>4. PeersApart' /\ \A n \in hurt' : SlotsNamed(n)' # {}
  BY <1>1, <1>2, <1>3 DEF PromiseInv, PeersApart
<1>5. call \in FileCalls => name \notin hurt'
  BY <1>2, <1>3, <1>4 DEF FileCalls
<1>6. call = "revoke" => DropsFirst(todo)'
  BY DEF DropsFirst
<1> QED BY <1>1, <1>4, <1>5, <1>6 DEF PromiseInv

(* Calls on a file write one entry, after other regions.                   *)
WritesOneEntry(ws, slot, e) ==
  \A w \in ToSet(ws) : /\ w.region # "recipient"
                       /\ w.region = "slot" => w.at = slot /\ w.value = e

LEMMA FileCallKeepsPromise ==
  ASSUME PromiseInv, NEW call \in FileCalls, NEW n, NEW ws, Begin(call, n, ws),
         NEW slot, NEW e, WritesOneEntry(ws, slot, e),
         call = "add" => SlotsNamed(n) = {},
         call # "delete" => e.listed /\ e.name = n /\ e.version = calls + 1,
         call = "delete" => ~ e.listed,
         call # "add" => table[slot].listed
  PROVE  PromiseInv'
<1>1. /\ table' = table /\ todo' = ws /\ calls' = calls + 1
      /\ doing'.call = call /\ doing'.name = n
  BY DEF Begin, fileVars
<1>2. Coming' = ToSet(ws)
  BY <1>1 DEF Coming
<1>3. ASSUME NEW w \in Coming'
      PROVE  /\ w.region = "slot" => StoresEntry(w)'
             /\ w.region = "recipient" => WritesSlot(w)'
  <2>1. w.region # "recipient" /\ (w.region = "slot" => w.at = slot /\ w.value = e)
    BY <1>2 DEF WritesOneEntry
  <2> QED BY <1>1, <2>1 DEF StoresEntry, FileCalls
<1>4. call # "none" /\ call # "revoke"
  BY DEF FileCalls
<1> QED BY <1>3, <1>4, BeginKeepsPromise

LEMMA StoreWritesFill ==
  ASSUME NEW bits \in SUBSET Blocks, NEW id \in Ids, NEW size \in Nat, NEW version \in Ids,
         handle.key \in Keys
  PROVE  FillsBlocks(StoreWrites(bits, id, size, version))
<1> DEFINE blocks == StoreBlocks(bits, size)
           after == MarkOccupied(bits, ToSet(blocks))
           write(k) == BlockWrite(blocks[k],
                         Sealed(handle.key, id, BodyOf(blocks, size, version, k)), after)
           writes == [k \in 1 .. Len(blocks) |-> write(k)]
           all == StoreWrites(bits, id, size, version)
           B == BitmapWrite(after)
           n == Len(blocks)
<1>1. n \in Nat
  BY AllocatedBlocks, BlocksNeededIs DEF StoreBlocks
<1>2. all = writes \o <<B>> /\ all \in Seq(Writes)
  BY StoreWritesShape DEF StoreWrites
<1>3. \A k \in 1 .. n : write(k).region = "block"
  BY DEF BlockWrite
<1>4. B.region = "bitmap"
  BY DEF BitmapWrite
<1> HIDE DEF write, n, B, all
<1>5. DOMAIN all = 1 .. n + 1 /\ all[n + 1] = B /\ \A k \in 1 .. n : all[k] = write(k)
  BY <1>1, <1>2 DEF n
<1>6. ASSUME NEW w \in ToSet(all) PROVE w.region \in {"block", "bitmap"}
  <2>1. PICK k \in 1 .. n + 1 : w = all[k]
    BY <1>5 DEF ToSet
  <2>2. CASE k = n + 1
    BY <1>4, <1>5, <2>1, <2>2
  <2>3. CASE k # n + 1
    <3>1. k \in 1 .. n
      BY <1>1, <2>3
    <3> QED BY <1>3, <1>5, <2>1, <3>1
  <2> QED BY <2>2, <2>3
<1> QED BY <1>6 DEF FillsBlocks, all

LEMMA ThenEntryWritesOne ==
  ASSUME NEW p \in Seq(Writes), FillsBlocks(p), NEW slot \in FileSlots, NEW e \in Entry
  PROVE  LET ws == ThenEntry(slot, e, p) \o AppendWrites IN
         ws \in Seq(Writes) /\ WritesOneEntry(ws, slot, e)
<1> DEFINE S == SlotWrite(slot, e)
           pS == p \o <<S>>
           A == AppendWrites
           ws == pS \o A
<1>1. S \in Writes /\ S.region = "slot" /\ S.at = slot /\ S.value = e /\ A \in Seq(Writes)
  BY OtherWritesShape DEF SlotWrite
<1>2. \A w \in ToSet(A) : w.region \in Appending
  BY AppendWritesAppend
<1> HIDE DEF S, A
<1>3. pS \in Seq(Writes) /\ ToSet(pS) = ToSet(p) \union {S}
  BY <1>1, OneMore
<1> HIDE DEF pS
<1>4. ws \in Seq(Writes) /\ ToSet(ws) = ToSet(pS) \union ToSet(A)
  BY <1>1, <1>3, ConcatSet
<1> HIDE DEF ws
<1>5. WritesOneEntry(ws, slot, e)
  BY <1>1, <1>2, <1>3, <1>4 DEF WritesOneEntry, FillsBlocks, Appending
<1> QED BY <1>4, <1>5 DEF ws, pS, S, A, ThenEntry

LEMMA MoreBitsWriteOne ==
  ASSUME NEW bits \in SUBSET Blocks, NEW ws \in Seq(Writes), NEW slot, NEW e, WritesOneEntry(ws, slot, e)
  PROVE  WritesOneEntry(<<BitmapWrite(bits)>> \o ws, slot, e)
<1> DEFINE B == BitmapWrite(bits)
           all == <<B>> \o ws
<1>1. B \in Writes /\ B.region = "bitmap"
  BY OtherWritesShape DEF BitmapWrite
<1> HIDE DEF B
<1>2. ToSet(all) = {B} \union ToSet(ws)
  BY <1>1, ConsSet
<1> HIDE DEF all
<1>3. WritesOneEntry(all, slot, e)
  BY <1>1, <1>2 DEF WritesOneEntry
<1> QED BY <1>3 DEF all, B

LEMMA AddFileKeepsPromise ==
  ASSUME ShapeInv, CallsInv, PromiseInv, NEW n \in Names, NEW size \in Sizes, AddFile(n, size)
  PROVE  PromiseInv'
<1> DEFINE new == calls + 1
           slot == Min(FreeSlots)
           blocks == StoreBlocks(handle.alloc, size)
           entry == NewEntry(n, new, size, new, blocks)
           writes == StoreWrites(handle.alloc, new, size, new)
           ws == ThenEntry(slot, entry, writes) \o AppendWrites
           call == "add"
<1>1. /\ CanMutate /\ FreeSlots # {} /\ FreeCount(handle.alloc) >= BlocksNeeded(size)
      /\ SlotsNamed(n) = {} /\ Begin(call, n, ws)
  BY DEF AddFile
<1>2. new \in Ids
  BY <1>1, NewIsAnId
<1>3. slot \in FileSlots
  <2>1. FreeSlots \in SUBSET Nat
    BY MaxFilesAssumption DEF FreeSlots, FileSlots
  <2>2. slot \in FreeSlots
    BY <1>1, <2>1, MinExists
  <2> QED BY <2>2 DEF FreeSlots
<1>4. entry \in Entry /\ entry.listed /\ entry.name = n /\ entry.version = calls + 1
  <2>1. entry \in Entry
    BY <1>1, <1>2, NewEntryShape
  <2> QED BY <2>1 DEF NewEntry
<1>5. writes \in Seq(Writes) /\ FillsBlocks(writes)
  BY <1>2, SizesAssumption, StoreWritesShape, StoreWritesFill DEF ShapeInv, HandleShape
<1> HIDE DEF slot, entry, writes
<1>6. WritesOneEntry(ws, slot, entry)
  BY <1>3, <1>4, <1>5, ThenEntryWritesOne
<1>7. call \in FileCalls /\ call = "add"
  BY DEF FileCalls
<1> HIDE DEF ws, call
<1> QED BY <1>1, <1>4, <1>6, <1>7, FileCallKeepsPromise

LEMMA UpdateFileKeepsPromise ==
  ASSUME ShapeInv, CallsInv, PromiseInv, NEW n \in Names, NEW size \in Sizes, UpdateFile(n, size)
  PROVE  PromiseInv'
<1> DEFINE new == calls + 1
           slot == SlotByName(n)
           old == table[slot]
           oldBlocks == AllBlocks(store, handle.key, old)
           freed == Free(handle.alloc, ToSet(oldBlocks))
           blocks == StoreBlocks(freed, size)
           entry == NewEntry(n, old.id, size, new, blocks)
           writes == StoreWrites(freed, old.id, size, new)
           stored == ThenEntry(slot, entry, writes) \o AppendWrites
           rest == IF FreeCount(freed) < BlocksNeeded(size) THEN <<>> ELSE stored
           ws == <<BitmapWrite(freed)>> \o rest
           call == "update"
<1>1. CanMutate /\ SlotsNamed(n) # {} /\ Begin(call, n, ws)
  BY DEF UpdateFile
<1>2. new \in Ids
  BY <1>1, NewIsAnId
<1>3. slot \in FileSlots /\ old.id \in Ids /\ old.listed
  BY <1>1, SlotByNameIs, ListedEntries DEF ShapeInv, FileShape, ListedSlots
<1>4. freed \in SUBSET Blocks /\ handle.key \in Keys
  BY DEF ShapeInv, HandleShape, Free
<1> HIDE DEF slot, freed
<1>5. writes \in Seq(Writes) /\ FillsBlocks(writes)
  <2> HIDE DEF old, new
  <2> QED BY <1>2, <1>3, <1>4, SizesAssumption, StoreWritesShape, StoreWritesFill
<1>6. entry.listed /\ entry.name = n /\ entry.version = calls + 1
  BY DEF NewEntry
<1>7. rest \in Seq(Writes) /\ WritesOneEntry(rest, slot, entry)
  <2>1. CASE FreeCount(freed) < BlocksNeeded(size)
    <3>1. rest = <<>>
      BY <2>1
    <3>2. ToSet(rest) = {}
      BY <3>1 DEF ToSet
    <3> HIDE DEF rest
    <3>3. rest \in Seq(Writes)
      BY <3>1
    <3>4. WritesOneEntry(rest, slot, entry)
      BY <3>2 DEF WritesOneEntry
    <3> QED BY <3>3, <3>4
  <2>2. CASE ~ (FreeCount(freed) < BlocksNeeded(size))
    <3>1. FreeCount(freed) >= BlocksNeeded(size)
      <4>1. size \in Nat
        BY SizesAssumption
      <4>2. BlocksNeeded(size) \in Nat /\ FreeCount(freed) \in Nat
        BY <4>1, AllocatedBlocks, BlocksNeededIs
      <4> QED BY <2>2, <4>2
    <3>2. entry \in Entry
      <4> HIDE DEF old, new
      <4> QED BY <1>2, <1>3, <3>1, NewEntryShape
    <3> HIDE DEF entry, writes
    <3>3. stored \in Seq(Writes) /\ WritesOneEntry(stored, slot, entry)
      BY <1>3, <1>5, <3>2, ThenEntryWritesOne
    <3>4. rest = stored
      <4> HIDE DEF stored
      <4> QED BY <2>2
    <3> HIDE DEF stored, rest
    <3> QED BY <3>3, <3>4
  <2> QED BY <2>1, <2>2
<1> HIDE DEF rest, entry
<1>8. WritesOneEntry(ws, slot, entry)
  BY <1>4, <1>7, MoreBitsWriteOne
<1>9. call \in FileCalls /\ call = "update" /\ table[slot].listed
  BY <1>3 DEF FileCalls
<1> HIDE DEF ws, call
<1> QED BY <1>1, <1>6, <1>8, <1>9, FileCallKeepsPromise

LEMMA DeleteFileKeepsPromise ==
  ASSUME ShapeInv, CallsInv, PromiseInv, NEW n \in Names, DeleteFile(n)
  PROVE  PromiseInv'
<1> DEFINE slot == SlotByName(n)
           old == table[slot]
           freed == Free(handle.alloc, BlocksOf(old))
           e == [old EXCEPT !.listed = FALSE]
           B == BitmapWrite(freed)
           S == SlotWrite(slot, e)
           ws == <<B, S>> \o AppendWrites
           call == "delete"
<1>1. CanMutate /\ SlotsNamed(n) # {} /\ Begin(call, n, ws)
  BY DEF DeleteFile
<1>2. slot \in FileSlots /\ old.listed /\ old \in Entry
  BY <1>1, SlotByNameIs, ListedIs DEF ShapeInv, FileShape, ListedSlots
<1>3. freed \in SUBSET Blocks
  BY DEF ShapeInv, HandleShape, Free
<1> HIDE DEF slot, freed
<1>4. e \in Entry /\ ~ e.listed
  BY <1>2 DEF Entry
<1> HIDE DEF e
<1>5. /\ B \in Writes /\ S \in Writes /\ AppendWrites \in Seq(Writes)
      /\ B.region = "bitmap" /\ S.region = "slot" /\ S.at = slot /\ S.value = e
  BY <1>2, <1>3, <1>4, OtherWritesShape DEF BitmapWrite, SlotWrite
<1> DEFINE A == AppendWrites
           p == <<B, S>>
<1>6. \A w \in ToSet(A) : w.region \in Appending
  BY AppendWritesAppend
<1> HIDE DEF A, B, S
<1>7. p \in Seq(Writes) /\ ToSet(p) = {B, S}
  <2>1. p \in Seq(Writes) /\ DOMAIN p = 1 .. 2 /\ p[1] = B /\ p[2] = S
    BY <1>5
  <2>2. \A k : k \in 1 .. 2 <=> k = 1 \/ k = 2
    OBVIOUS
  <2> HIDE DEF p
  <2> QED BY <2>1, <2>2 DEF ToSet
<1>8. ws = p \o A
  BY DEF A
<1>9. A \in Seq(Writes)
  BY <1>5 DEF A
<1> HIDE DEF p, ws
<1>10. ToSet(ws) = {B, S} \union ToSet(A)
  BY <1>7, <1>8, <1>9, ConcatSet
<1>11. WritesOneEntry(ws, slot, e)
  BY <1>5, <1>6, <1>10 DEF WritesOneEntry, Appending
<1>12. call \in FileCalls /\ call = "delete" /\ table[slot].listed
  BY <1>2 DEF FileCalls
<1> HIDE DEF call
<1> QED BY <1>1, <1>4, <1>11, <1>12, FileCallKeepsPromise

LEMMA GrantAccessKeepsPromise ==
  ASSUME ShapeInv, CallsInv, PromiseInv, NEW p \in Peers, GrantAccess(p)
  PROVE  PromiseInv'
<1> DEFINE free == RecipientSlots \ GrantedSlots
           slot == Min(free)
           r == [peer |-> p, dek |-> handle.key]
           R == RecipientWrite(slot, r)
           A == AppendWrites
           ws == <<R>> \o A
           call == "grant"
<1>1. /\ SlotsOfPeer(p) = {} /\ free # {} /\ Begin(call, NoName, ws)
  BY DEF GrantAccess
<1>2. slot \in RecipientSlots /\ keyring[slot].peer = NoPeer
  <2>1. free \in SUBSET Nat
    BY MaxRecipientsAssumption DEF RecipientSlots
  <2>2. slot \in free
    BY <1>1, <2>1, MinExists
  <2> QED BY <2>2 DEF GrantedSlots
<1>3. r \in Recipients /\ r.peer = p
  BY DEF Recipients, ShapeInv, HandleShape
<1> HIDE DEF slot, r
<1>4. /\ R \in Writes /\ R.region = "recipient" /\ R.at = slot /\ R.value = r
      /\ A \in Seq(Writes)
  BY <1>2, <1>3, OtherWritesShape DEF RecipientWrite
<1>5. \A w \in ToSet(A) : w.region \in Appending
  BY AppendWritesAppend
<1> HIDE DEF R, A
<1>6. ToSet(ws) = {R} \union ToSet(A)
  BY <1>4, ConsSet
<1> HIDE DEF ws
<1>7. /\ keyring' = keyring /\ todo' = ws /\ doing'.call = "grant"
  BY <1>1 DEF Begin, fileVars
<1>8. Coming' = ToSet(ws)
  BY <1>7 DEF Coming
<1>9. \A i \in RecipientSlots : keyring[i].peer # p
  BY <1>1, SlotsOfPeerIs
<1>10. ASSUME NEW w \in Coming'
       PROVE  /\ w.region = "slot" => StoresEntry(w)'
              /\ w.region = "recipient" => WritesSlot(w)'
  <2>1. w = R \/ w.region \in Appending
    BY <1>5, <1>6, <1>8
  <2>2. w.region \in Appending => w.region \notin {"slot", "recipient"}
    BY DEF Appending
  <2>3. w = R => WritesSlot(w)'
    BY <1>2, <1>3, <1>4, <1>7, <1>9 DEF WritesSlot
  <2> QED BY <1>4, <2>1, <2>2, <2>3
<1>11. call # "none" /\ call # "add" /\ call # "revoke"
  OBVIOUS
<1> HIDE DEF call
<1> QED BY <1>1, <1>10, <1>11, BeginKeepsPromise

(* The slot that a revocation empties comes before all that it keeps.      *)
NoneOf(ws, region) == \A w \in ToSet(ws) : w.region # region

LEMMA ConcatPlaces ==
  ASSUME NEW S, NEW p \in Seq(S), NEW q \in Seq(S), NEW k \in 1 .. Len(p \o q)
  PROVE  \/ k \in 1 .. Len(p) /\ (p \o q)[k] = p[k] /\ p[k] \in ToSet(p)
         \/ k - Len(p) \in 1 .. Len(q) /\ k > Len(p) /\ (p \o q)[k] = q[k - Len(p)]
            /\ q[k - Len(p)] \in ToSet(q)
<1>1. /\ Len(p \o q) = Len(p) + Len(q) /\ Len(p) \in Nat /\ Len(q) \in Nat
      /\ DOMAIN p = 1 .. Len(p) /\ DOMAIN q = 1 .. Len(q)
  OBVIOUS
<1>2. CASE k <= Len(p)
  <2>1. k \in 1 .. Len(p) /\ (p \o q)[k] = p[k]
    BY <1>1, <1>2
  <2> QED BY <1>1, <2>1 DEF ToSet
<1>3. CASE k > Len(p)
  <2>1. k - Len(p) \in 1 .. Len(q) /\ k > Len(p) /\ (p \o q)[k] = q[k - Len(p)]
    BY <1>1, <1>3
  <2> QED BY <1>1, <2>1 DEF ToSet
<1>4. k \in Nat
  BY <1>1
<1> QED BY <1>1, <1>2, <1>3, <1>4

LEMMA DropsFirstConcat ==
  ASSUME NEW p \in Seq(Writes), NEW q \in Seq(Writes),
         \/ NoneOf(p, "recipient") /\ DropsFirst(q)
         \/ DropsFirst(p) /\ NoneOf(q, "recipient")
  PROVE  DropsFirst(p \o q)
<1> DEFINE ws == p \o q
<1> SUFFICES ASSUME NEW k \in 1 .. Len(ws), NEW l \in 1 .. Len(ws), k < l,
                    ws[k].region = "recipient", ws[l].region = "recipient"
             PROVE  /\ ws[l].value # NoRecipient
                    /\ ws[k].value = NoRecipient => ws[l].at # ws[k].at
  BY DEF DropsFirst
<1>1. Len(p) \in Nat /\ Len(q) \in Nat /\ k \in Int /\ l \in Int
  OBVIOUS
<1>2. \/ k \in 1 .. Len(p) /\ ws[k] = p[k] /\ p[k] \in ToSet(p)
      \/ k - Len(p) \in 1 .. Len(q) /\ k > Len(p) /\ ws[k] = q[k - Len(p)] /\ q[k - Len(p)] \in ToSet(q)
  BY ConcatPlaces
<1>3. \/ l \in 1 .. Len(p) /\ ws[l] = p[l] /\ p[l] \in ToSet(p)
      \/ l - Len(p) \in 1 .. Len(q) /\ l > Len(p) /\ ws[l] = q[l - Len(p)] /\ q[l - Len(p)] \in ToSet(q)
  BY ConcatPlaces
<1> HIDE DEF ws
<1>4. CASE NoneOf(p, "recipient") /\ DropsFirst(q)
  <2>1. /\ k - Len(p) \in 1 .. Len(q) /\ ws[k] = q[k - Len(p)]
        /\ l - Len(p) \in 1 .. Len(q) /\ ws[l] = q[l - Len(p)]
    BY <1>2, <1>3, <1>4 DEF NoneOf
  <2>2. k - Len(p) < l - Len(p)
    BY <1>1
  <2> QED BY <1>4, <2>1, <2>2 DEF DropsFirst
<1>5. CASE DropsFirst(p) /\ NoneOf(q, "recipient")
  <2>1. k \in 1 .. Len(p) /\ ws[k] = p[k] /\ l \in 1 .. Len(p) /\ ws[l] = p[l]
    BY <1>2, <1>3, <1>5 DEF NoneOf
  <2> QED BY <1>5, <2>1 DEF DropsFirst
<1> QED BY <1>4, <1>5

LEMMA KeyringDropsFirst ==
  ASSUME WellGranted(keyring), NEW revoked \in RecipientSlots, NEW new \in Keys
  PROVE  DropsFirst(KeyringWrites(revoked, new))
<1> DEFINE slots == GrantedSlots \ {revoked}
           R == RecipientWrite(revoked, NoRecipient)
           rest == Rewrap(slots, new)
           head == <<R>>
           ring == head \o rest
<1>1. rest \in Seq(Writes) /\ slots \in SUBSET GrantedSlots
  BY RewrapShape
<1>2. R \in Writes /\ R.at = revoked
  BY OtherWritesShape DEF Recipients, RecipientWrite
<1>3. ASSUME NEW w \in ToSet(rest) PROVE w.at # revoked /\ w.value # NoRecipient
  <2>1. PICK i \in slots : w = RecipientWrite(i, [keyring[i] EXCEPT !.dek = new])
    BY <1>1, <1>3, RewrapSet
  <2>2. i \in RecipientSlots /\ i # revoked /\ keyring[i].peer # NoPeer
    BY <2>1 DEF GrantedSlots
  <2>3. keyring[i] \in [peer : Peers, dek : Keys]
    BY <2>2 DEF WellGranted, Recipients, NoRecipient
  <2>4. [keyring[i] EXCEPT !.dek = new].peer = keyring[i].peer
    BY <2>3
  <2>5. w.at = i /\ w.value = [keyring[i] EXCEPT !.dek = new]
    BY <2>1 DEF RecipientWrite
  <2> QED BY <2>2, <2>4, <2>5 DEF NoRecipient
<1>4. KeyringWrites(revoked, new) = ring
  BY DEF KeyringWrites
<1>5. head \in Seq(Writes) /\ Len(head) = 1 /\ ToSet(head) = {R}
  BY <1>2, SingleWrite
<1> HIDE DEF R, rest, head
<1>6. ASSUME NEW k \in 1 .. Len(ring), NEW l \in 1 .. Len(ring), k < l
      PROVE  ring[l] \in ToSet(rest) /\ (ring[k] = R \/ ring[k] \in ToSet(rest))
  <2>1. \/ k \in 1 .. Len(head) /\ ring[k] = head[k] /\ head[k] \in ToSet(head)
        \/ k - Len(head) \in 1 .. Len(rest) /\ k > Len(head) /\ ring[k] = rest[k - Len(head)]
           /\ rest[k - Len(head)] \in ToSet(rest)
    BY <1>1, <1>5, ConcatPlaces
  <2>2. \/ l \in 1 .. Len(head) /\ ring[l] = head[l] /\ head[l] \in ToSet(head)
        \/ l - Len(head) \in 1 .. Len(rest) /\ l > Len(head) /\ ring[l] = rest[l - Len(head)]
           /\ rest[l - Len(head)] \in ToSet(rest)
    BY <1>1, <1>5, ConcatPlaces
  <2> HIDE DEF ring
  <2> QED BY <1>5, <1>6, <2>1, <2>2
<1> HIDE DEF ring
<1>7. DropsFirst(ring)
  BY <1>2, <1>3, <1>6 DEF DropsFirst
<1> QED BY <1>4, <1>7

LEMMA RevokeDropsFirst ==
  ASSUME ShapeInv, AllReadable, NEW revoked \in RecipientSlots, NEW new \in Keys, NEW K \in Writes,
         K.region = "keyslot", NEW ws, RevokeWrites(ws, revoked, new, K)
  PROVE  DropsFirst(ws)
<1> DEFINE all == ResealAll(new)
           ring == KeyringWrites(revoked, new)
           k == <<K>>
           A == AppendWrites
<1>1. FileShape /\ HandleShape /\ WellGranted(keyring)
  BY DEF ShapeInv, FileShape
<1>2. all \in Seq(Writes) /\ NoneOf(all, "recipient")
  <2>1. all \in Seq(Writes)
    BY <1>1, ResealAllShape
  <2>2. \A w \in ToSet(all) : \E i \in ListedSlots : \E b \in Own(i) : w = Reseal(i, b, new)
    BY <1>1, ResealAllSet
  <2>3. \A i, b : Reseal(i, b, new).region = "block"
    BY DEF Reseal, BlockWrite
  <2> HIDE DEF all
  <2> QED BY <2>1, <2>2, <2>3 DEF NoneOf
<1>3. ring \in Seq(Writes) /\ DropsFirst(ring)
  BY <1>1, KeyringSet, KeyringDropsFirst
<1>4. k \in Seq(Writes) /\ NoneOf(k, "recipient")
  <2>1. k \in Seq(Writes) /\ ToSet(k) = {K}
    BY SingleWrite
  <2> HIDE DEF k
  <2> QED BY <2>1 DEF NoneOf
<1>5. A \in Seq(Writes) /\ NoneOf(A, "recipient")
  BY AppendWritesAppend DEF NoneOf, Appending
<1>6. ws = ((all \o ring) \o k) \o A
  BY DEF RevokeWrites
<1> HIDE DEF all, ring, k, A
<1>7. all \o ring \in Seq(Writes) /\ DropsFirst(all \o ring)
  BY <1>2, <1>3, DropsFirstConcat
<1> DEFINE p == all \o ring
<1>8. p \in Seq(Writes) /\ DropsFirst(p)
  BY <1>7
<1> HIDE DEF p
<1>9. p \o k \in Seq(Writes) /\ DropsFirst(p \o k)
  BY <1>4, <1>8, DropsFirstConcat
<1> DEFINE q == p \o k
<1>10. q \in Seq(Writes) /\ DropsFirst(q)
  BY <1>9
<1> HIDE DEF q
<1>11. DropsFirst(q \o A)
  BY <1>5, <1>10, DropsFirstConcat
<1> QED BY <1>6, <1>11 DEF p, q

LEMMA RevokeAccessKeepsPromise ==
  ASSUME ShapeInv, CallsInv, PromiseInv, NEW p \in Peers, NEW password \in Passwords,
         RevokeAccess(p, password)
  PROVE  PromiseInv'
<1> DEFINE version == calls + 1
           revoked == Min(SlotsOfPeer(p))
           slot == [password |-> password, dek |-> version]
           K == KeySlotWrite(slot)
           ws == ((ResealAll(version) \o KeyringWrites(revoked, version)) \o <<K>>) \o AppendWrites
           call == "revoke"
<1>1. /\ CanMutate /\ SlotsOfPeer(p) # {} /\ Begin(call, NoName, ws)
  BY DEF RevokeAccess
<1> HIDE DEF ws
<1>2. version \in Keys
  BY <1>1, NewIsAnId
<1>3. revoked \in RecipientSlots /\ keyring[revoked].peer # NoPeer
  <2>1. SlotsOfPeer(p) \in SUBSET Nat
    BY MaxRecipientsAssumption DEF SlotsOfPeer, GrantedSlots, RecipientSlots
  <2>2. revoked \in SlotsOfPeer(p)
    BY <1>1, <2>1, MinExists
  <2> QED BY <2>2 DEF SlotsOfPeer, GrantedSlots
<1>4. K \in Writes /\ K.region = "keyslot"
  <2>1. slot \in AdminSlot
    BY <1>2 DEF AdminSlot
  <2> HIDE DEF slot
  <2> QED BY <2>1, OtherWritesShape DEF KeySlotWrite
<1> HIDE DEF revoked, K
<1>5. RevokeWrites(ws, revoked, version, K)
  BY DEF RevokeWrites, ws
<1> HIDE DEF version
<1>6. /\ DropsFirst(ws)
      /\ \A w \in ToSet(ws) : \/ IsReseal(w, version) \/ IsRewrap(w, revoked, version) \/ w = K
                              \/ w.region \in {"chain", "header"}
  BY <1>2, <1>3, <1>4, <1>5, RevokeReads, RevokeDropsFirst, RevokeWritesAre
<1>7. keyring' = keyring /\ todo' = ws /\ doing'.call = "revoke"
  BY <1>1 DEF Begin, fileVars
<1>8. Coming' = ToSet(ws)
  BY <1>7 DEF Coming
<1>9. ASSUME NEW w \in Coming'
      PROVE  /\ w.region = "slot" => StoresEntry(w)'
             /\ w.region = "recipient" => WritesSlot(w)'
  <2>1. w.region # "slot" /\ (w.region = "recipient" => IsRewrap(w, revoked, version))
    BY <1>4, <1>6, <1>8 DEF IsReseal, IsRewrap
  <2>2. ASSUME IsRewrap(w, revoked, version) PROVE WritesSlot(w)'
    <3>1. CASE w.at = revoked /\ w.value = NoRecipient
      BY <1>3, <1>7, <3>1 DEF WritesSlot
    <3>2. CASE w.at \in GrantedSlots \ {revoked} /\ w.value = [keyring[w.at] EXCEPT !.dek = version]
      <4>1. w.at \in RecipientSlots /\ keyring[w.at].peer # NoPeer
        BY <3>2 DEF GrantedSlots
      <4>2. keyring[w.at] \in [peer : Peers, dek : Keys]
        BY <4>1 DEF ShapeInv, FileShape, WellGranted, Recipients, NoRecipient
      <4>3. w.value.peer = keyring[w.at].peer
        BY <3>2, <4>2
      <4> QED BY <1>7, <4>1, <4>3 DEF WritesSlot
    <3> QED BY <2>2, <3>1, <3>2 DEF IsRewrap
  <2> QED BY <2>1, <2>2
<1>10. call # "none" /\ call # "add" /\ (call = "revoke" => DropsFirst(todo'))
  BY <1>6, <1>7
<1> HIDE DEF call
<1> QED BY <1>1, <1>9, <1>10, BeginKeepsPromise

LEMMA DropsFirstTail ==
  ASSUME NEW ws \in Seq(Writes), ws # <<>>, DropsFirst(ws)
  PROVE  /\ DropsFirst(Tail(ws))
         /\ \A x \in ToSet(Tail(ws)) :
              Head(ws).region = "recipient" /\ x.region = "recipient" =>
                x.value # NoRecipient /\ (Head(ws).value = NoRecipient => x.at # Head(ws).at)
<1>1. /\ Len(ws) \in Nat /\ Len(ws) >= 1 /\ Head(ws) = ws[1]
      /\ Tail(ws) \in Seq(Writes) /\ Len(Tail(ws)) = Len(ws) - 1
      /\ \A k \in 1 .. Len(ws) - 1 : Tail(ws)[k] = ws[k + 1]
  BY HeadAndTail
<1> DEFINE tail == Tail(ws)
<1>2. /\ DOMAIN tail = 1 .. Len(ws) - 1 /\ Len(tail) = Len(ws) - 1
      /\ \A k \in 1 .. Len(ws) - 1 : tail[k] = ws[k + 1] /\ k + 1 \in 1 .. Len(ws)
  BY <1>1
<1> HIDE DEF tail
<1>3. DropsFirst(tail)
  BY <1>1, <1>2 DEF DropsFirst
<1>4. ASSUME NEW x \in ToSet(tail), Head(ws).region = "recipient", x.region = "recipient"
      PROVE  x.value # NoRecipient /\ (Head(ws).value = NoRecipient => x.at # Head(ws).at)
  <2>1. PICK k \in 1 .. Len(ws) - 1 : x = ws[k + 1]
    BY <1>2, <1>4 DEF ToSet
  <2>2. 1 \in 1 .. Len(ws) /\ k + 1 \in 1 .. Len(ws) /\ 1 < k + 1
    BY <1>1
  <2> QED BY <1>1, <1>4, <2>1, <2>2 DEF DropsFirst
<1> QED BY <1>3, <1>4 DEF tail

LEMMA WriteKeepsPromise ==
  ASSUME ShapeInv, ShapeInv', WriterInv, cached \in Handle, CallInv, PromiseInv, Write
  PROVE  PromiseInv'
<1> SUFFICES ASSUME hurt' # Names PROVE PromiseInv'
  BY DEF PromiseInv
<1>1. calls' = calls /\ hurt' = hurt /\ hurt # Names
  BY DEF Write, Advance
<1>2. PICK w : w = Head(todo)
  OBVIOUS
<1>3. PICK i : i = w.at
  OBVIOUS
<1>4. PICK v : v = w.value
  OBVIOUS
<1>5. /\ w \in Writes /\ todo # <<>> /\ todo' = Tail(todo) /\ Coming = {w} \union Coming'
      /\ doing' = doing \/ (doing' = NoCall /\ todo' = <<>>)
      /\ table' = (IF w.region = "slot" THEN [table EXCEPT ![i] = v] ELSE table)
      /\ keyring' = (IF w.region = "recipient" THEN [keyring EXCEPT ![i] = v] ELSE keyring)
  BY <1>2, <1>3, <1>4, WriteEffects
<1>6. PeersApart /\ (\A n \in hurt : SlotsNamed(n) # {})
      /\ (doing.call \in FileCalls => doing.name \notin hurt)
      /\ (\A x \in Coming : x.region = "slot" => StoresEntry(x))
      /\ (\A x \in Coming : x.region = "recipient" => WritesSlot(x))
      /\ (doing.call = "revoke" => DropsFirst(todo))
  BY <1>1 DEF PromiseInv
<1>7. todo' = <<>> => Coming' = {}
  BY DEF Coming, ToSet
<1>8. doing' = NoCall => doing'.call = "none"
  BY DEF NoCall
<1>9. doing'.call \in FileCalls => doing'.name \notin hurt'
  BY <1>1, <1>5, <1>6, <1>8 DEF FileCalls
<1>10. doing'.call = "revoke" =>
         /\ DropsFirst(todo')
         /\ \A x \in Coming' : w.region = "recipient" /\ x.region = "recipient" =>
              x.value # NoRecipient /\ (v = NoRecipient => x.at # i)
  <2> SUFFICES ASSUME doing'.call = "revoke"
               PROVE  /\ DropsFirst(todo')
                      /\ \A x \in Coming' : w.region = "recipient" /\ x.region = "recipient" =>
                           x.value # NoRecipient /\ (v = NoRecipient => x.at # i)
    OBVIOUS
  <2>1. DropsFirst(todo) /\ todo \in Seq(Writes)
    BY <1>5, <1>6, <1>8 DEF ShapeInv, CallShape
  <2>2. Coming' = ToSet(Tail(todo))
    BY <1>5 DEF Coming
  <2> QED BY <1>2, <1>3, <1>4, <1>5, <2>1, <2>2, DropsFirstTail
<1>11. doing'.call = "revoke" => DropsFirst(todo)'
  BY <1>10 DEF DropsFirst
<1>12. CASE w.region \notin {"slot", "recipient"}
  <2>1. table' = table /\ keyring' = keyring
    BY <1>5, <1>12
  <2>2. GrantedSlots' = GrantedSlots /\ \A n : SlotsNamed(n)' = SlotsNamed(n)
    BY <2>1, SameTable DEF GrantedSlots
  <2>3. PeersApart' /\ \A n \in hurt' : SlotsNamed(n)' # {}
    BY <1>1, <1>6, <2>1, <2>2 DEF PeersApart
  <2>4. ASSUME NEW x \in Coming'
        PROVE  /\ x.region = "slot" => StoresEntry(x)'
               /\ x.region = "recipient" => WritesSlot(x)'
    <3>1. doing' = doing /\ x \in Coming
      BY <1>5, <1>7
    <3> QED BY <1>1, <1>6, <2>1, <3>1 DEF StoresEntry, WritesSlot
  <2> QED BY <1>9, <1>11, <2>3, <2>4 DEF PromiseInv
<1>13. CASE w.region = "slot"
  <2>1. doing.call \in FileCalls /\ \A x \in Coming' : x.region \in Appending
    BY <1>1, <1>2, <1>13, AheadOf DEF Calls, FileCalls, Preparing, Decisive, Appending
  <2>2. keyring' = keyring /\ table' = [table EXCEPT ![i] = v]
    BY <1>5, <1>13
  <2>3. PeersApart'
    BY <1>6, <2>2 DEF PeersApart, GrantedSlots
  <2>4. w \in Coming /\ i \in FileSlots
    BY <1>3, <1>5, <1>13, WriteShapes
  <2>5. table[i].listed => table[i].name = doing.name
    BY <1>1, <1>3, <1>13, <2>4, AheadOf DEF Target
  <2>6. \A j \in FileSlots : j # i => table'[j] = table[j]
    BY <2>2, <2>4 DEF ShapeInv, FileShape, WellListed
  <2>7. ASSUME NEW n \in hurt' PROVE SlotsNamed(n)' # {}
    <3>1. n \in hurt /\ n # doing.name
      BY <1>1, <1>6, <2>1
    <3>2. PICK j \in FileSlots : table[j].listed /\ table[j].name = n
      BY <1>6, <3>1 DEF SlotsNamed, ListedSlots
    <3>3. table'[j] = table[j]
      BY <2>5, <2>6, <3>1, <3>2
    <3> QED BY <3>2, <3>3 DEF SlotsNamed, ListedSlots
  <2>8. \A x \in Coming' : x.region \notin {"slot", "recipient"}
    BY <2>1 DEF Appending
  <2> QED BY <1>9, <1>11, <2>3, <2>7, <2>8 DEF PromiseInv
<1>14. CASE w.region = "recipient"
  <2>1. table' = table /\ keyring' = [keyring EXCEPT ![i] = v]
    BY <1>5, <1>14
  <2>2. \A n \in hurt' : SlotsNamed(n)' # {}
    BY <1>1, <1>6, <2>1, SameTable
  <2>3. i \in RecipientSlots /\ v \in Recipients
    BY <1>3, <1>4, <1>5, <1>14, WriteShapes
  <2>4. keyring'[i] = v /\ \A j \in RecipientSlots : j # i => keyring'[j] = keyring[j]
    BY <2>1, <2>3 DEF ShapeInv, FileShape, WellGranted
  <2>5. w \in Coming /\ WritesSlot(w)
    BY <1>5, <1>6, <1>14
  <2>6. doing.call \in {"grant", "revoke"}
    BY <1>1, <1>2, <1>14, AheadOf DEF Appending, Decisive, Preparing, Calls
  <2>7. CASE doing.call = "grant"
    <3>1. \A x \in Coming' : x.region \notin {"slot", "recipient"}
      BY <1>1, <1>2, <1>14, <2>7, AheadOf DEF Appending, Preparing
    <3>2. \A j \in RecipientSlots : keyring[j].peer # v.peer
      BY <1>4, <2>5, <2>7 DEF WritesSlot
    <3>3. PeersApart'
      BY <1>6, <2>3, <2>4, <3>2 DEF PeersApart, GrantedSlots
    <3> QED BY <1>9, <1>11, <2>2, <3>1, <3>3 DEF PromiseInv
  <2>8. CASE doing.call = "revoke"
    <3>1. doing' = doing /\ \A x \in Coming : x.region # "slot"
      BY <1>1, <1>2, <1>14, <2>8, RevokingAhead
    <3>2. keyring[i].peer # NoPeer /\ (v = NoRecipient \/ v.peer = keyring[i].peer)
      BY <1>3, <1>4, <2>5, <2>8 DEF WritesSlot
    <3>3. NoRecipient.peer = NoPeer
      BY DEF NoRecipient
    <3>4. \A j \in RecipientSlots :
            keyring'[j].peer # NoPeer => keyring[j].peer # NoPeer /\ keyring'[j].peer = keyring[j].peer
      BY <2>3, <2>4, <3>2, <3>3
    <3>5. PeersApart'
      BY <1>6, <3>4 DEF PeersApart, GrantedSlots
    <3>6. ASSUME NEW x \in Coming', x.region = "recipient" PROVE WritesSlot(x)'
      <4>1. /\ keyring[x.at].peer # NoPeer /\ x.value # NoRecipient
            /\ x.value.peer = keyring[x.at].peer /\ (v = NoRecipient => x.at # i)
        BY <1>5, <1>6, <1>10, <1>14, <2>8, <3>1, <3>6 DEF WritesSlot
      <4>2. x.at \in RecipientSlots
        <5>1. x \in Writes
          BY DEF Coming, ToSet, ShapeInv, CallShape
        <5> QED BY <3>6, <5>1, WriteShapes
      <4>3. keyring'[x.at].peer = keyring[x.at].peer
        BY <2>4, <3>2, <4>1, <4>2
      <4> QED BY <2>8, <3>1, <4>1, <4>3 DEF WritesSlot
    <3>7. \A x \in Coming' : x.region # "slot"
      BY <1>5, <3>1
    <3> QED BY <1>9, <1>11, <2>2, <3>5, <3>6, <3>7 DEF PromiseInv
  <2> QED BY <2>6, <2>7, <2>8
<1> QED BY <1>12, <1>13, <1>14

(* The steps that neither begin a call nor go on with one.                 *)
Quietly ==
  /\ table' = table /\ keyring' = keyring /\ hurt' = hurt
  /\ doing' = doing /\ todo' = todo /\ calls' = calls

LEMMA QuietSteps ==
  ASSUME \/ UNCHANGED vaultVars
         \/ \E password \in Passwords, admin \in BOOLEAN : Open(password, admin)
         \/ \E p \in Peers : OpenAsRecipient(p)
         \/ Close
         \/ TakeChangeLog
  PROVE  Quietly
<1> USE DEF Quietly, fileVars, callVars, history
<1>1. ASSUME NEW key, NEW admin, OpenWith(key, admin) PROVE Quietly
  BY <1>1 DEF OpenWith
<1>2. CASE Close \/ TakeChangeLog
  BY <1>2 DEF Close, TakeChangeLog
<1>3. CASE \E password \in Passwords, admin \in BOOLEAN : Open(password, admin)
  BY <1>1, <1>3 DEF Open
<1>4. CASE \E p \in Peers : OpenAsRecipient(p)
  BY <1>1, <1>4 DEF OpenAsRecipient
<1>5. CASE UNCHANGED vaultVars
  BY <1>5 DEF vaultVars
<1> QED BY <1>2, <1>3, <1>4, <1>5

LEMMA NextCases ==
  ASSUME [VaultNext]_vaultVars
  PROVE  \/ \E n \in Names, size \in Sizes : AddFile(n, size)
         \/ \E n \in Names, size \in Sizes : UpdateFile(n, size)
         \/ \E n \in Names : DeleteFile(n)
         \/ \E p \in Peers : GrantAccess(p)
         \/ \E p \in Peers, password \in Passwords : RevokeAccess(p, password)
         \/ Write
         \/ WriteFails \/ Crash
         \/ Quietly
  BY QuietSteps DEF VaultNext

LEMMA NextKeepsPromise ==
  ASSUME ShapeInv, ShapeInv', CallsInv, WriterInv, HashChainTypeOK, CallInv, PromiseInv,
         [VaultNext]_vaultVars
  PROVE  PromiseInv'
<1>1. cached \in Handle
  BY DEF HashChainTypeOK
<1>2. CASE \E n \in Names, size \in Sizes : AddFile(n, size)
  BY <1>2, AddFileKeepsPromise
<1>3. CASE \E n \in Names, size \in Sizes : UpdateFile(n, size)
  BY <1>3, UpdateFileKeepsPromise
<1>4. CASE \E n \in Names : DeleteFile(n)
  BY <1>4, DeleteFileKeepsPromise
<1>5. CASE \E p \in Peers : GrantAccess(p)
  BY <1>5, GrantAccessKeepsPromise
<1>6. CASE \E p \in Peers, password \in Passwords : RevokeAccess(p, password)
  BY <1>6, RevokeAccessKeepsPromise
<1>7. CASE Write
  BY <1>1, <1>7, WriteKeepsPromise
<1>8. CASE WriteFails \/ Crash
  BY <1>1, <1>8, FaultKeepsPromise
<1>9. CASE Quietly
  BY <1>9, QuietKeepsPromise DEF Quietly
<1> QED BY <1>2, <1>3, <1>4, <1>5, <1>6, <1>7, <1>8, <1>9, NextCases

LEMMA PromiseInvHolds == VaultSpec => []PromiseInv
<1>1. VaultInit => PromiseInv
  BY InitPromise
<1>2. ShapeInv /\ CallsInv /\ WriterInv /\ HashChainTypeOK /\ CallInv /\ ShapeInv' /\ PromiseInv
        /\ [VaultNext]_vaultVars => PromiseInv'
  BY NextKeepsPromise
<1> QED BY <1>1, <1>2, CallInvHolds, PTL DEF VaultSpec

(* Each step of the container is one of the promise, or none.              *)
LEMMA NothingAhead == todo = <<>> => ~Pending /\ HurtByFault = {}
  BY NothingAtRisk

LEMMA FaultKeeps ==
  ASSUME ShapeInv, ShapeInv', WriterInv, cached \in Handle, Seen, Seen', WriteFails \/ Crash
  PROVE  Keeps
<1>1. /\ todo' = <<>> /\ hurt' = hurt \union HurtByFault /\ calls' = calls
      /\ table' = table /\ keyring' = keyring
  BY FaultEffects DEF fileVars
<1>2. (todo = <<>> => ~Pending /\ HurtByFault = {})'
  BY NothingAhead, PTL
<1>3. hurt' = hurt \union Risk /\ ~Pending' /\ Risk' = {}
  BY <1>1, <1>2 DEF Risk
<1> QED BY <1>1, <1>3, GivingUpKeeps

LEMMA QuietlyKeeps ==
  ASSUME ShapeInv, Seen, Seen', Quietly PROVE Keeps
<1>2. Pending' = Pending
  BY DEF Quietly, Pending, TakesEffect
<1>3. HurtByFault' = HurtByFault
  BY <1>2 DEF Quietly, HurtByFault
<1>4. Risk' = Risk /\ hurt \subseteq Names
  BY <1>3 DEF Quietly, Risk, ShapeInv, HistoryShape
<1> QED BY <1>2, <1>4, StutterKeeps DEF Quietly

LEMMA NextKeeps ==
  ASSUME ShapeInv, ShapeInv', CallsInv, WriterInv, HashChainTypeOK, CallInv, PromiseInv,
         Seen, Seen', [VaultNext]_vaultVars
  PROVE  Keeps
<1>1. cached \in Handle
  BY DEF HashChainTypeOK
<1>2. ASSUME NEW n \in Names, NEW size \in Sizes, AddFile(n, size) PROVE Keeps
  <2>1. CanMutate /\ \E ws : Begin("add", n, ws)
    BY <1>2 DEF AddFile
  <2> QED BY <2>1, BeginKeeps
<1>3. ASSUME NEW n \in Names, NEW size \in Sizes, UpdateFile(n, size) PROVE Keeps
  <2>1. CanMutate /\ SlotsNamed(n) # {} /\ \E ws : Begin("update", n, ws)
    BY <1>3 DEF UpdateFile
  <2> QED BY <2>1, BeginKeeps
<1>4. ASSUME NEW n \in Names, DeleteFile(n) PROVE Keeps
  <2>1. CanMutate /\ SlotsNamed(n) # {} /\ \E ws : Begin("delete", n, ws)
    BY <1>4 DEF DeleteFile
  <2> QED BY <2>1, BeginKeeps
<1>5. ASSUME NEW p \in Peers, GrantAccess(p) PROVE Keeps
  <2>1. CanMutate /\ \E ws : Begin("grant", NoName, ws)
    BY <1>5 DEF GrantAccess
  <2> QED BY <2>1, BeginKeeps
<1>6. ASSUME NEW p \in Peers, NEW password \in Passwords, RevokeAccess(p, password) PROVE Keeps
  <2>1. CanMutate /\ SlotsOfPeer(p) # {} /\ \E ws : Begin("revoke", NoName, ws)
    BY <1>6 DEF RevokeAccess
  <2> QED BY <2>1, BeginKeeps
<1>7. CASE Write
  BY <1>1, <1>7, WriteKeeps
<1>8. CASE WriteFails \/ Crash
  BY <1>1, <1>8, FaultKeeps
<1>9. CASE Quietly
  BY <1>9, QuietlyKeeps
<1> QED BY <1>2, <1>3, <1>4, <1>5, <1>6, <1>7, <1>8, <1>9, NextCases

LEMMA InitKeeps == VaultInit => Promise!Promised
<1> SUFFICES ASSUME VaultInit PROVE Promise!Promised
  OBVIOUS
<1>1. todo = <<>> /\ hurt = {} /\ calls = 0 /\ \A n : SlotsNamed(n) = {}
  BY DEF VaultInit, SlotsNamed, ListedSlots, NoEntry
<1>2. ~Pending /\ HurtByFault = {}
  BY <1>1, NothingAhead
<1>3. Pending = FALSE
  BY <1>2 DEF Pending
<1>4. \A n \in Names : VisibleFile(n) = 0
  BY <1>1 DEF VisibleFile
<1>5. \A p : SlotsOfPeer(p) = {}
  BY DEF VaultInit, SlotsOfPeer, GrantedSlots, NoRecipient
<1>6. VisibleReaders = {}
  BY <1>5 DEF VisibleReaders
<1> QED BY <1>1, <1>2, <1>3, <1>4, <1>6 DEF Promise!Promised, Promise!Absent

(* The container implements the promise to its users: every call takes     *)
(* effect in one write or never, a file always shows what the last call to *)
(* store it left, and a call that a fault cuts off loses what the promise  *)
(* put at risk and nothing else.                                           *)
THEOREM VaultKeepsPromise == VaultSpec => KeepsPromise
<1>1. VaultInit => Promise!Promised
  BY InitKeeps
<1>2. ShapeInv /\ ShapeInv' /\ CallsInv /\ WriterInv /\ HashChainTypeOK /\ CallInv /\ CallInv'
        /\ NamedInv /\ NamedInv' /\ PromiseInv /\ [VaultNext]_vaultVars
        => [Promise!PromiseNext]_(Promise!promiseVars)
  <2> SUFFICES ASSUME ShapeInv, ShapeInv', CallsInv, WriterInv, HashChainTypeOK, CallInv, CallInv',
                      NamedInv, NamedInv', PromiseInv, [VaultNext]_vaultVars
               PROVE  Keeps
    BY DEF Keeps
  <2>1. Seen
    BY InvSeen
  <2>2. (ShapeInv /\ CallInv /\ NamedInv => Seen)'
    BY InvSeen, PTL
  <2> QED BY <2>1, <2>2, NextKeeps
<1> QED
  BY <1>1, <1>2, CallInvHolds, NamedHolds, PromiseInvHolds, PTL DEF VaultSpec, KeepsPromise, Promise!PromiseSpec

===============================================================================
