------------------------------ MODULE Replication ------------------------------
(***************************************************************************)
(* How a peer's replica follows a container that its admin serves: the     *)
(* change log of the admin's handle, the patch journal of a serving        *)
(* session, the answer to a peer's sync request, and what the peer does    *)
(* with the answer.                                                        *)
(*                                                                         *)
(* A container is a function from byte ranges to the number of the call    *)
(* that wrote them last; the range Header holds the chain position         *)
(* (chain_next_seq).  A mutating call writes some ranges and the header    *)
(* last, or fails after some of the ranges.  What it writes is one batch.  *)
(* Replica and container are compared range by range.                      *)
(*                                                                         *)
(* The serving side runs one call or answers one request at a time.  An    *)
(* answer may be lost or arrive after further calls, and a peer may be cut *)
(* off while it applies a patch.  A full copy replaces the replica at      *)
(* once.  All peers here are granted ones.                                 *)
(***************************************************************************)
EXTENDS Integers, Sequences, SequencesExt, FiniteSets, TLC

CONSTANTS
  Ranges,             \* byte ranges other than the header
  Header,
  Peers,
  Capacity,           \* capacity of the journal
  Programs,           \* the programs that open the container, of "console" and "terminal"
  MaxCalls,           \* bound: number of mutating calls
  MaxFailures         \* bound: number of calls that fail

ASSUME HeaderAssumption == Header \notin Ranges
ASSUME CapacityAssumption == Capacity \in Nat
ASSUME ProgramsAssumption == Programs \subseteq {"console", "terminal"}
ASSUME CallBounds == MaxCalls \in Nat /\ MaxFailures \in Nat

VARIABLES
  file,       \* the admin's container
  program,    \* the program that has it open: serve console or terminal interface
  position,   \* chain_next_seq in the handle's memory
  log,        \* the handle's change log: the batches written since it was drained
  serving,    \* whether a serving session is running
  journal,    \* its journal: entries of a sequence number and batches
  replica,    \* each peer's replica
  answer,     \* the answer on its way to each peer
  calls,      \* calls so far
  failures,   \* calls that failed
  forgotten   \* history: the ranges that a failed call wrote, and no call since,
              \* under a handle that has ended: no log or journal has them

handleVars == <<program, position, log>>
sessionVars == <<serving, journal>>
peerVars == <<replica, answer>>
boundVars == <<calls, failures>>
replicationVars == <<file, handleVars, sessionVars, peerVars, boundVars, forgotten>>

AllRanges == Ranges \union {Header}
Container == [AllRanges -> Nat]
IsBatch(b) == DOMAIN b \subseteq AllRanges /\ b \in [DOMAIN b -> Nat]
IsPatch(bs) == bs \in Seq(Range(bs)) /\ \A i \in 1 .. Len(bs) : IsBatch(bs[i])
NoReplica == [r \in AllRanges |-> 0]     \* next_seq 0: nothing joined yet
NoAnswer == [kind |-> "none"]
IsAnswer(a) ==
  \/ a = NoAnswer
  \/ a.kind = "full" /\ a.file \in Container
  \/ a.kind = "patch" /\ IsPatch(a.batches)

Overwrite(c, batch) == [r \in AllRanges |-> IF r \in DOMAIN batch THEN batch[r] ELSE c[r]]
OverwriteAll(c, batches) == FoldLeft(Overwrite, c, batches)

-------------------------------------------------------------------------------
(* The journal.                                                            *)
RecordedUncut(entries, seq, batches) ==                                 \* mutant
  Append(entries, [seq |-> seq, batches |-> batches])
Recorded(entries, seq, batches) ==
  LET longer == Append(entries, [seq |-> seq, batches |-> batches])
      excess == Len(longer) - Capacity
  IN  IF Capacity = 0 THEN entries
      ELSE IF excess > 0 THEN SubSeq(longer, excess + 1, Len(longer)) ELSE longer

(* ranges_since answers from the journal if its oldest entry is not newer  *)
(* than the peer's position.                                               *)
CoversFromNext(n) == n # 0 /\ journal # <<>> /\ n + 1 >= journal[1].seq       \* mutant
Covers(n) == n # 0 /\ journal # <<>> /\ n >= journal[1].seq
RangesAfter(n) ==                                                       \* mutant
  FlattenSeq([i \in 1 .. Len(journal) |->
                IF journal[i].seq > n THEN journal[i].batches ELSE <<>>])
RangesSince(n) ==
  FlattenSeq([i \in 1 .. Len(journal) |->
                IF journal[i].seq >= n THEN journal[i].batches ELSE <<>>])

(* serve_stream, poll_network: a patch if the journal covers the peer's    *)
(* position, and a full copy otherwise.  The peer's last hash is ignored.  *)
AnswerTo(n) ==
  IF Covers(n) THEN [kind |-> "patch", batches |-> RangesSince(n)]
               ELSE [kind |-> "full", file |-> file]

-------------------------------------------------------------------------------
(* The admin's side.                                                       *)
WrittenBy(c, R) == [r \in R |-> c]
CallBatch(c, R, seq) == [r \in R \union {Header} |-> IF r = Header THEN seq ELSE c]

(* A mutating call that succeeds.  Add, update and delete read the         *)
(* position before they start, and while serving they record what the      *)
(* change log holds when they are done.                                    *)
Mutate(R) ==
  LET batch == CallBatch(calls + 1, R, position + 1) IN
  /\ calls < MaxCalls
  /\ calls' = calls + 1
  /\ file' = Overwrite(file, batch)
  /\ position' = position + 1
  /\ IF serving
     THEN /\ journal' = Recorded(journal, position, Append(log, batch))
          /\ log' = <<>>
     ELSE /\ log' = Append(log, batch)
          /\ UNCHANGED journal
  /\ forgotten' = forgotten \ R
  /\ UNCHANGED <<program, serving, peerVars, failures>>

(* submit_grant and submit_revoke of the terminal interface leave the      *)
(* journal and the change log alone.                                       *)
MutateUnrecorded(R) ==
  LET batch == CallBatch(calls + 1, R, position + 1) IN
  /\ serving
  /\ program = "terminal"
  /\ calls < MaxCalls
  /\ calls' = calls + 1
  /\ file' = Overwrite(file, batch)
  /\ position' = position + 1
  /\ log' = Append(log, batch)
  /\ forgotten' = forgotten \ R
  /\ UNCHANGED <<program, sessionVars, peerVars, failures>>

(* A call that fails after some of its writes, none of them the header (a  *)
(* revocation, which nobody makes while serving here, writes it twice). If *)
(* it is the header that cannot be written, the position in memory has     *)
(* moved on.  Nothing is recorded, and the bytes written stay in the       *)
(* change log.                                                             *)
MutateFails(R) ==
  LET batch == WrittenBy(calls + 1, R) IN
  /\ calls < MaxCalls
  /\ failures < MaxFailures
  /\ calls' = calls + 1
  /\ failures' = failures + 1
  /\ file' = Overwrite(file, batch)
  /\ position' \in {position, position + 1}
  /\ log' = Append(log, batch)
  /\ forgotten' = forgotten \ R
  /\ UNCHANGED <<program, sessionVars, peerVars>>

StartServing ==
  /\ ~serving
  /\ serving' = TRUE
  /\ journal' = <<>>
  /\ UNCHANGED <<file, handleVars, peerVars, boundVars, forgotten>>

StopServing ==
  /\ serving
  /\ serving' = FALSE
  /\ journal' = <<>>
  /\ UNCHANGED <<file, handleVars, peerVars, boundVars, forgotten>>

(* The bytes that a failed call left in the container and in the log.      *)
FailedBatches == {i \in 1 .. Len(log) : Header \notin DOMAIN log[i]}
FailedRanges == UNION {DOMAIN log[i] : i \in FailedBatches}

(* The handle ends, with its session and its log, and the container is     *)
(* opened again, perhaps by the other program.                             *)
Reopen ==
  /\ forgotten' = forgotten \union FailedRanges
  /\ program' \in Programs
  /\ position' = file[Header]
  /\ log' = <<>>
  /\ serving' = FALSE
  /\ journal' = <<>>
  /\ UNCHANGED <<file, peerVars, boundVars>>

-------------------------------------------------------------------------------
(* A peer's side.                                                          *)
Request(p) ==
  /\ serving
  /\ answer[p] = NoAnswer
  /\ answer' = [answer EXCEPT ![p] = AnswerTo(replica[p][Header])]
  /\ UNCHANGED <<file, handleVars, sessionVars, replica, boundVars, forgotten>>

Lose(p) ==
  /\ answer[p] # NoAnswer
  /\ answer' = [answer EXCEPT ![p] = NoAnswer]
  /\ UNCHANGED <<file, handleVars, sessionVars, replica, boundVars, forgotten>>

Replace(p, c) ==
  /\ replica' = [replica EXCEPT ![p] = c]
  /\ answer' = [answer EXCEPT ![p] = NoAnswer]
  /\ UNCHANGED <<file, handleVars, sessionVars, boundVars, forgotten>>

StoreCopy(p) == answer[p].kind = "full" /\ Replace(p, answer[p].file)

(* apply_remote_patch writes range after range.                            *)
ApplyPatch(p) ==
  /\ answer[p].kind = "patch"
  /\ Replace(p, OverwriteAll(replica[p], answer[p].batches))

(* Cut off in the batch after the first k, before its header.              *)
Partly(c, batches, k, R) ==
  LET begun == [r \in R \intersect DOMAIN batches[k + 1] |-> batches[k + 1][r]]
  IN  Overwrite(OverwriteAll(c, SubSeq(batches, 1, k)), begun)
ApplyPartly(p, k, R) ==
  /\ answer[p].kind = "patch"
  /\ k < Len(answer[p].batches)
  /\ Replace(p, Partly(replica[p], answer[p].batches, k, R))

ReplicationInit ==
  /\ file = [r \in AllRanges |-> IF r = Header THEN 1 ELSE 0]
  /\ program \in Programs
  /\ position = 1
  /\ log = <<>>
  /\ serving = FALSE
  /\ journal = <<>>
  /\ replica = [p \in Peers |-> NoReplica]
  /\ answer = [p \in Peers |-> NoAnswer]
  /\ calls = 0
  /\ failures = 0
  /\ forgotten = {}

ReplicationNext ==
  \/ \E R \in SUBSET Ranges : Mutate(R) \/ MutateUnrecorded(R) \/ MutateFails(R)
  \/ StartServing
  \/ StopServing
  \/ Reopen
  \/ \E p \in Peers : Request(p) \/ Lose(p) \/ StoreCopy(p) \/ ApplyPatch(p)
  \/ \E p \in Peers, R \in SUBSET Ranges : \E k \in 0 .. MaxCalls : ApplyPartly(p, k, R)

ReplicationSpec == ReplicationInit /\ [][ReplicationNext]_replicationVars

-------------------------------------------------------------------------------
ReplicationTypeOK ==
  /\ file \in Container
  /\ program \in Programs
  /\ position \in Nat \ {0}
  /\ IsPatch(log)
  /\ serving \in BOOLEAN
  /\ Len(journal) <= Capacity
  /\ journal \in Seq(Range(journal))
  /\ \A i \in 1 .. Len(journal) : journal[i].seq \in Nat /\ IsPatch(journal[i].batches)
  /\ replica \in [Peers -> Container]
  /\ DOMAIN answer = Peers /\ \A p \in Peers : IsAnswer(answer[p])
  /\ calls \in 0 .. MaxCalls
  /\ failures \in 0 .. MaxFailures
  /\ forgotten \subseteq Ranges

AfterSync(p) ==
  LET a == AnswerTo(replica[p][Header]) IN
  IF a.kind = "full" THEN a.file ELSE OverwriteAll(replica[p], a.batches)

(* Whatever a peer holds -- an old copy, a copy taken between two calls of *)
(* which one failed, a patch applied in part -- the answer that it would   *)
(* get now makes its replica a copy of the container, but for bytes of     *)
(* failed calls.  Those in the change log wait for the next recorded call; *)
(* those of a handle that has ended are forgotten until a call writes the  *)
(* same range again.  This is true of the console: see                     *)
(* NextRecordCatchesUp.                                                    *)
SyncCatchesUp ==
  serving /\ program = "console" =>
    \A p \in Peers : \A r \in AllRanges \ (FailedRanges \union forgotten) :
      AfterSync(p)[r] = file[r]

(* What the answer to a peer leaves out -- the bytes of a failed call, or  *)
(* of a grant made while serving -- is in the change log, so the next      *)
(* recorded call brings the peer up to date, in every range that is not    *)
(* forgotten.                                                              *)
NextRecordCatchesUp ==
  serving => \A p \in Peers : \A r \in AllRanges \ forgotten :
    OverwriteAll(AfterSync(p), log)[r] = file[r]

(* What the documentation has a restarted server do: the journal starts    *)
(* empty, and a peer falls back to a full copy and is up to date.  It is   *)
(* not so when the handle before the restart ended after a failed call.    *)
RestartsCatchUp ==
  serving /\ program = "console" =>
    \A p \in Peers : \A r \in AllRanges \ FailedRanges : AfterSync(p)[r] = file[r]
===============================================================================
