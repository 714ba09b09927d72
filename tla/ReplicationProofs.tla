--------------------------- MODULE ReplicationProofs ---------------------------
(***************************************************************************)
(* Theorems about Replication: whatever a peer holds, the answer that the  *)
(* admin would give it now makes its replica a copy of the container.      *)
(***************************************************************************)
EXTENDS Replication, SequenceLemmas

(* The set behind IsBatch.                                                 *)
Batches == UNION {[R -> Nat] : R \in SUBSET AllRanges}

LEMMA BatchTyped == \A b : IsBatch(b) <=> b \in Batches
  BY DEF IsBatch, Batches

LEMMA PatchTyped == \A bs : IsPatch(bs) <=> bs \in Seq(Batches)
<1>1. ASSUME NEW bs, IsPatch(bs) PROVE bs \in Seq(Batches)
  <2>1. bs \in Seq(Range(bs)) /\ \A i \in 1 .. Len(bs) : bs[i] \in Batches
    BY <1>1, BatchTyped DEF IsPatch
  <2>2. Len(bs) \in Nat /\ DOMAIN bs = 1 .. Len(bs) /\ bs = [i \in 1 .. Len(bs) |-> bs[i]]
    BY <2>1
  <2> QED BY <2>1, <2>2
<1>2. ASSUME NEW bs, bs \in Seq(Batches) PROVE IsPatch(bs)
  <2>1. bs \in Seq(Range(bs))
    BY <1>2 DEF Range
  <2> QED BY <2>1, <1>2, BatchTyped DEF IsPatch
<1> QED BY <1>1, <1>2

-------------------------------------------------------------------------------
(***************************************************************************)
(* What a sequence of batches leaves in a container.                       *)
(***************************************************************************)
Writers(bs, r) == {i \in 1 .. Len(bs) : r \in DOMAIN bs[i]}

(* Batch i is the last one of bs that writes r.                            *)
WritesLast(bs, i, r) ==
  /\ i \in Writers(bs, r)
  /\ \A j \in Writers(bs, r) : j <= i

(* The recursive function behind OverwriteAll, for the batches in I.       *)
OverwritesUpto(f, c, bs) ==
  f = [I \in SUBSET DOMAIN bs |->
         IF I = {} THEN c ELSE Overwrite(f[I \ {Max(I)}], bs[Max(I)])]

LEMMA OverwriteAllUnfolds ==
  ASSUME NEW c, NEW bs, \E f : OverwritesUpto(f, c, bs)
  PROVE  \E f : OverwritesUpto(f, c, bs) /\ OverwriteAll(c, bs) = f[DOMAIN bs]
<1> DEFINE f == CHOOSE f : f = [I \in SUBSET DOMAIN bs |->
                  IF I = {} THEN c ELSE Overwrite(f[I \ {Max(I)}], bs[Max(I)])]
<1>1. OverwritesUpto(f, c, bs)
  BY DEF OverwritesUpto
<1>2. OverwriteAll(c, bs) = f[DOMAIN bs]
  BY DEF OverwriteAll, FoldLeft, MapThenFoldSet
<1> QED BY <1>1, <1>2

(* What the batches in I leave: per range, the last write.                 *)
LastWrites(c, bs, I) ==
  [r \in AllRanges |->
     IF Writers(bs, r) \intersect I = {} THEN c[r]
     ELSE bs[Max(Writers(bs, r) \intersect I)][r]]

LEMMA LastWritesStep ==
  ASSUME NEW c, NEW bs, Len(bs) \in Nat, NEW I \in SUBSET (1 .. Len(bs)), I # {}
  PROVE  LastWrites(c, bs, I) = Overwrite(LastWrites(c, bs, I \ {Max(I)}), bs[Max(I)])
<1> DEFINE m == Max(I)
<1>1. m \in I /\ \A x \in I : x <= m
  <2>1. I \in SUBSET (0 .. Len(bs))
    OBVIOUS
  <2> QED BY <2>1, MaxExists
<1> HIDE DEF m
<1>2. ASSUME NEW r \in AllRanges
      PROVE  LastWrites(c, bs, I)[r] = Overwrite(LastWrites(c, bs, I \ {m}), bs[m])[r]
  <2>1. CASE r \in DOMAIN bs[m]
    <3> DEFINE W == Writers(bs, r) \intersect I
    <3>1. m \in W /\ W \in SUBSET Int /\ \A x \in W : x <= m
      BY <1>1, <2>1 DEF Writers
    <3>2. Max(W) = m
      BY <3>1, MaxIs
    <3> QED BY <3>1, <3>2, <2>1 DEF LastWrites, Overwrite
  <2>2. CASE r \notin DOMAIN bs[m]
    <3>1. Writers(bs, r) \intersect I = Writers(bs, r) \intersect (I \ {m})
      BY <2>2 DEF Writers
    <3> QED BY <3>1, <2>2 DEF LastWrites, Overwrite
  <2> QED BY <2>1, <2>2
<1>3. Overwrite(LastWrites(c, bs, I \ {m}), bs[m])
        = [r \in AllRanges |-> Overwrite(LastWrites(c, bs, I \ {m}), bs[m])[r]]
  BY DEF Overwrite
<1>4. LastWrites(c, bs, I) = [r \in AllRanges |-> LastWrites(c, bs, I)[r]]
  BY DEF LastWrites
<1>5. LastWrites(c, bs, I) = Overwrite(LastWrites(c, bs, I \ {m}), bs[m])
  BY <1>2, <1>3, <1>4
<1> QED BY <1>5 DEF m

(* Each range ends up with what the last batch that writes it gives it,    *)
(* and as it was when no batch writes it.                                  *)
LEMMA LastWriteWins ==
  ASSUME NEW c \in Container, NEW bs \in Seq(Batches)
  PROVE  /\ OverwriteAll(c, bs) \in Container
         /\ \A r \in AllRanges :
              /\ Writers(bs, r) = {} => OverwriteAll(c, bs)[r] = c[r]
              /\ \A i : WritesLast(bs, i, r) => OverwriteAll(c, bs)[r] = bs[i][r]
<1> DEFINE N == Len(bs)
           g == [I \in SUBSET (1 .. N) |-> LastWrites(c, bs, I)]
<1>1. N \in Nat /\ DOMAIN bs = 1 .. N
  OBVIOUS
<1>2. LastWrites(c, bs, {}) = c
  BY DEF LastWrites, Container
<1>3. OverwritesUpto(g, c, bs)
  <2>1. ASSUME NEW I \in SUBSET (1 .. N)
        PROVE  g[I] = IF I = {} THEN c ELSE Overwrite(g[I \ {Max(I)}], bs[Max(I)])
    <3>1. g[I] = LastWrites(c, bs, I)
      OBVIOUS
    <3>2. CASE I = {}
      BY <3>1, <3>2, <1>2
    <3>3. CASE I # {}
      <4>1. I \ {Max(I)} \in SUBSET (1 .. N)
        OBVIOUS
      <4>2. g[I \ {Max(I)}] = LastWrites(c, bs, I \ {Max(I)})
        BY <4>1
      <4>3. LastWrites(c, bs, I) = Overwrite(LastWrites(c, bs, I \ {Max(I)}), bs[Max(I)])
        BY <3>3, <1>1, LastWritesStep
      <4> QED BY <3>1, <3>3, <4>2, <4>3
    <3> QED BY <3>2, <3>3
  <2>2. g = [I \in SUBSET (1 .. N) |-> g[I]]
    OBVIOUS
  <2> HIDE DEF g, N
  <2> QED BY <1>1, <2>1, <2>2 DEF OverwritesUpto
<1>4. PICK f : OverwritesUpto(f, c, bs) /\ OverwriteAll(c, bs) = f[1 .. N]
  BY <1>1, <1>3, OverwriteAllUnfolds
<1>5. \A I \in SUBSET (1 .. N) :
        f[I] = IF I = {} THEN c ELSE Overwrite(f[I \ {Max(I)}], bs[Max(I)])
  BY <1>1, <1>4 DEF OverwritesUpto
<1> DEFINE S == {k \in Nat : k <= N => f[1 .. k] = LastWrites(c, bs, 1 .. k)}
<1>6. 0 \in S
  <2>1. 1 .. 0 = {}
    OBVIOUS
  <2> QED BY <2>1, <1>5, <1>2
<1>7. \A k \in Nat : k \in S => k + 1 \in S
  <2> SUFFICES ASSUME NEW k \in Nat, k \in S, k + 1 <= N
               PROVE  f[1 .. k + 1] = LastWrites(c, bs, 1 .. k + 1)
    OBVIOUS
  <2>1. 1 .. k + 1 # {} /\ 1 .. k + 1 \in SUBSET (1 .. N)
    <3> HIDE DEF N, S
    <3>1. k + 1 \in 1 .. k + 1
      OBVIOUS
    <3>2. \A x \in 1 .. k + 1 : x \in 1 .. N
      BY <1>1
    <3> QED BY <3>1, <3>2
  <2>2. Max(1 .. k + 1) = k + 1
    <3>1. 1 .. k + 1 \in SUBSET Int /\ k + 1 \in 1 .. k + 1 /\ \A x \in 1 .. k + 1 : x <= k + 1
      OBVIOUS
    <3> QED BY <3>1, MaxIs
  <2>3. (1 .. k + 1) \ {k + 1} = 1 .. k
    OBVIOUS
  <2>4. f[1 .. k + 1] = Overwrite(f[1 .. k], bs[k + 1])
    BY <2>1, <2>2, <2>3, <1>5
  <2>5. LastWrites(c, bs, 1 .. k + 1) = Overwrite(LastWrites(c, bs, 1 .. k), bs[k + 1])
    <3> DEFINE I == 1 .. k + 1
    <3>1. LastWrites(c, bs, I) = Overwrite(LastWrites(c, bs, I \ {Max(I)}), bs[Max(I)])
      <4> HIDE DEF I
      <4> QED BY <2>1, <1>1, LastWritesStep DEF I
    <3> QED BY <3>1, <2>2, <2>3
  <2>6. f[1 .. k] = LastWrites(c, bs, 1 .. k)
    BY <1>1
  <2> QED BY <2>4, <2>5, <2>6
<1>8. N \in S
  <2> HIDE DEF S, N
  <2> QED BY <1>1, <1>6, <1>7, SetInduction
<1>9. OverwriteAll(c, bs) = LastWrites(c, bs, 1 .. N)
  BY <1>1, <1>4, <1>8
<1>10. ASSUME NEW r \in AllRanges
       PROVE  /\ Writers(bs, r) = {} => OverwriteAll(c, bs)[r] = c[r]
              /\ \A i : WritesLast(bs, i, r) => OverwriteAll(c, bs)[r] = bs[i][r]
              /\ OverwriteAll(c, bs)[r] \in Nat
  <2>1. Writers(bs, r) \intersect (1 .. N) = Writers(bs, r)
    BY DEF Writers
  <2>2. OverwriteAll(c, bs)[r] = IF Writers(bs, r) = {} THEN c[r] ELSE bs[Max(Writers(bs, r))][r]
    BY <1>9, <2>1 DEF LastWrites
  <2>3. ASSUME NEW i, WritesLast(bs, i, r) PROVE OverwriteAll(c, bs)[r] = bs[i][r]
    <3>1. i \in Writers(bs, r) /\ Writers(bs, r) \in SUBSET Int
      BY <2>3 DEF WritesLast, Writers
    <3>2. Max(Writers(bs, r)) = i
      BY <3>1, <2>3, MaxIs DEF WritesLast
    <3> QED BY <3>1, <3>2, <2>2
  <2>4. OverwriteAll(c, bs)[r] \in Nat
    <3>1. CASE Writers(bs, r) = {}
      BY <3>1, <2>2 DEF Container
    <3>2. CASE Writers(bs, r) # {}
      <4>1. Writers(bs, r) \in SUBSET (0 .. N)
        BY <1>1 DEF Writers
      <4>2. Max(Writers(bs, r)) \in Writers(bs, r)
        BY <4>1, <1>1, <3>2, MaxExists
      <4> DEFINE w == Max(Writers(bs, r))
      <4>3. bs[w] \in Batches /\ r \in DOMAIN bs[w]
        BY <4>2 DEF Writers
      <4>4. bs[w][r] \in Nat
        BY <4>3 DEF Batches
      <4> QED BY <4>4, <2>2, <3>2
    <3> QED BY <3>1, <3>2
  <2> QED BY <2>2, <2>3, <2>4
<1>11. OverwriteAll(c, bs) = [r \in AllRanges |-> OverwriteAll(c, bs)[r]]
  BY <1>9 DEF LastWrites
<1>12. OverwriteAll(c, bs) \in Container
  BY <1>10, <1>11 DEF Container
<1> QED BY <1>10, <1>12

LEMMA OverwriteTyped ==
  ASSUME NEW c \in Container, NEW b \in Batches
  PROVE  Overwrite(c, b) \in Container
BY DEF Overwrite, Container, Batches

(* The batches of calls.                                                   *)
LEMMA CallBatchTyped ==
  ASSUME NEW n \in Nat, NEW m \in Nat, NEW R \in SUBSET Ranges
  PROVE  /\ WrittenBy(n, R) \in Batches /\ DOMAIN WrittenBy(n, R) = R
         /\ CallBatch(n, R, m) \in Batches
         /\ DOMAIN CallBatch(n, R, m) = R \union {Header}
         /\ CallBatch(n, R, m)[Header] = m
<1> DEFINE b == CallBatch(n, R, m)
<1>1. WrittenBy(n, R) \in [R -> Nat] /\ R \in SUBSET AllRanges
  BY DEF WrittenBy, AllRanges
<1>2. b \in [R \union {Header} -> Nat] /\ b[Header] = m
  BY DEF CallBatch
<1>3. R \union {Header} \in SUBSET AllRanges
  BY DEF AllRanges
<1> HIDE DEF b
<1>4. b \in Batches /\ DOMAIN b = R \union {Header}
  BY <1>2, <1>3 DEF Batches
<1>5. WrittenBy(n, R) \in Batches /\ DOMAIN WrittenBy(n, R) = R
  BY <1>1 DEF Batches
<1> QED BY <1>2, <1>4, <1>5 DEF b

(* record drops at most the oldest entry.                                  *)
LEMMA RecordedShifts ==
  ASSUME NEW E, NEW entries \in Seq(E), Len(entries) <= Capacity,
         NEW seq, NEW bs, [seq |-> seq, batches |-> bs] \in E
  PROVE  LET longer == Recorded(entries, seq, bs) IN
         \/ Capacity = 0 /\ entries = <<>> /\ longer = entries
         \/ \E d \in {0, 1} :
              /\ d <= Len(entries)
              /\ longer \in Seq(E)
              /\ Len(longer) = Len(entries) + 1 - d
              /\ Len(longer) <= Capacity
              /\ longer[Len(longer)] = [seq |-> seq, batches |-> bs]
              /\ \A i \in 1 .. Len(longer) - 1 : i + d \in 1 .. Len(entries) /\ longer[i] = entries[i + d]
<1> DEFINE e == [seq |-> seq, batches |-> bs]
           all == Append(entries, e)
           n == Len(entries)
<1>1. Capacity \in Nat /\ n \in Nat /\ n <= Capacity
  BY CapacityAssumption
<1>2. all \in Seq(E) /\ Len(all) = n + 1 /\ all[n + 1] = e /\ \A i \in 1 .. n : all[i] = entries[i]
  OBVIOUS
<1>3. CASE Capacity = 0
  <2>1. entries = << >>
    BY <1>1, <1>3
  <2> QED BY <1>3, <2>1 DEF Recorded
<1>4. CASE Capacity # 0 /\ n < Capacity
  <2>1. Recorded(entries, seq, bs) = all
    <3> HIDE DEF n
    <3>1. ~ (n + 1 - Capacity > 0)
      BY <1>1, <1>4
    <3>2. ~ (Len(all) - Capacity > 0)
      BY <3>1, <1>1, <1>2
    <3> QED BY <3>2, <1>4 DEF Recorded
  <2> HIDE DEF all, e
  <2>2. \A i \in 1 .. Len(all) - 1 : i + 0 \in 1 .. n /\ all[i] = entries[i + 0]
    BY <1>2, <1>1
  <2>3. Len(all) = n + 1 - 0 /\ Len(all) <= Capacity /\ 0 <= n
    BY <1>1, <1>2, <1>4
  <2> QED BY <2>1, <2>2, <2>3, <1>2 DEF e
<1>5. CASE Capacity # 0 /\ n = Capacity
  <2> DEFINE cut == SubSeq(all, 2, n + 1)
  <2>1. Recorded(entries, seq, bs) = cut
    <3>1. n + 1 - Capacity = 1 /\ n + 1 - Capacity > 0
      BY <1>1, <1>5
    <3>2. Len(all) - Capacity = 1 /\ Len(all) - Capacity > 0 /\ Len(all) = n + 1
      <4> HIDE DEF n, all
      <4> QED BY <3>1, <1>1, <1>2
    <3>3. Recorded(entries, seq, bs) = SubSeq(all, (Len(all) - Capacity) + 1, Len(all))
      <4> HIDE DEF n
      <4> QED BY <3>2, <1>5 DEF Recorded
    <3>4. (Len(all) - Capacity) + 1 = 2
      <4> HIDE DEF all
      <4> QED BY <3>2
    <3> HIDE DEF n, all
    <3> QED BY <3>2, <3>3, <3>4
  <2>2. cut \in Seq(E) /\ Len(cut) = n /\ \A i \in 1 .. n : cut[i] = all[i + 1]
    <3> HIDE DEF n, all, e
    <3> QED BY <1>1, <1>2
  <2> HIDE DEF cut, all, e
  <2>3. cut[n] = e /\ \A i \in 1 .. n - 1 : i + 1 \in 1 .. n /\ cut[i] = entries[i + 1]
    <3> HIDE DEF n
    <3> QED BY <2>2, <1>1, <1>2, <1>5
  <2>4. Len(cut) = n + 1 - 1 /\ Len(cut) <= Capacity /\ 1 <= n
    BY <2>2, <1>1, <1>5
  <2> QED BY <2>1, <2>2, <2>3, <2>4 DEF e
<1> QED BY <1>1, <1>3, <1>4, <1>5

-------------------------------------------------------------------------------
(***************************************************************************)
(* Types.                                                                  *)
(***************************************************************************)
LEMMA StreamTyped ==
  ASSUME ReplicationTypeOK
  PROVE  /\ log \in Seq(Batches) /\ Len(log) \in Nat
         /\ journal \in Seq(Range(journal)) /\ Len(journal) \in Nat
         /\ \A i \in 1 .. Len(journal) :
              /\ journal[i].seq \in Nat
              /\ journal[i].batches \in Seq(Batches)
              /\ Len(journal[i].batches) \in Nat
<1>1. log \in Seq(Batches)
  BY PatchTyped DEF ReplicationTypeOK
<1>2. journal \in Seq(Range(journal))
  BY DEF ReplicationTypeOK
<1>3. \A i \in 1 .. Len(journal) : journal[i].seq \in Nat /\ journal[i].batches \in Seq(Batches)
  BY PatchTyped DEF ReplicationTypeOK
<1>4. Len(log) \in Nat /\ Len(journal) \in Nat
  BY <1>1, <1>2
<1>5. \A i \in 1 .. Len(journal) : Len(journal[i].batches) \in Nat
  BY <1>3
<1> QED BY <1>1, <1>2, <1>3, <1>4, <1>5

(* Entry row[k] and its batch col[k] are where batch k of a patch for      *)
(* position n comes from.                                                  *)
ComesFrom(bs, n, row, col) ==
  /\ \A k \in 1 .. Len(bs) :
       /\ row[k] \in 1 .. Len(journal)
       /\ col[k] \in 1 .. Len(journal[row[k]].batches)
       /\ journal[row[k]].seq >= n
       /\ bs[k] = journal[row[k]].batches[col[k]]
  /\ \A k, l \in 1 .. Len(bs) :
       k < l => row[k] < row[l] \/ (row[k] = row[l] /\ col[k] < col[l])
  /\ \A i \in 1 .. Len(journal) : \A j \in 1 .. Len(journal[i].batches) :
       journal[i].seq >= n => \E k \in 1 .. Len(bs) : row[k] = i /\ col[k] = j

(* ranges_since returns the batches of the entries from n on, in order.    *)
LEMMA RangesSinceFrom ==
  ASSUME ReplicationTypeOK, NEW n
  PROVE  /\ RangesSince(n) \in Seq(Batches)
         /\ \E row, col \in [1 .. Len(RangesSince(n)) -> Nat] :
              ComesFrom(RangesSince(n), n, row, col)
<1> DEFINE ss == [i \in 1 .. Len(journal) |->
                    IF journal[i].seq >= n THEN journal[i].batches ELSE <<>>]
           bs == RangesSince(n)
<1>1. Len(journal) \in Nat /\ \A i \in 1 .. Len(journal) : journal[i].batches \in Seq(Batches)
  BY StreamTyped
<1>2. \A i \in 1 .. Len(journal) : ss[i] \in Seq(Batches)
  BY <1>1
<1>3. ss \in Seq(Seq(Batches)) /\ Len(ss) = Len(journal)
  <2>1. ss \in [1 .. Len(journal) -> Seq(Batches)]
    BY <1>2
  <2> HIDE DEF ss
  <2> QED BY <2>1, <1>1
<1>4. bs = FlattenSeq(ss)
  BY DEF RangesSince
<1>5. \A i \in 1 .. Len(journal) : \A j \in 1 .. Len(ss[i]) :
        journal[i].seq >= n /\ ss[i] = journal[i].batches
  OBVIOUS
<1>6. \A i \in 1 .. Len(journal) : journal[i].seq >= n => ss[i] = journal[i].batches
  OBVIOUS
<1> HIDE DEF ss, bs
<1>7. bs \in Seq(Batches) /\ IsFlattened(bs, ss, Len(ss))
  BY <1>3, <1>4, FlattenSeqFlattens
<1>8. PICK row, col \in [1 .. Len(bs) -> Nat] : Flattens(bs, ss, Len(journal), row, col)
  BY <1>3, <1>7 DEF IsFlattened
<1>9. ASSUME NEW k \in 1 .. Len(bs)
      PROVE  /\ row[k] \in 1 .. Len(journal)
             /\ col[k] \in 1 .. Len(journal[row[k]].batches)
             /\ journal[row[k]].seq >= n
             /\ bs[k] = journal[row[k]].batches[col[k]]
  <2>1. /\ row[k] \in 1 .. Len(journal)
        /\ col[k] \in 1 .. Len(ss[row[k]])
        /\ bs[k] = ss[row[k]][col[k]]
    BY <1>8 DEF Flattens
  <2> QED BY <2>1, <1>5
<1>10. ASSUME NEW i \in 1 .. Len(journal), NEW j \in 1 .. Len(journal[i].batches),
              journal[i].seq >= n
       PROVE  \E k \in 1 .. Len(bs) : row[k] = i /\ col[k] = j
  BY <1>6, <1>8, <1>10 DEF Flattens
<1>11. ComesFrom(bs, n, row, col)
  BY <1>8, <1>9, <1>10 DEF ComesFrom, Flattens
<1> QED BY <1>7, <1>8, <1>11 DEF bs

LEMMA PrefixTyped ==
  ASSUME NEW bs \in Seq(Batches), NEW k \in 0 .. Len(bs)
  PROVE  /\ SubSeq(bs, 1, k) \in Seq(Batches) /\ Len(SubSeq(bs, 1, k)) = k
         /\ \A i \in 1 .. k : SubSeq(bs, 1, k)[i] = bs[i]
OBVIOUS

LEMMA PartlyTyped ==
  ASSUME NEW c \in Container, NEW bs \in Seq(Batches), NEW k \in 0 .. Len(bs) - 1, NEW R
  PROVE  Partly(c, bs, k, R) \in Container
<1>1. k \in 0 .. Len(bs) /\ k + 1 \in 1 .. Len(bs)
  OBVIOUS
<1>2. OverwriteAll(c, SubSeq(bs, 1, k)) \in Container
  BY <1>1, PrefixTyped, LastWriteWins
<1> DEFINE begun == [r \in R \intersect DOMAIN bs[k + 1] |-> bs[k + 1][r]]
<1>3. begun \in Batches
  <2>1. bs[k + 1] \in Batches
    BY <1>1
  <2>2. begun \in [R \intersect DOMAIN bs[k + 1] -> Nat]
        /\ R \intersect DOMAIN bs[k + 1] \in SUBSET AllRanges
    BY <2>1 DEF Batches
  <2> QED BY <2>2 DEF Batches
<1> HIDE DEF begun
<1>4. Overwrite(OverwriteAll(c, SubSeq(bs, 1, k)), begun) \in Container
  BY <1>2, <1>3, OverwriteTyped
<1> QED BY <1>4 DEF Partly, begun

-------------------------------------------------------------------------------
(***************************************************************************)
(* What the change log and the journal become.                             *)
(***************************************************************************)
LEMMA WritersAppend ==
  ASSUME NEW bs \in Seq(Batches), NEW b, NEW r
  PROVE  /\ Writers(Append(bs, b), r)
              = Writers(bs, r) \union (IF r \in DOMAIN b THEN {Len(bs) + 1} ELSE {})
         /\ \A i \in Writers(bs, r) : Append(bs, b)[i] = bs[i] /\ i <= Len(bs)
         /\ Append(bs, b)[Len(bs) + 1] = b
<1>1. /\ Len(bs) \in Nat /\ Len(Append(bs, b)) = Len(bs) + 1
      /\ Append(bs, b)[Len(bs) + 1] = b
      /\ \A i \in 1 .. Len(bs) : Append(bs, b)[i] = bs[i]
  OBVIOUS
<1>2. \A i : i \in 1 .. Len(bs) + 1 <=> i \in 1 .. Len(bs) \/ i = Len(bs) + 1
  BY <1>1
<1>3. Len(bs) + 1 \notin 1 .. Len(bs)
  BY <1>1
<1>4. ASSUME NEW i
      PROVE  i \in Writers(Append(bs, b), r)
               <=> i \in Writers(bs, r) \/ (i = Len(bs) + 1 /\ r \in DOMAIN b)
  BY <1>1, <1>2, <1>3 DEF Writers
<1>5. \A i \in Writers(bs, r) : Append(bs, b)[i] = bs[i] /\ i <= Len(bs)
  BY <1>1 DEF Writers
<1> QED BY <1>1, <1>4, <1>5

LEMMA LastAppend ==
  ASSUME NEW bs \in Seq(Batches), NEW b, NEW r, NEW i, WritesLast(Append(bs, b), i, r)
  PROVE  \/ r \in DOMAIN b /\ i = Len(bs) + 1 /\ Append(bs, b)[i] = b
         \/ r \notin DOMAIN b /\ WritesLast(bs, i, r) /\ Append(bs, b)[i] = bs[i]
<1>1. CASE r \in DOMAIN b
  <2>1. Len(bs) + 1 <= i /\ i \in Writers(Append(bs, b), r)
    BY <1>1, WritersAppend DEF WritesLast
  <2>2. i = Len(bs) + 1 \/ i \in Writers(bs, r)
    BY <2>1, WritersAppend
  <2>3. i \notin Writers(bs, r)
    <3>1. Len(bs) \in Nat
      OBVIOUS
    <3>2. \A j \in Writers(bs, r) : j \in Nat /\ j <= Len(bs)
      BY WritersAppend DEF Writers
    <3> QED BY <2>1, <3>1, <3>2
  <2> QED BY <1>1, <2>2, <2>3, WritersAppend
<1>2. CASE r \notin DOMAIN b
  <2>1. Writers(Append(bs, b), r) = Writers(bs, r) \union {}
    BY <1>2, WritersAppend
  <2>2. Writers(Append(bs, b), r) = Writers(bs, r)
    BY <2>1
  <2>3. i \in Writers(bs, r) /\ \A j \in Writers(bs, r) : j <= i
    BY <2>2 DEF WritesLast
  <2>4. Append(bs, b)[i] = bs[i]
    <3>1. i \in 1 .. Len(bs)
      BY <2>3 DEF Writers
    <3> QED BY <3>1
  <2> QED BY <1>2, <2>3, <2>4 DEF WritesLast
<1> QED BY <1>1, <1>2

LEMMA PatchAppend ==
  ASSUME NEW bs \in Seq(Batches), NEW b \in Batches
  PROVE  Append(bs, b) \in Seq(Batches) /\ IsPatch(Append(bs, b))
<1>1. Append(bs, b) \in Seq(Batches)
  OBVIOUS
<1> QED BY <1>1, PatchTyped

(* The journal after record.  It loses its first d entries.                *)
JournalShifts(seq, bs, d) ==
  /\ d <= Len(journal)
  /\ Len(journal') = Len(journal) + 1 - d
  /\ journal'[Len(journal')] = [seq |-> seq, batches |-> bs]
  /\ \A i \in 1 .. Len(journal') - 1 : i + d \in 1 .. Len(journal) /\ journal'[i] = journal[i + d]

LEMMA RecordTyped ==
  ASSUME ReplicationTypeOK, NEW seq \in Nat, NEW bs, IsPatch(bs),
         journal' = Recorded(journal, seq, bs)
  PROVE  /\ journal' \in Seq(Range(journal')) /\ Len(journal') <= Capacity
         /\ \A i \in 1 .. Len(journal') : journal'[i].seq \in Nat /\ IsPatch(journal'[i].batches)
         /\ \/ Capacity = 0 /\ journal = <<>> /\ journal' = <<>>
            \/ \E d \in {0, 1} : JournalShifts(seq, bs, d)
<1> DEFINE e == [seq |-> seq, batches |-> bs]
           E == Range(journal) \union {e}
<1>1. journal \in Seq(Range(journal)) /\ Len(journal) <= Capacity
  BY DEF ReplicationTypeOK
<1>2. journal \in Seq(E) /\ e \in E /\ Range(journal) \subseteq E
  <2>1. e \in E /\ Range(journal) \subseteq E
    OBVIOUS
  <2> HIDE DEF E, e
  <2>2. journal \in Seq(E)
    BY <1>1, <2>1
  <2> QED BY <2>1, <2>2
<1>3. \/ Capacity = 0 /\ journal = <<>> /\ journal' = journal
      \/ \E d \in {0, 1} : journal' \in Seq(E) /\ Len(journal') <= Capacity /\ JournalShifts(seq, bs, d)
  <2> HIDE DEF E
  <2> QED BY <1>1, <1>2, RecordedShifts DEF JournalShifts, e
<1>4. CASE Capacity = 0 /\ journal = <<>> /\ journal' = journal
  <2>1. \A s : s = <<>> => Len(s) = 0 /\ s \in Seq(Range(s))
    OBVIOUS
  <2>2. journal' = <<>> /\ Len(journal') = 0 /\ journal' \in Seq(Range(journal'))
    BY <1>4, <2>1
  <2> QED BY <2>2, <1>4, <1>1
<1>5. CASE \E d \in {0, 1} : journal' \in Seq(E) /\ Len(journal') <= Capacity /\ JournalShifts(seq, bs, d)
  <2>1. PICK d \in {0, 1} : journal' \in Seq(E) /\ Len(journal') <= Capacity /\ JournalShifts(seq, bs, d)
    BY <1>5
  <2>2. journal' \in Seq(Range(journal'))
    <3> HIDE DEF E
    <3> QED BY <2>1 DEF Range
  <2>3. ASSUME NEW i \in 1 .. Len(journal')
        PROVE  journal'[i].seq \in Nat /\ IsPatch(journal'[i].batches)
    <3>1. CASE i = Len(journal')
      <4>1. journal'[i] = e
        BY <2>1, <3>1 DEF JournalShifts
      <4> QED BY <4>1
    <3>2. CASE i # Len(journal')
      <4>1. Len(journal') \in Nat
        <5> HIDE DEF E
        <5> QED BY <2>1
      <4>2. i \in 1 .. Len(journal') - 1
        BY <3>2, <4>1
      <4>3. i + d \in 1 .. Len(journal) /\ journal'[i] = journal[i + d]
        BY <2>1, <4>2 DEF JournalShifts
      <4> QED BY <4>3 DEF ReplicationTypeOK
    <3> QED BY <3>1, <3>2
  <2> QED BY <2>1, <2>2, <2>3
<1> QED BY <1>3, <1>4, <1>5


-------------------------------------------------------------------------------
(* What the three kinds of calls have in common; b is the batch.           *)
CallStep(b) ==
  /\ b \in Batches
  /\ file' = Overwrite(file, b)
  /\ position' \in {position, position + 1}
  /\ Header \in DOMAIN b => position' = position + 1 /\ b[Header] = position + 1
  /\ \/ /\ log' = Append(log, b)
        /\ journal' = journal
        /\ serving /\ Header \in DOMAIN b => program = "terminal"
     \/ /\ Header \in DOMAIN b
        /\ log' = <<>>
        /\ journal' = Recorded(journal, position, Append(log, b))
  /\ forgotten' = forgotten \ DOMAIN b
  /\ UNCHANGED <<program, serving, peerVars>>

AnyCall(R) == Mutate(R) \/ MutateUnrecorded(R) \/ MutateFails(R)

LEMMA CallsAreCallSteps ==
  ASSUME ReplicationTypeOK, NEW R \in SUBSET Ranges, AnyCall(R)
  PROVE  /\ \E b : CallStep(b)
         /\ calls' \in 0 .. MaxCalls /\ failures' \in 0 .. MaxFailures
<1> DEFINE b == CallBatch(calls + 1, R, position + 1)
           w == WrittenBy(calls + 1, R)
<1>1. /\ calls \in 0 .. MaxCalls /\ failures \in 0 .. MaxFailures
      /\ position \in Nat /\ calls + 1 \in Nat /\ position + 1 \in Nat
      /\ forgotten \subseteq Ranges
  BY CallBounds DEF ReplicationTypeOK
<1>2. /\ b \in Batches /\ Header \in DOMAIN b /\ b[Header] = position + 1
      /\ w \in Batches /\ Header \notin DOMAIN w
      /\ forgotten \ R = forgotten \ DOMAIN b /\ forgotten \ R = forgotten \ DOMAIN w
  <2>1. /\ w \in Batches /\ DOMAIN w = R
        /\ b \in Batches /\ DOMAIN b = R \union {Header} /\ b[Header] = position + 1
    BY <1>1, CallBatchTyped
  <2> HIDE DEF b, w
  <2>2. Header \notin R /\ Header \notin forgotten
    BY <1>1, HeaderAssumption
  <2>3. forgotten \ R = forgotten \ DOMAIN b /\ forgotten \ R = forgotten \ DOMAIN w
    BY <2>1, <2>2
  <2> QED BY <2>1, <2>2, <2>3
<1> HIDE DEF b, w
<1>3. CASE Mutate(R)
  <2>1. CallStep(b)
    BY <1>2, <1>3 DEF Mutate, CallStep, b
  <2>2. calls' \in 0 .. MaxCalls /\ failures' = failures
    BY <1>1, <1>3, CallBounds DEF Mutate
  <2> QED BY <2>1, <2>2, <1>1
<1>4. CASE MutateUnrecorded(R)
  <2>1. CallStep(b)
    BY <1>2, <1>4 DEF MutateUnrecorded, CallStep, b, sessionVars
  <2>2. calls' \in 0 .. MaxCalls /\ failures' = failures
    BY <1>1, <1>4, CallBounds DEF MutateUnrecorded
  <2> QED BY <2>1, <2>2, <1>1
<1>5. CASE MutateFails(R)
  <2>1. CallStep(w)
    BY <1>2, <1>5 DEF MutateFails, CallStep, w, sessionVars
  <2>2. calls' \in 0 .. MaxCalls /\ failures' \in 0 .. MaxFailures
    BY <1>1, <1>5, CallBounds DEF MutateFails
  <2> QED BY <2>1, <2>2
<1> QED BY <1>3, <1>4, <1>5 DEF AnyCall

PositionOK == 1 <= file[Header] /\ file[Header] <= position

LEMMA CallStepTyped ==
  ASSUME ReplicationTypeOK, PositionOK, NEW b, CallStep(b),
         calls' \in 0 .. MaxCalls, failures' \in 0 .. MaxFailures
  PROVE  ReplicationTypeOK' /\ PositionOK'
<1>1. /\ file \in Container /\ position \in Nat \ {0} /\ Header \in AllRanges
      /\ log \in Seq(Batches)
  BY StreamTyped DEF ReplicationTypeOK, AllRanges
<1>2. file' \in Container
  BY <1>1, OverwriteTyped DEF CallStep
<1>3. position' \in Nat \ {0}
  BY <1>1 DEF CallStep
<1>4. PositionOK'
  <2>1. file'[Header] = IF Header \in DOMAIN b THEN position + 1 ELSE file[Header]
    BY <1>1 DEF CallStep, Overwrite
  <2>2. position' \in {position, position + 1} /\ (Header \in DOMAIN b => position' = position + 1)
    BY DEF CallStep
  <2>3. file[Header] \in Nat
    BY <1>1 DEF Container
  <2> QED BY <2>1, <2>2, <2>3, <1>1 DEF PositionOK
<1>5. b \in Batches /\ IsPatch(Append(log, b)) /\ IsPatch(<<>>)
  <2>1. <<>> \in Seq(Batches)
    OBVIOUS
  <2> QED BY <1>1, <2>1, PatchAppend, PatchTyped DEF CallStep
<1>6. IsPatch(log')
  BY <1>5 DEF CallStep
<1>7. /\ journal' \in Seq(Range(journal')) /\ Len(journal') <= Capacity
      /\ \A i \in 1 .. Len(journal') : journal'[i].seq \in Nat /\ IsPatch(journal'[i].batches)
  <2>1. CASE journal' = journal
    BY <2>1 DEF ReplicationTypeOK
  <2>2. CASE journal' = Recorded(journal, position, Append(log, b))
    BY <2>2, <1>1, <1>5, RecordTyped
  <2> QED BY <2>1, <2>2 DEF CallStep
<1>8. UNCHANGED <<program, serving, replica, answer>>
  BY DEF CallStep, peerVars
<1>9. /\ program' \in Programs /\ serving' \in BOOLEAN /\ replica' \in [Peers -> Container]
      /\ DOMAIN answer' = Peers /\ \A p \in Peers : IsAnswer(answer'[p])
  BY <1>8 DEF ReplicationTypeOK
<1>10. forgotten' \subseteq Ranges
  BY DEF CallStep, ReplicationTypeOK
<1> QED BY <1>2, <1>3, <1>4, <1>6, <1>7, <1>9, <1>10 DEF ReplicationTypeOK

(* A session begins or ends, or the handle does.                           *)
FreshJournal ==
  /\ journal' = <<>>
  /\ UNCHANGED <<file, peerVars, boundVars>>
  /\ serving' \in BOOLEAN
  /\ \/ UNCHANGED <<handleVars, forgotten>>
     \/ /\ program' \in Programs /\ position' = file[Header] /\ log' = <<>>
        /\ forgotten' = forgotten \union FailedRanges

(* A failed call does not write the header.                                *)
LEMMA FailedTyped ==
  ASSUME ReplicationTypeOK
  PROVE  FailedRanges \subseteq Ranges
<1> SUFFICES ASSUME NEW i \in FailedBatches, NEW r \in DOMAIN log[i] PROVE r \in Ranges
  BY DEF FailedRanges
<1>1. i \in 1 .. Len(log) /\ Header \notin DOMAIN log[i]
  BY DEF FailedBatches
<1>2. log[i] \in Batches
  BY <1>1, StreamTyped
<1> QED BY <1>1, <1>2 DEF Batches, AllRanges

LEMMA SessionSteps ==
  ASSUME StartServing \/ StopServing \/ Reopen
  PROVE  FreshJournal
<1>1. CASE StartServing
  BY <1>1 DEF StartServing, FreshJournal
<1>2. CASE StopServing
  BY <1>2 DEF StopServing, FreshJournal
<1>3. CASE Reopen
  BY <1>3 DEF Reopen, FreshJournal
<1> QED BY <1>1, <1>2, <1>3

LEMMA FreshJournalTyped ==
  ASSUME ReplicationTypeOK, PositionOK, FreshJournal
  PROVE  ReplicationTypeOK' /\ PositionOK'
<1>1. /\ file \in Container /\ position \in Nat \ {0} /\ Header \in AllRanges
      /\ program \in Programs /\ IsPatch(log)
  BY DEF ReplicationTypeOK, AllRanges
<1>2. file[Header] \in Nat
  BY <1>1 DEF Container
<1>3. IsPatch(<<>>) /\ Len(<<>>) = 0 /\ <<>> \in Seq(Range(<<>>))
  <2>1. <<>> \in Seq(Batches)
    OBVIOUS
  <2> QED BY <2>1, PatchTyped DEF IsPatch
<1>4. /\ program' \in Programs /\ position' \in Nat \ {0} /\ IsPatch(log')
      /\ file[Header] <= position'
  BY <1>1, <1>2, <1>3 DEF FreshJournal, handleVars, PositionOK
<1>5. /\ journal' \in Seq(Range(journal')) /\ Len(journal') <= Capacity
      /\ \A i \in 1 .. Len(journal') : journal'[i].seq \in Nat /\ IsPatch(journal'[i].batches)
  BY <1>3, CapacityAssumption DEF FreshJournal
<1>6. UNCHANGED <<file, replica, answer, calls, failures>> /\ serving' \in BOOLEAN
  BY DEF FreshJournal, peerVars, boundVars
<1>7. forgotten' \subseteq Ranges
  BY FailedTyped DEF FreshJournal, ReplicationTypeOK
<1> QED BY <1>4, <1>5, <1>6, <1>7 DEF ReplicationTypeOK, PositionOK

-------------------------------------------------------------------------------
(* A peer's side: its replica becomes c, or its answer a.                  *)
PeerStep(p, c, a) ==
  /\ replica' = [replica EXCEPT ![p] = c]
  /\ answer' = [answer EXCEPT ![p] = a]
  /\ UNCHANGED <<file, handleVars, sessionVars, boundVars, forgotten>>

LEMMA PeerStepTyped ==
  ASSUME ReplicationTypeOK, PositionOK, NEW p \in Peers,
         NEW c \in Container, NEW a, IsAnswer(a), PeerStep(p, c, a)
  PROVE  ReplicationTypeOK' /\ PositionOK'
<1>1. /\ replica' \in [Peers -> Container]
      /\ DOMAIN answer' = Peers /\ \A q \in Peers : IsAnswer(answer'[q])
  BY DEF ReplicationTypeOK, PeerStep
<1> QED BY <1>1 DEF ReplicationTypeOK, PositionOK, PeerStep, handleVars, sessionVars, boundVars

(* Each action of a peer is such a step.                                   *)
LEMMA AnswerTyped ==
  ASSUME ReplicationTypeOK, NEW n
  PROVE  IsAnswer(AnswerTo(n))
<1>1. CASE Covers(n)
  <2>1. IsPatch(RangesSince(n))
    BY RangesSinceFrom, PatchTyped
  <2> QED BY <1>1, <2>1 DEF AnswerTo, IsAnswer
<1>2. CASE ~Covers(n)
  BY <1>2 DEF AnswerTo, IsAnswer, ReplicationTypeOK
<1> QED BY <1>1, <1>2

LEMMA AnswerParts ==
  ASSUME ReplicationTypeOK, NEW p \in Peers
  PROVE  /\ replica[p] \in Container
         /\ answer[p].kind = "full" => answer[p].file \in Container
         /\ answer[p].kind = "patch" => answer[p].batches \in Seq(Batches)
<1>1. replica[p] \in Container /\ IsAnswer(answer[p])
  BY DEF ReplicationTypeOK
<1> QED BY <1>1, PatchTyped DEF IsAnswer, NoAnswer

PeerAction(p) ==
  \/ Request(p) \/ Lose(p) \/ StoreCopy(p) \/ ApplyPatch(p)
  \/ \E k \in 0 .. MaxCalls, R \in SUBSET Ranges : ApplyPartly(p, k, R)

LEMMA PeerActionsAreSteps ==
  ASSUME ReplicationTypeOK, NEW p \in Peers, PeerAction(p)
  PROVE  \/ PeerStep(p, replica[p], AnswerTo(replica[p][Header]))
         \/ PeerStep(p, replica[p], NoAnswer)
         \/ answer[p].kind = "full" /\ PeerStep(p, answer[p].file, NoAnswer)
         \/ /\ answer[p].kind = "patch"
            /\ PeerStep(p, OverwriteAll(replica[p], answer[p].batches), NoAnswer)
         \/ /\ answer[p].kind = "patch"
            /\ \E k \in 0 .. Len(answer[p].batches) - 1, R \in SUBSET Ranges :
                 PeerStep(p, Partly(replica[p], answer[p].batches, k, R), NoAnswer)
<1>1. replica = [replica EXCEPT ![p] = replica[p]]
  BY DEF ReplicationTypeOK
<1>2. CASE Request(p)
  BY <1>1, <1>2 DEF Request, PeerStep
<1>3. CASE Lose(p)
  BY <1>1, <1>3 DEF Lose, PeerStep
<1>4. CASE StoreCopy(p)
  BY <1>4 DEF StoreCopy, Replace, PeerStep
<1>5. CASE ApplyPatch(p)
  BY <1>5 DEF ApplyPatch, Replace, PeerStep
<1>6. ASSUME NEW k \in 0 .. MaxCalls, NEW R \in SUBSET Ranges, ApplyPartly(p, k, R)
      PROVE  /\ answer[p].kind = "patch"
             /\ \E j \in 0 .. Len(answer[p].batches) - 1, Q \in SUBSET Ranges :
                 PeerStep(p, Partly(replica[p], answer[p].batches, j, Q), NoAnswer)
  <2>1. answer[p].kind = "patch" /\ k < Len(answer[p].batches)
    BY <1>6 DEF ApplyPartly
  <2>2. Len(answer[p].batches) \in Nat
    BY <2>1, AnswerParts
  <2>3. k \in 0 .. Len(answer[p].batches) - 1
    BY <2>1, <2>2, CallBounds
  <2>4. PeerStep(p, Partly(replica[p], answer[p].batches, k, R), NoAnswer)
    BY <1>6 DEF ApplyPartly, Replace, PeerStep
  <2> QED BY <2>1, <2>3, <2>4
<1> QED BY <1>2, <1>3, <1>4, <1>5, <1>6 DEF PeerAction

LEMMA PeerActionTyped ==
  ASSUME ReplicationTypeOK, PositionOK, NEW p \in Peers, PeerAction(p)
  PROVE  ReplicationTypeOK' /\ PositionOK'
<1>1. IsAnswer(NoAnswer)
  BY DEF IsAnswer
<1>2. CASE PeerStep(p, replica[p], AnswerTo(replica[p][Header]))
  BY <1>2, AnswerTyped, AnswerParts, PeerStepTyped
<1>3. CASE PeerStep(p, replica[p], NoAnswer)
  BY <1>1, <1>3, AnswerParts, PeerStepTyped
<1>4. CASE answer[p].kind = "full" /\ PeerStep(p, answer[p].file, NoAnswer)
  BY <1>1, <1>4, AnswerParts, PeerStepTyped
<1>5. CASE /\ answer[p].kind = "patch"
           /\ PeerStep(p, OverwriteAll(replica[p], answer[p].batches), NoAnswer)
  <2>1. OverwriteAll(replica[p], answer[p].batches) \in Container
    BY <1>5, AnswerParts, LastWriteWins
  <2> QED BY <1>1, <1>5, <2>1, PeerStepTyped
<1>6. ASSUME answer[p].kind = "patch",
             NEW k \in 0 .. Len(answer[p].batches) - 1, NEW R \in SUBSET Ranges,
             PeerStep(p, Partly(replica[p], answer[p].batches, k, R), NoAnswer)
      PROVE  ReplicationTypeOK' /\ PositionOK'
  <2>1. Partly(replica[p], answer[p].batches, k, R) \in Container
    BY <1>6, AnswerParts, PartlyTyped
  <2> QED BY <1>1, <1>6, <2>1, PeerStepTyped
<1> QED BY <1>2, <1>3, <1>4, <1>5, <1>6, PeerActionsAreSteps

(* Every step is a call, the begin or end of a session or of the handle,   *)
(* an action of a peer, or none at all.                                    *)
LEMMA StepKinds ==
  ASSUME [ReplicationNext]_replicationVars
  PROVE  \/ \E R \in SUBSET Ranges : AnyCall(R)
         \/ FreshJournal
         \/ \E p \in Peers : PeerAction(p)
         \/ UNCHANGED replicationVars
BY SessionSteps DEF ReplicationNext, AnyCall, PeerAction

LEMMA TypesKept ==
  ASSUME ReplicationTypeOK, PositionOK, [ReplicationNext]_replicationVars
  PROVE  ReplicationTypeOK' /\ PositionOK'
<1>1. ASSUME NEW R \in SUBSET Ranges, AnyCall(R) PROVE ReplicationTypeOK' /\ PositionOK'
  BY <1>1, CallsAreCallSteps, CallStepTyped
<1>2. CASE FreshJournal
  BY <1>2, FreshJournalTyped
<1>3. CASE \E p \in Peers : PeerAction(p)
  BY <1>3, PeerActionTyped
<1>4. CASE UNCHANGED replicationVars
  BY <1>4 DEF ReplicationTypeOK, PositionOK, replicationVars, handleVars, sessionVars,
              peerVars, boundVars
<1> QED BY <1>1, <1>2, <1>3, <1>4, StepKinds

LEMMA TypesInitially == ReplicationInit => ReplicationTypeOK /\ PositionOK
<1> SUFFICES ASSUME ReplicationInit PROVE ReplicationTypeOK /\ PositionOK
  OBVIOUS
<1>1. <<>> \in Seq(Batches) /\ Len(<<>>) = 0 /\ <<>> \in Seq(Range(<<>>))
  OBVIOUS
<1>2. IsPatch(<<>>)
  BY <1>1, PatchTyped
<1>3. NoReplica \in Container /\ IsAnswer(NoAnswer) /\ file \in Container
  BY DEF NoReplica, Container, IsAnswer, ReplicationInit
<1>4. Header \in AllRanges /\ file[Header] = 1
  BY DEF AllRanges, ReplicationInit
<1>5. /\ IsPatch(log) /\ Len(journal) = 0 /\ Len(journal) <= Capacity
      /\ journal \in Seq(Range(journal))
  BY <1>1, <1>2, CapacityAssumption DEF ReplicationInit
<1>6. /\ replica \in [Peers -> Container]
      /\ DOMAIN answer = Peers /\ \A p \in Peers : IsAnswer(answer[p])
  BY <1>3 DEF ReplicationInit
<1>7. /\ position = 1 /\ program \in Programs /\ serving \in BOOLEAN
      /\ calls \in 0 .. MaxCalls /\ failures \in 0 .. MaxFailures
  <2>1. serving \in BOOLEAN
    BY DEF ReplicationInit
  <2>2. calls \in 0 .. MaxCalls /\ failures \in 0 .. MaxFailures
    BY CallBounds DEF ReplicationInit
  <2> QED BY <2>1, <2>2 DEF ReplicationInit
<1>8. PositionOK
  BY <1>4, <1>7 DEF PositionOK
<1>9. forgotten \subseteq Ranges
  BY DEF ReplicationInit
<1> QED BY <1>3, <1>5, <1>6, <1>7, <1>8, <1>9 DEF ReplicationTypeOK

(* Type correctness: among others, the journal never outgrows its          *)
(* capacity.  The position in memory is a positive number because it is    *)
(* never behind the one in the container.                                  *)
THEOREM ReplicationTypesHold == ReplicationSpec => []ReplicationTypeOK
<1>1. ReplicationTypeOK /\ PositionOK /\ [ReplicationNext]_replicationVars
        => ReplicationTypeOK' /\ PositionOK'
  BY TypesKept
<1> QED BY <1>1, TypesInitially, PTL DEF ReplicationSpec

-------------------------------------------------------------------------------
(***************************************************************************)
(* The invariant.  Between them, the change log and the journal hold the   *)
(* writes that a copy may lack, with their latest values; which of the two *)
(* it is that a copy needs depends on the position it has reached.         *)
(***************************************************************************)
Logged == {r \in AllRanges : Writers(log, r) # {}}
Written(i, j, r) ==
  /\ i \in 1 .. Len(journal)
  /\ j \in 1 .. Len(journal[i].batches)
  /\ r \in DOMAIN journal[i].batches[j]
JournalledSince(n) ==
  {r \in AllRanges : \E i \in 1 .. Len(journal) : \E j \in 1 .. Len(journal[i].batches) :
                       Written(i, j, r) /\ journal[i].seq >= n}

(* The entries are in the order of their positions, and older than the     *)
(* container.                                                              *)
EntriesOK ==
  /\ \A i \in 1 .. Len(journal) : journal[i].seq < file[Header]
  /\ \A i, k \in 1 .. Len(journal) : i < k => journal[i].seq < journal[k].seq

(* A header that was written within an entry, and not by its last batch,   *)
(* does not take a copy beyond the entry.                                  *)
HeadersOK ==
  /\ \A i \in Writers(log, Header) : log[i][Header] <= position
  /\ \A i \in 1 .. Len(journal) : \A j \in 1 .. Len(journal[i].batches) :
       Written(i, j, Header) =>
         /\ journal[i].batches[j][Header] <= journal[i].seq + 1
         /\ j < Len(journal[i].batches) => journal[i].batches[j][Header] <= journal[i].seq
         /\ Header \in Logged => journal[i].batches[j][Header] < file[Header]

(* The last value of a range in the log is the one in the container; so is *)
(* the last one in the journal, unless the log has another.                *)
ValuesOK ==
  /\ \A r \in AllRanges : \A i \in 1 .. Len(log) :
       WritesLast(log, i, r) => log[i][r] = file[r]
  /\ \A r \in AllRanges \ Logged :
       \A i \in 1 .. Len(journal) : \A j \in 1 .. Len(journal[i].batches) :
         /\ Written(i, j, r)
         /\ \A k \in 1 .. Len(journal) : \A l \in 1 .. Len(journal[k].batches) :
              Written(k, l, r) => k < i \/ (k = i /\ l <= j)
         => journal[i].batches[j][r] = file[r]

(* The console's journal takes every call that succeeds while serving.     *)
DrainedOK == serving /\ program = "console" /\ journal # <<>> => Header \notin Logged

StreamOK == PositionOK /\ EntriesOK /\ HeadersOK /\ ValuesOK /\ DrainedOK

LEMMA NumbersTyped ==
  ASSUME ReplicationTypeOK, PositionOK
  PROVE  /\ file[Header] \in Nat /\ position \in Nat /\ Header \in AllRanges
         /\ file[Header] <= position
BY DEF ReplicationTypeOK, PositionOK, Container, AllRanges

(* What a call writes.                                                     *)
LEMMA CallWrites ==
  ASSUME ReplicationTypeOK, PositionOK, NEW b, CallStep(b)
  PROVE  /\ \A r \in AllRanges : file'[r] = IF r \in DOMAIN b THEN b[r] ELSE file[r]
         /\ Header \in DOMAIN b => file'[Header] = position + 1 /\ position' = position + 1
         /\ Header \notin DOMAIN b => file'[Header] = file[Header]
         /\ file'[Header] \in Nat /\ position' \in Nat
         /\ file[Header] <= file'[Header] /\ position <= position'
<1>1. \A r \in AllRanges : file'[r] = IF r \in DOMAIN b THEN b[r] ELSE file[r]
  BY DEF CallStep, Overwrite
<1>2. /\ Header \in DOMAIN b => file'[Header] = position + 1 /\ position' = position + 1
      /\ Header \notin DOMAIN b => file'[Header] = file[Header]
      /\ position' \in {position, position + 1}
  BY <1>1, NumbersTyped DEF CallStep
<1> QED BY <1>1, <1>2, NumbersTyped

LEMMA LoggedAfter ==
  ASSUME ReplicationTypeOK, NEW b, log' = Append(log, b)
  PROVE  Logged' = Logged \union (AllRanges \intersect DOMAIN b)
<1>1. log \in Seq(Batches)
  BY StreamTyped
<1>2. ASSUME NEW r \in AllRanges
      PROVE  Writers(log', r) # {} <=> Writers(log, r) # {} \/ r \in DOMAIN b
  <2>1. Writers(log', r) = Writers(log, r) \union (IF r \in DOMAIN b THEN {Len(log) + 1} ELSE {})
    BY <1>1, WritersAppend
  <2> QED BY <2>1
<1> QED BY <1>2 DEF Logged

LEMMA EmptyLog ==
  ASSUME log' = <<>>
  PROVE  Logged' = {} /\ Len(log') = 0 /\ \A r : Writers(log', r) = {}
<1>1. Len(log') = 0
  BY Zenon, Len(<<>>) = 0
<1>2. \A r : Writers(log', r) = {}
  BY <1>1 DEF Writers
<1> QED BY <1>1, <1>2 DEF Logged

(* A call that is not recorded.                                            *)
LEMMA UnrecordedKeepsStream ==
  ASSUME ReplicationTypeOK, StreamOK, NEW b, CallStep(b),
         log' = Append(log, b), journal' = journal,
         serving /\ Header \in DOMAIN b => program = "terminal"
  PROVE  EntriesOK' /\ HeadersOK' /\ ValuesOK' /\ DrainedOK'
<1>0. PositionOK /\ EntriesOK /\ HeadersOK /\ ValuesOK /\ DrainedOK /\ b \in Batches
  BY DEF StreamOK, CallStep
<1>1. /\ \A r \in AllRanges : file'[r] = IF r \in DOMAIN b THEN b[r] ELSE file[r]
      /\ Header \in DOMAIN b => file'[Header] = position + 1 /\ position' = position + 1
      /\ Header \notin DOMAIN b => file'[Header] = file[Header]
      /\ file'[Header] \in Nat /\ position' \in Nat
      /\ file[Header] <= file'[Header] /\ position <= position'
  BY <1>0, CallWrites
<1>2. /\ file[Header] \in Nat /\ position \in Nat /\ Header \in AllRanges
      /\ file[Header] <= position
  BY <1>0, NumbersTyped
<1>3. /\ log \in Seq(Batches) /\ Len(log) \in Nat /\ Len(journal) \in Nat
      /\ \A i \in 1 .. Len(journal) :
           /\ journal[i].seq \in Nat
           /\ journal[i].batches \in Seq(Batches)
           /\ Len(journal[i].batches) \in Nat
  BY StreamTyped
<1>4. Logged' = Logged \union (AllRanges \intersect DOMAIN b)
  BY LoggedAfter
<1>5. EntriesOK'
  BY <1>0, <1>1, <1>2, <1>3 DEF EntriesOK
<1>6. ASSUME NEW i \in Writers(log', Header) PROVE log'[i][Header] <= position'
  <2>1. Writers(log', Header) = Writers(log, Header)
                                  \union (IF Header \in DOMAIN b THEN {Len(log) + 1} ELSE {})
    BY <1>3, WritersAppend
  <2>2. CASE i \in Writers(log, Header)
    <3>1. log'[i] = log[i] /\ log[i] \in Batches /\ Header \in DOMAIN log[i]
      BY <1>3, <2>2 DEF Writers
    <3>2. log[i][Header] \in Nat
      BY <3>1 DEF Batches
    <3>3. log[i][Header] <= position
      BY <1>0, <2>2 DEF HeadersOK
    <3> QED BY <3>1, <3>2, <3>3, <1>1, <1>2
  <2>3. CASE i = Len(log) + 1 /\ Header \in DOMAIN b
    <3>1. log'[i] = b
      BY <1>3, <2>3
    <3> QED BY <3>1, <2>3, <1>1, <1>2 DEF CallStep
  <2> QED BY <2>1, <2>2, <2>3
<1>7. ASSUME NEW i \in 1 .. Len(journal), NEW j \in 1 .. Len(journal[i].batches),
             Written(i, j, Header)
      PROVE  /\ journal[i].batches[j][Header] <= journal[i].seq + 1
             /\ j < Len(journal[i].batches) => journal[i].batches[j][Header] <= journal[i].seq
             /\ Header \in Logged' => journal[i].batches[j][Header] < file'[Header]
  <2>1. /\ journal[i].batches[j][Header] <= journal[i].seq + 1
        /\ j < Len(journal[i].batches) => journal[i].batches[j][Header] <= journal[i].seq
        /\ Header \in Logged => journal[i].batches[j][Header] < file[Header]
    BY <1>0, <1>7 DEF HeadersOK
  <2>2. journal[i].seq \in Nat /\ journal[i].seq < file[Header]
    BY <1>0, <1>3 DEF EntriesOK
  <2>3. journal[i].batches[j] \in Batches /\ Header \in DOMAIN journal[i].batches[j]
    BY <1>3, <1>7 DEF Written
  <2>4. journal[i].batches[j][Header] \in Nat
    BY <2>3 DEF Batches
  <2>5. PICK h \in Nat : h = journal[i].batches[j][Header]
    BY <2>4
  <2>6. PICK s \in Nat : s = journal[i].seq
    BY <2>2
  <2>7. ASSUME Header \in Logged' PROVE h < file'[Header]
    <3>1. CASE Header \in DOMAIN b
      <4>1. file'[Header] = position + 1
        BY <3>1, <1>1
      <4>2. h <= s + 1 /\ s < file[Header]
        BY <2>1, <2>2, <2>5, <2>6
      <4>3. h <= file[Header]
        BY <4>2, <1>2
      <4> QED BY <4>1, <4>3, <1>2
    <3>2. CASE Header \notin DOMAIN b
      <4>1. file'[Header] = file[Header]
        BY <3>2, <1>1
      <4>2. Header \in Logged
        BY <3>2, <2>7, <1>4
      <4> QED BY <4>1, <4>2, <2>1, <2>5
    <3> QED BY <3>1, <3>2
  <2> QED BY <2>1, <2>5, <2>7
<1>8. HeadersOK'
  BY <1>6, <1>7 DEF HeadersOK, Written
<1>9. ASSUME NEW r \in AllRanges, NEW i \in 1 .. Len(log'), WritesLast(log', i, r)
      PROVE  log'[i][r] = file'[r]
  <2>1. \/ r \in DOMAIN b /\ log'[i] = b
        \/ r \notin DOMAIN b /\ WritesLast(log, i, r) /\ log'[i] = log[i]
    BY <1>3, <1>9, LastAppend
  <2>2. CASE r \in DOMAIN b /\ log'[i] = b
    BY <2>2, <1>1
  <2>3. CASE r \notin DOMAIN b /\ WritesLast(log, i, r) /\ log'[i] = log[i]
    <3>1. i \in 1 .. Len(log)
      BY <2>3 DEF WritesLast, Writers
    <3>2. log[i][r] = file[r]
      BY <3>1, <2>3, <1>0 DEF ValuesOK
    <3> QED BY <2>3, <3>2, <1>1
  <2> QED BY <2>1, <2>2, <2>3
<1>10. \A r \in AllRanges \ Logged' : r \in AllRanges \ Logged /\ file'[r] = file[r]
  BY <1>1, <1>4
<1>11. ValuesOK'
  BY <1>0, <1>9, <1>10 DEF ValuesOK, Written
<1>12. DrainedOK'
  BY <1>0, <1>4 DEF DrainedOK, CallStep
<1> QED BY <1>5, <1>8, <1>11, <1>12

(* A call that is recorded.  The new entry holds the whole log, and the    *)
(* call's own batch as its last.                                           *)
LEMMA NewEntry ==
  ASSUME ReplicationTypeOK, NEW b \in Batches, NEW d \in {0, 1},
         JournalShifts(position, Append(log, b), d)
  PROVE  LET n == Len(journal') IN
         /\ n \in Nat /\ n \in 1 .. n
         /\ journal'[n].seq = position /\ journal'[n].batches = Append(log, b)
         /\ \A i \in 1 .. n : i # n => i \in 1 .. n - 1
         /\ \A i \in 1 .. n - 1 : /\ i + d \in 1 .. Len(journal) /\ journal'[i] = journal[i + d]
                                  /\ i \in 1 .. n
         /\ Append(log, b) \in Seq(Batches) /\ Len(Append(log, b)) = Len(log) + 1
<1>1. Len(journal) \in Nat /\ log \in Seq(Batches)
  BY StreamTyped
<1>2. Len(journal') \in Nat /\ Len(journal') >= 1
  BY <1>1 DEF JournalShifts
<1>3. Append(log, b) \in Seq(Batches) /\ Len(Append(log, b)) = Len(log) + 1
  BY <1>1
<1>4. \A i \in 1 .. Len(journal') : i # Len(journal') => i \in 1 .. Len(journal') - 1
  BY <1>2
<1>5. \A i \in 1 .. Len(journal') - 1 : i \in 1 .. Len(journal')
  BY <1>2
<1>6. Len(journal') \in 1 .. Len(journal')
  BY <1>2
<1>7. /\ journal'[Len(journal')].seq = position
      /\ journal'[Len(journal')].batches = Append(log, b)
  BY DEF JournalShifts
<1> QED BY <1>2, <1>3, <1>4, <1>5, <1>6, <1>7 DEF JournalShifts

LEMMA RecordedKeepsStream ==
  ASSUME ReplicationTypeOK, StreamOK, NEW b, CallStep(b), Header \in DOMAIN b,
         log' = <<>>, journal' = Recorded(journal, position, Append(log, b))
  PROVE  EntriesOK' /\ HeadersOK' /\ ValuesOK' /\ DrainedOK'
<1>0. PositionOK /\ EntriesOK /\ HeadersOK /\ ValuesOK /\ b \in Batches
  BY DEF StreamOK, CallStep
<1>1. /\ \A r \in AllRanges : file'[r] = IF r \in DOMAIN b THEN b[r] ELSE file[r]
      /\ file'[Header] = position + 1 /\ b[Header] = position + 1
  BY <1>0, CallWrites DEF CallStep
<1>2. /\ file[Header] \in Nat /\ position \in Nat /\ Header \in AllRanges
      /\ file[Header] <= position
  BY <1>0, NumbersTyped
<1>3. /\ log \in Seq(Batches) /\ Len(log) \in Nat /\ Len(journal) \in Nat
      /\ \A i \in 1 .. Len(journal) :
           /\ journal[i].seq \in Nat
           /\ journal[i].batches \in Seq(Batches)
           /\ Len(journal[i].batches) \in Nat
  BY StreamTyped
<1>4. Logged' = {} /\ Len(log') = 0 /\ \A r : Writers(log', r) = {}
  BY EmptyLog
<1>5. DrainedOK'
  BY <1>4 DEF DrainedOK
<1>6. CASE journal' = <<>>
  <2>1. Len(journal') = 0 /\ 1 .. 0 = {}
    BY <1>6
  <2> QED BY <1>4, <1>5, <2>1 DEF EntriesOK, HeadersOK, ValuesOK, WritesLast
<1>7. ASSUME NEW d \in {0, 1}, JournalShifts(position, Append(log, b), d)
      PROVE  EntriesOK' /\ HeadersOK' /\ ValuesOK'
  <2> DEFINE n == Len(journal')
             bs == Append(log, b)
  <2>1. /\ n \in Nat /\ n \in 1 .. n
        /\ journal'[n].seq = position /\ journal'[n].batches = bs
        /\ \A i \in 1 .. n : i # n => i \in 1 .. n - 1
        /\ \A i \in 1 .. n - 1 : /\ i + d \in 1 .. Len(journal) /\ journal'[i] = journal[i + d]
                                 /\ i \in 1 .. n
        /\ bs \in Seq(Batches) /\ Len(bs) = Len(log) + 1
    BY <1>0, <1>7, NewEntry
  <2>2. bs[Len(log) + 1] = b /\ \A i \in 1 .. Len(log) : bs[i] = log[i]
    BY <1>3
  <2>3. d \in Nat /\ d <= 1
    OBVIOUS
  <2> HIDE DEF n, bs
  <2>4. EntriesOK'
    <3>1. ASSUME NEW i \in 1 .. n PROVE journal'[i].seq < file'[Header]
      <4>1. CASE i = n
        BY <4>1, <2>1, <1>1, <1>2
      <4>2. CASE i # n
        <5>1. i + d \in 1 .. Len(journal) /\ journal'[i] = journal[i + d]
          BY <4>2, <2>1
        <5>2. journal[i + d].seq < file[Header] /\ journal[i + d].seq \in Nat
          BY <5>1, <1>0, <1>3 DEF EntriesOK
        <5> QED BY <5>1, <5>2, <1>1, <1>2
      <4> QED BY <4>1, <4>2
    <3>2. ASSUME NEW i \in 1 .. n, NEW k \in 1 .. n, i < k
          PROVE  journal'[i].seq < journal'[k].seq
      <4>1. i \in 1 .. n - 1
        BY <3>2, <2>1
      <4>2. i + d \in 1 .. Len(journal) /\ journal'[i] = journal[i + d]
        BY <4>1, <2>1
      <4>3. CASE k = n
        <5>1. journal[i + d].seq < file[Header] /\ journal[i + d].seq \in Nat
          BY <4>2, <1>0, <1>3 DEF EntriesOK
        <5> QED BY <4>2, <4>3, <5>1, <2>1, <1>2
      <4>4. CASE k # n
        <5>1. k + d \in 1 .. Len(journal) /\ journal'[k] = journal[k + d]
          BY <4>4, <2>1
        <5>2. i + d < k + d
          BY <3>2, <2>1, <2>3
        <5> QED BY <4>2, <5>1, <5>2, <1>0 DEF EntriesOK
      <4> QED BY <4>3, <4>4
    <3> QED BY <3>1, <3>2 DEF EntriesOK, n
  <2>5. HeadersOK'
    <3>1. ASSUME NEW i \in 1 .. n, NEW j \in 1 .. Len(journal'[i].batches),
                 Header \in DOMAIN journal'[i].batches[j]
          PROVE  /\ journal'[i].batches[j][Header] <= journal'[i].seq + 1
                 /\ j < Len(journal'[i].batches) => journal'[i].batches[j][Header] <= journal'[i].seq
      <4>1. CASE i = n
        <5>1. journal'[i].batches = bs /\ journal'[i].seq = position
              /\ j \in 1 .. Len(log) + 1 /\ Len(bs) = Len(log) + 1
          BY <4>1, <2>1, <3>1
        <5>2. CASE j = Len(log) + 1
          <6>1. bs[j][Header] = position + 1 /\ ~ (j < Len(bs))
            BY <5>1, <5>2, <2>2, <1>1, <1>3
          <6> QED BY <6>1, <5>1, <1>2
        <5>3. CASE j \in 1 .. Len(log)
          <6>1. bs[j] = log[j] /\ log[j] \in Batches /\ Header \in DOMAIN log[j]
            BY <5>1, <5>3, <2>2, <3>1, <1>3
          <6>2. log[j][Header] <= position
            BY <6>1, <5>3, <1>0 DEF HeadersOK, Writers
          <6>3. log[j][Header] \in Nat
            BY <6>1 DEF Batches
          <6> QED BY <6>1, <6>2, <6>3, <5>1, <1>2
        <5> QED BY <5>1, <5>2, <5>3, <1>3
      <4>2. CASE i # n
        <5>1. i + d \in 1 .. Len(journal) /\ journal'[i] = journal[i + d]
          BY <4>2, <2>1
        <5>2. j \in 1 .. Len(journal[i + d].batches) /\ Written(i + d, j, Header)
          BY <5>1, <3>1 DEF Written
        <5> QED BY <5>1, <5>2, <1>0 DEF HeadersOK
      <4> QED BY <4>1, <4>2
    <3>2. \A i \in Writers(log', Header) : log'[i][Header] <= position'
      BY <1>4
    <3> QED BY <3>1, <3>2, <1>4 DEF HeadersOK, Written, n
  <2>6. ValuesOK'
    <3>1. ASSUME NEW r \in AllRanges, NEW i \in 1 .. n, NEW j \in 1 .. Len(journal'[i].batches),
                 r \in DOMAIN journal'[i].batches[j],
                 \A k \in 1 .. n : \A l \in 1 .. Len(journal'[k].batches) :
                   r \in DOMAIN journal'[k].batches[l] => k < i \/ (k = i /\ l <= j)
          PROVE  journal'[i].batches[j][r] = file'[r]
      <4>1. CASE i = n
        <5>1. journal'[i].batches = bs /\ j \in 1 .. Len(bs)
          BY <4>1, <2>1
        <5>2. j \in Writers(bs, r)
          BY <5>1, <3>1 DEF Writers
        <5>3. \A l \in Writers(bs, r) : l <= j
          <6> TAKE l \in Writers(bs, r)
          <6>1. l \in 1 .. Len(journal'[i].batches) /\ r \in DOMAIN journal'[i].batches[l]
            BY <5>1 DEF Writers
          <6>2. ~ (i < i)
            BY <4>1, <2>1
          <6> QED BY <6>1, <6>2, <3>1
        <5>4. WritesLast(Append(log, b), j, r)
          BY <5>2, <5>3 DEF WritesLast, bs
        <5>5. \/ r \in DOMAIN b /\ bs[j] = b
              \/ r \notin DOMAIN b /\ WritesLast(log, j, r) /\ bs[j] = log[j]
          BY <5>4, <1>3, LastAppend DEF bs
        <5>6. CASE r \in DOMAIN b /\ bs[j] = b
          BY <5>6, <5>1, <1>1
        <5>7. CASE r \notin DOMAIN b /\ WritesLast(log, j, r) /\ bs[j] = log[j]
          <6>1. j \in 1 .. Len(log)
            BY <5>7 DEF WritesLast, Writers
          <6>2. log[j][r] = file[r]
            BY <6>1, <5>7, <1>0 DEF ValuesOK
          <6> QED BY <6>2, <5>7, <5>1, <1>1
        <5> QED BY <5>5, <5>6, <5>7
      <4>2. CASE i # n
        <5>1. i + d \in 1 .. Len(journal) /\ journal'[i] = journal[i + d]
          BY <4>2, <2>1
        <5>2. \A l \in 1 .. Len(bs) : r \notin DOMAIN bs[l]
          <6> SUFFICES ASSUME NEW l \in 1 .. Len(bs), r \in DOMAIN bs[l] PROVE FALSE
            OBVIOUS
          <6>1. n < i \/ n = i
            BY <2>1, <3>1
          <6> QED BY <6>1, <4>2, <2>1
        <5>3. r \notin DOMAIN b /\ r \notin Logged
          <6>1. Len(log) + 1 \in 1 .. Len(bs)
            BY <2>1, <1>3
          <6>2. r \notin DOMAIN b
            BY <6>1, <5>2, <2>2
          <6>3. \A l \in 1 .. Len(log) : l \in 1 .. Len(bs) /\ bs[l] = log[l]
            BY <2>1, <2>2, <1>3
          <6>4. Writers(log, r) = {}
            BY <6>3, <5>2 DEF Writers
          <6> QED BY <6>2, <6>4 DEF Logged
        <5>4. j \in 1 .. Len(journal[i + d].batches) /\ Written(i + d, j, r)
          BY <5>1, <3>1 DEF Written
        <5>5. ASSUME NEW k \in 1 .. Len(journal), NEW l \in 1 .. Len(journal[k].batches),
                     Written(k, l, r)
              PROVE  k < i + d \/ (k = i + d /\ l <= j)
          <6>1. CASE k <= d
            BY <6>1, <2>1, <2>3, <1>3
          <6>2. CASE k > d
            <7>1. Len(journal') = Len(journal) + 1 - d
              BY <1>7 DEF JournalShifts
            <7>2. k - d \in 1 .. n - 1 /\ (k - d) + d = k
              BY <6>2, <7>1, <2>3, <1>3 DEF n
            <7>3. k - d \in 1 .. n /\ journal'[k - d] = journal[k]
              BY <7>2, <2>1
            <7>4. k - d < i \/ (k - d = i /\ l <= j)
              BY <7>3, <3>1, <5>5 DEF Written
            <7> QED BY <7>2, <7>4, <2>1, <2>3
          <6> QED BY <6>1, <6>2, <2>3
        <5>6. journal[i + d].batches[j][r] = file[r]
          BY <5>1, <5>3, <5>4, <5>5, <1>0 DEF ValuesOK
        <5> QED BY <5>1, <5>3, <5>6, <1>1
      <4> QED BY <4>1, <4>2
    <3>2. \A r \in AllRanges : \A i \in 1 .. Len(log') :
            WritesLast(log', i, r) => log'[i][r] = file'[r]
      BY <1>4 DEF WritesLast
    <3> QED BY <3>1, <3>2 DEF ValuesOK, Written, n
  <2> QED BY <2>4, <2>5, <2>6
<1>8. ReplicationTypeOK /\ IsPatch(Append(log, b))
  BY <1>0, <1>3, PatchAppend
<1> QED BY <1>2, <1>5, <1>6, <1>7, <1>8, RecordTyped

LEMMA FreshJournalKeepsStream ==
  ASSUME ReplicationTypeOK, StreamOK, FreshJournal
  PROVE  EntriesOK' /\ HeadersOK' /\ ValuesOK' /\ DrainedOK'
<1>0. HeadersOK /\ ValuesOK
  BY DEF StreamOK
<1>1. Len(journal') = 0 /\ 1 .. 0 = {} /\ journal' = <<>> /\ file' = file
  BY DEF FreshJournal
<1>2. EntriesOK' /\ DrainedOK'
  BY <1>1 DEF EntriesOK, DrainedOK
<1>3. CASE log' = log /\ position' = position
  <2>1. HeadersOK'
    BY <1>0, <1>1, <1>3 DEF HeadersOK
  <2>2. \A r \in AllRanges : \A i \in 1 .. Len(log') :
          WritesLast(log', i, r) => log'[i][r] = file'[r]
    BY <1>0, <1>1, <1>3 DEF ValuesOK
  <2>3. ValuesOK'
    BY <1>1, <2>2 DEF ValuesOK
  <2> QED BY <1>2, <2>1, <2>3
<1>4. CASE log' = <<>>
  <2>1. Logged' = {} /\ Len(log') = 0 /\ \A r : Writers(log', r) = {}
    BY <1>4, EmptyLog
  <2>2. HeadersOK'
    BY <1>1, <2>1 DEF HeadersOK
  <2>3. ValuesOK'
    BY <1>1, <2>1 DEF ValuesOK
  <2> QED BY <1>2, <2>2, <2>3
<1> QED BY <1>2, <1>3, <1>4 DEF FreshJournal, handleVars

LEMMA StreamKept ==
  ASSUME ReplicationTypeOK, StreamOK, [ReplicationNext]_replicationVars
  PROVE  StreamOK'
<1>0. PositionOK /\ PositionOK'
  BY TypesKept DEF StreamOK
<1>1. ASSUME NEW R \in SUBSET Ranges, AnyCall(R)
      PROVE  EntriesOK' /\ HeadersOK' /\ ValuesOK' /\ DrainedOK'
  <2>1. PICK b : CallStep(b)
    BY <1>1, CallsAreCallSteps
  <2>2. CASE /\ log' = Append(log, b) /\ journal' = journal
             /\ serving /\ Header \in DOMAIN b => program = "terminal"
    BY <2>1, <2>2, UnrecordedKeepsStream
  <2>3. CASE /\ Header \in DOMAIN b /\ log' = <<>>
             /\ journal' = Recorded(journal, position, Append(log, b))
    BY <2>1, <2>3, RecordedKeepsStream
  <2> QED BY <2>1, <2>2, <2>3 DEF CallStep
<1>2. CASE FreshJournal
  BY <1>0, <1>2, FreshJournalKeepsStream DEF StreamOK
<1>3. ASSUME UNCHANGED <<file, handleVars, sessionVars>> PROVE StreamOK'
  <2>1. UNCHANGED <<file, program, position, log, serving, journal>>
    BY <1>3 DEF handleVars, sessionVars
  <2>2. Logged' = Logged
    BY <2>1 DEF Logged
  <2>3. EntriesOK' = EntriesOK
    BY <2>1 DEF EntriesOK
  <2>4. HeadersOK' = HeadersOK
    BY <2>1, <2>2 DEF HeadersOK, Written
  <2>5. ValuesOK' = ValuesOK
    BY <2>1, <2>2 DEF ValuesOK, Written
  <2>6. DrainedOK' = DrainedOK
    BY <2>1, <2>2 DEF DrainedOK
  <2> QED BY <1>0, <2>3, <2>4, <2>5, <2>6 DEF StreamOK
<1>4. CASE \E p \in Peers : PeerAction(p)
  <2>1. UNCHANGED <<file, handleVars, sessionVars>>
    BY <1>4, PeerActionsAreSteps DEF PeerStep
  <2> QED BY <1>3, <2>1
<1>5. CASE UNCHANGED replicationVars
  <2>1. UNCHANGED <<file, handleVars, sessionVars>>
    BY <1>5 DEF replicationVars, handleVars, sessionVars
  <2> QED BY <1>3, <2>1
<1> QED BY <1>0, <1>1, <1>2, <1>4, <1>5, StepKinds DEF StreamOK

LEMMA StreamInitially == ReplicationInit => StreamOK
<1> SUFFICES ASSUME ReplicationInit PROVE StreamOK
  OBVIOUS
<1>1. PositionOK
  BY TypesInitially
<1>2. Len(log) = 0 /\ Len(journal) = 0 /\ 1 .. 0 = {} /\ ~serving
  BY DEF ReplicationInit
<1>3. \A r : Writers(log, r) = {}
  BY <1>2 DEF Writers
<1>4. EntriesOK /\ HeadersOK /\ DrainedOK
  BY <1>2, <1>3 DEF EntriesOK, HeadersOK, DrainedOK
<1>5. ValuesOK
  BY <1>2 DEF ValuesOK
<1> QED BY <1>1, <1>4, <1>5 DEF StreamOK

Differing(c) == {r \in AllRanges : c[r] # file[r]}

(* A copy that is no further than the container, and which journal and log *)
(* can bring up to date, but for what is forgotten, as soon as the journal *)
(* claims to cover it.                                                     *)
MayFollow(c) ==
  /\ c[Header] <= file[Header]
  /\ c[Header] = file[Header] => Differing(c) \subseteq FailedRanges \union forgotten
  /\ Covers(c[Header]) =>
       Differing(c) \subseteq JournalledSince(c[Header]) \union Logged \union forgotten

(* What a replica is, and what any part of the answer on its way may make  *)
(* of it.                                                                  *)
CopiesOf(c, a) ==
  {c} \union (IF a.kind = "full" THEN {a.file} ELSE {})
      \union (IF a.kind = "patch"
              THEN {OverwriteAll(c, a.batches)} \union
                   {Partly(c, a.batches, k, R) :
                      k \in 0 .. Len(a.batches) - 1, R \in SUBSET Ranges}
              ELSE {})
CopiesOK == \A p \in Peers : \A c \in CopiesOf(replica[p], answer[p]) : MayFollow(c)

ReplicationInv == ReplicationTypeOK /\ StreamOK /\ CopiesOK

-------------------------------------------------------------------------------
(***************************************************************************)
(* Copies while the admin goes on.                                         *)
(***************************************************************************)
LEMMA FailedAreLogged ==
  ASSUME ReplicationTypeOK
  PROVE  FailedRanges \subseteq Logged
<1> SUFFICES ASSUME NEW i \in FailedBatches, NEW r \in DOMAIN log[i] PROVE r \in Logged
  BY DEF FailedRanges
<1>1. i \in 1 .. Len(log)
  BY DEF FailedBatches
<1>2. log[i] \in Batches
  BY <1>1, StreamTyped
<1>3. r \in AllRanges /\ i \in Writers(log, r)
  BY <1>1, <1>2 DEF Batches, Writers
<1> QED BY <1>3 DEF Logged

LEMMA FailedAfter ==
  ASSUME ReplicationTypeOK, NEW b, log' = Append(log, b)
  PROVE  /\ FailedRanges \subseteq FailedRanges'
         /\ Header \notin DOMAIN b => DOMAIN b \subseteq FailedRanges'
<1>1. /\ log \in Seq(Batches) /\ Len(log) \in Nat
  BY StreamTyped
<1>2. /\ Len(log') = Len(log) + 1 /\ log'[Len(log) + 1] = b
      /\ \A i \in 1 .. Len(log) : i \in 1 .. Len(log') /\ log'[i] = log[i]
      /\ Len(log) + 1 \in 1 .. Len(log')
  BY <1>1
<1>3. \A i \in FailedBatches : i \in FailedBatches' /\ log'[i] = log[i]
  BY <1>2 DEF FailedBatches
<1>4. Header \notin DOMAIN b => Len(log) + 1 \in FailedBatches'
  BY <1>2 DEF FailedBatches
<1> QED BY <1>2, <1>3, <1>4 DEF FailedRanges

LEMMA UnrecordedMayFollow ==
  ASSUME ReplicationTypeOK, StreamOK, NEW b, CallStep(b),
         log' = Append(log, b), journal' = journal,
         NEW c \in Container, MayFollow(c)
  PROVE  MayFollow(c)'
<1>0. PositionOK
  BY DEF StreamOK
<1>1. /\ \A r \in AllRanges : file'[r] = IF r \in DOMAIN b THEN b[r] ELSE file[r]
      /\ Header \in DOMAIN b => file'[Header] = position + 1
      /\ Header \notin DOMAIN b => file'[Header] = file[Header]
      /\ file'[Header] \in Nat /\ file[Header] <= file'[Header]
  BY <1>0, CallWrites
<1>2. file[Header] \in Nat /\ position \in Nat /\ file[Header] <= position /\ c[Header] \in Nat
  BY <1>0, NumbersTyped DEF Container
<1>3. /\ c[Header] <= file[Header]
      /\ c[Header] = file[Header] => Differing(c) \subseteq FailedRanges \union forgotten
      /\ Covers(c[Header]) =>
           Differing(c) \subseteq JournalledSince(c[Header]) \union Logged \union forgotten
      /\ forgotten' = forgotten \ DOMAIN b
  BY DEF MayFollow, CallStep
<1>4. Differing(c)' \subseteq Differing(c) \union (AllRanges \intersect DOMAIN b)
  BY <1>1 DEF Differing
<1>5. c[Header] = file'[Header] => Differing(c)' \subseteq FailedRanges' \union forgotten'
  <2> SUFFICES ASSUME c[Header] = file'[Header]
               PROVE  Differing(c)' \subseteq FailedRanges' \union forgotten'
    OBVIOUS
  <2>1. Header \notin DOMAIN b
    BY <1>1, <1>2, <1>3
  <2>2. Differing(c) \subseteq FailedRanges \union forgotten
    BY <2>1, <1>1, <1>3
  <2>3. FailedRanges \subseteq FailedRanges' /\ DOMAIN b \subseteq FailedRanges'
    BY <2>1, FailedAfter
  <2> QED BY <2>2, <2>3, <1>3, <1>4
<1>6. Logged' = Logged \union (AllRanges \intersect DOMAIN b)
  BY LoggedAfter
<1>7. /\ Covers(c[Header])' <=> Covers(c[Header])
      /\ JournalledSince(c[Header])' = JournalledSince(c[Header])
  BY DEF Covers, JournalledSince, Written
<1>8. Covers(c[Header])' =>
        Differing(c)' \subseteq JournalledSince(c[Header])' \union Logged' \union forgotten'
  <2> SUFFICES ASSUME Covers(c[Header])', NEW r \in Differing(c)', r \notin forgotten'
               PROVE  r \in JournalledSince(c[Header])' \union Logged'
    OBVIOUS
  <2>1. CASE r \in AllRanges /\ r \in DOMAIN b
    BY <2>1, <1>6
  <2>2. CASE ~ (r \in AllRanges /\ r \in DOMAIN b)
    <3>1. r \in Differing(c) /\ r \notin DOMAIN b
      BY <2>2, <1>4 DEF Differing
    <3>2. r \in JournalledSince(c[Header]) \union Logged
      BY <3>1, <1>3, <1>7
    <3> QED BY <3>2, <1>6, <1>7
  <2> QED BY <2>1, <2>2
<1>9. c[Header] <= file'[Header]
  BY <1>1, <1>2, <1>3
<1> QED BY <1>5, <1>8, <1>9 DEF MayFollow

LEMMA RecordedMayFollow ==
  ASSUME ReplicationTypeOK, StreamOK, NEW b, CallStep(b), Header \in DOMAIN b,
         log' = <<>>, journal' = Recorded(journal, position, Append(log, b)),
         NEW c \in Container, MayFollow(c)
  PROVE  MayFollow(c)'
<1>0. PositionOK /\ EntriesOK /\ b \in Batches
  BY DEF StreamOK, CallStep
<1>1. /\ \A r \in AllRanges : file'[r] = IF r \in DOMAIN b THEN b[r] ELSE file[r]
      /\ file'[Header] = position + 1
  BY <1>0, CallWrites
<1>2. file[Header] \in Nat /\ position \in Nat /\ file[Header] <= position /\ c[Header] \in Nat
  BY <1>0, NumbersTyped DEF Container
<1>3. /\ c[Header] <= file[Header]
      /\ c[Header] = file[Header] => Differing(c) \subseteq FailedRanges \union forgotten
      /\ Covers(c[Header]) =>
           Differing(c) \subseteq JournalledSince(c[Header]) \union Logged \union forgotten
      /\ forgotten' = forgotten \ DOMAIN b
  BY DEF MayFollow, CallStep
<1>4. c[Header] < file'[Header]
  BY <1>1, <1>2, <1>3
<1>5. ASSUME Covers(c[Header])', NEW r \in Differing(c)', r \notin forgotten'
      PROVE  r \in JournalledSince(c[Header])'
  <2>1. c[Header] # 0 /\ journal' # <<>> /\ c[Header] >= journal'[1].seq
    BY <1>5 DEF Covers
  <2>2. IsPatch(Append(log, b))
    BY <1>0, StreamTyped, PatchAppend
  <2>3. PICK d \in {0, 1} : JournalShifts(position, Append(log, b), d)
    BY <2>1, <2>2, <1>2, RecordTyped
  <2> DEFINE n == Len(journal')
             bs == Append(log, b)
  <2>4. /\ n \in Nat /\ n \in 1 .. n
        /\ journal'[n].seq = position /\ journal'[n].batches = bs
        /\ \A i \in 1 .. n : i # n => i \in 1 .. n - 1
        /\ \A i \in 1 .. n - 1 : /\ i + d \in 1 .. Len(journal) /\ journal'[i] = journal[i + d]
                                 /\ i \in 1 .. n
        /\ bs \in Seq(Batches) /\ Len(bs) = Len(log) + 1
    BY <1>0, <2>3, NewEntry
  <2>5. /\ log \in Seq(Batches) /\ Len(log) \in Nat /\ Len(journal) \in Nat
        /\ \A i \in 1 .. Len(journal) : journal[i].seq \in Nat
    BY StreamTyped
  <2>6. bs[Len(log) + 1] = b /\ \A i \in 1 .. Len(log) : bs[i] = log[i]
    BY <2>5
  <2>7. n = Len(journal) + 1 - d /\ d \in Nat
    BY <2>3 DEF JournalShifts
  <2>8. r \in AllRanges /\ c[r] # file'[r]
    BY <1>5 DEF Differing
  <2> HIDE DEF n, bs
  <2>9. ASSUME NEW l \in 1 .. Len(bs), r \in DOMAIN bs[l]
        PROVE  r \in JournalledSince(c[Header])'
    <3>1. n \in 1 .. Len(journal') /\ l \in 1 .. Len(journal'[n].batches)
          /\ r \in DOMAIN journal'[n].batches[l]
      BY <2>4, <2>9 DEF n
    <3>2. journal'[n].seq >= c[Header]
      BY <2>4, <1>2, <1>3
    <3> QED BY <3>1, <3>2, <2>8 DEF JournalledSince, Written
  <2>10. CASE r \in DOMAIN b
    <3>1. Len(log) + 1 \in 1 .. Len(bs)
      BY <2>4, <2>5
    <3> QED BY <3>1, <2>6, <2>9, <2>10
  <2>11. CASE r \in Logged
    <3>1. PICK l : l \in 1 .. Len(log) /\ r \in DOMAIN log[l]
      BY <2>11 DEF Logged, Writers
    <3>2. l \in 1 .. Len(bs) /\ bs[l] = log[l]
      BY <3>1, <2>4, <2>5, <2>6
    <3> QED BY <3>1, <3>2, <2>9
  <2>12. CASE r \notin DOMAIN b /\ r \notin Logged
    <3>1. r \in Differing(c)
      BY <2>8, <2>12, <1>1 DEF Differing
    <3>2. c[Header] # file[Header] /\ r \notin forgotten
      BY <3>1, <2>12, <1>3, <1>5, FailedAreLogged
    <3>3. n # 1
      BY <3>2, <2>1, <2>4, <1>2, <1>3
    <3>4. 1 \in 1 .. n - 1
      BY <3>3, <2>4
    <3>5. 1 + d \in 1 .. Len(journal) /\ journal'[1] = journal[1 + d]
      BY <3>4, <2>4
    <3>6. journal # <<>> /\ 1 \in 1 .. Len(journal)
      BY <3>5, <2>5
    <3>7. journal[1].seq <= journal[1 + d].seq
      <4>1. 1 = 1 + d \/ 1 < 1 + d
        BY <2>7
      <4> QED BY <4>1, <3>5, <3>6, <2>5, <1>0 DEF EntriesOK
    <3>8. Covers(c[Header])
      BY <3>5, <3>6, <3>7, <2>1, <2>5, <1>2 DEF Covers
    <3>9. PICK i \in 1 .. Len(journal) : \E j \in 1 .. Len(journal[i].batches) :
                 Written(i, j, r) /\ journal[i].seq >= c[Header]
      BY <3>1, <3>2, <3>8, <2>12, <1>3 DEF JournalledSince
    <3>10. PICK j \in 1 .. Len(journal[i].batches) : Written(i, j, r) /\ journal[i].seq >= c[Header]
      BY <3>9
    <3>11. i >= 1 + d
      <4> SUFFICES ASSUME i < 1 + d PROVE FALSE
        BY <2>7
      <4>1. journal[i].seq < journal[1 + d].seq
        BY <3>5, <1>0 DEF EntriesOK
      <4> QED BY <4>1, <3>5, <3>10, <2>1, <2>5, <1>2
    <3>12. i - d \in 1 .. n - 1 /\ (i - d) + d = i
      BY <3>11, <2>5, <2>7
    <3>13. i - d \in 1 .. n /\ journal'[i - d] = journal[i]
      BY <3>12, <2>4
    <3> QED BY <3>10, <3>13, <2>8 DEF JournalledSince, Written, n
  <2> QED BY <2>10, <2>11, <2>12
<1> QED BY <1>1, <1>2, <1>4, <1>5 DEF MayFollow

LEMMA FreshJournalMayFollow ==
  ASSUME FreshJournal, NEW c \in Container, MayFollow(c)
  PROVE  MayFollow(c)'
<1>1. journal' = <<>> /\ file' = file
  BY DEF FreshJournal
<1>2. ~Covers(c[Header])' /\ Differing(c)' = Differing(c)
  BY <1>1 DEF Covers, Differing
<1>3. FailedRanges \union forgotten \subseteq FailedRanges' \union forgotten'
  <2>1. CASE UNCHANGED <<handleVars, forgotten>>
    BY <2>1 DEF handleVars, FailedRanges, FailedBatches
  <2>2. CASE forgotten' = forgotten \union FailedRanges
    BY <2>2
  <2> QED BY <2>1, <2>2 DEF FreshJournal
<1> QED BY <1>1, <1>2, <1>3 DEF MayFollow

(* Whatever the admin does, a copy that may follow goes on following.      *)
AdminStep == (\E R \in SUBSET Ranges : AnyCall(R)) \/ FreshJournal

LEMMA AdminStepMayFollow ==
  ASSUME ReplicationTypeOK, StreamOK, AdminStep,
         NEW c \in Container, MayFollow(c)
  PROVE  MayFollow(c)'
<1>1. ASSUME NEW R \in SUBSET Ranges, AnyCall(R) PROVE MayFollow(c)'
  <2>1. PICK b : CallStep(b)
    BY <1>1, CallsAreCallSteps
  <2> QED BY <2>1, UnrecordedMayFollow, RecordedMayFollow DEF CallStep
<1> QED BY <1>1, FreshJournalMayFollow DEF AdminStep

-------------------------------------------------------------------------------
(***************************************************************************)
(* What an answer makes of the copy that asked for it.                     *)
(***************************************************************************)

(* A patch applied as a whole leaves nothing but what is in the log, or    *)
(* forgotten.                                                              *)
LEMMA PatchCompletes ==
  ASSUME ReplicationTypeOK, StreamOK, NEW c \in Container, MayFollow(c), Covers(c[Header]),
         NEW r \in AllRanges \ (Logged \union forgotten)
  PROVE  OverwriteAll(c, RangesSince(c[Header]))[r] = file[r]
<1> DEFINE n == c[Header]
           bs == RangesSince(n)
<1>1. PICK row, col \in [1 .. Len(bs) -> Nat] : ComesFrom(bs, n, row, col)
  BY RangesSinceFrom
<1>2. bs \in Seq(Batches) /\ Len(bs) \in Nat
  <2>1. bs \in Seq(Batches)
    BY RangesSinceFrom
  <2> HIDE DEF bs
  <2> QED BY <2>1
<1>3. /\ n \in Nat /\ Len(journal) \in Nat
      /\ \A i \in 1 .. Len(journal) : journal[i].seq \in Nat
  BY StreamTyped DEF Container, AllRanges
<1>4. EntriesOK /\ ValuesOK
  BY DEF StreamOK
<1>5. Differing(c) \subseteq JournalledSince(n) \union Logged \union forgotten
  BY DEF MayFollow
<1> HIDE DEF n, bs
<1>6. CASE Writers(bs, r) = {}
  <2>1. r \notin JournalledSince(n)
    <3> SUFFICES ASSUME NEW i \in 1 .. Len(journal), NEW j \in 1 .. Len(journal[i].batches),
                        Written(i, j, r), journal[i].seq >= n
                 PROVE  FALSE
      BY DEF JournalledSince
    <3>1. PICK k \in 1 .. Len(bs) : row[k] = i /\ col[k] = j
      BY <1>1 DEF ComesFrom
    <3>2. bs[k] = journal[i].batches[j]
      BY <1>1, <3>1 DEF ComesFrom
    <3> QED BY <3>1, <3>2, <1>6 DEF Writers, Written
  <2>2. c[r] = file[r]
    BY <2>1, <1>5 DEF Differing
  <2> QED BY <2>2, <1>2, <1>6, LastWriteWins DEF bs, n
<1>7. CASE Writers(bs, r) # {}
  <2> DEFINE k == Max(Writers(bs, r))
  <2>1. k \in Writers(bs, r) /\ \A l \in Writers(bs, r) : l <= k
    <3>1. Writers(bs, r) \in SUBSET (0 .. Len(bs))
      BY <1>2 DEF Writers
    <3> QED BY <3>1, <1>2, <1>7, MaxExists
  <2> HIDE DEF k
  <2>2. k \in 1 .. Len(bs) /\ r \in DOMAIN bs[k]
    BY <2>1 DEF Writers
  <2>3. OverwriteAll(c, bs)[r] = bs[k][r]
    BY <2>1, <1>2, LastWriteWins DEF WritesLast
  <2>4. /\ row[k] \in 1 .. Len(journal) /\ col[k] \in 1 .. Len(journal[row[k]].batches)
        /\ journal[row[k]].seq >= n /\ bs[k] = journal[row[k]].batches[col[k]]
    BY <1>1, <2>2 DEF ComesFrom
  <2>5. Written(row[k], col[k], r)
    BY <2>2, <2>4 DEF Written
  <2>6. ASSUME NEW i \in 1 .. Len(journal), NEW j \in 1 .. Len(journal[i].batches), Written(i, j, r)
        PROVE  i < row[k] \/ (i = row[k] /\ j <= col[k])
    <3>1. CASE journal[i].seq >= n
      <4>1. PICK l \in 1 .. Len(bs) : row[l] = i /\ col[l] = j
        BY <1>1, <3>1 DEF ComesFrom
      <4>2. bs[l] = journal[i].batches[j]
        BY <1>1, <4>1 DEF ComesFrom
      <4>3. l \in Writers(bs, r)
        BY <2>6, <4>2 DEF Writers, Written
      <4>4. l <= k
        BY <2>1, <4>3
      <4>5. CASE l = k
        BY <4>1, <4>5, <2>4
      <4>6. CASE l < k
        <5>1. row[l] < row[k] \/ (row[l] = row[k] /\ col[l] < col[k])
          BY <1>1, <2>2, <4>6 DEF ComesFrom
        <5>2. col[l] \in Nat /\ col[k] \in Nat
          BY <2>2
        <5> QED BY <5>1, <5>2, <4>1
      <4> QED BY <4>4, <4>5, <4>6, <2>2
    <3>2. CASE ~ (journal[i].seq >= n)
      <4>1. journal[i].seq < journal[row[k]].seq
        BY <3>2, <2>4, <1>3
      <4>2. i # row[k] /\ ~ (row[k] < i)
        BY <4>1, <2>4, <1>3, <1>4 DEF EntriesOK
      <4> QED BY <4>2, <2>4
    <3> QED BY <3>1, <3>2
  <2>7. journal[row[k]].batches[col[k]][r] = file[r]
    BY <2>4, <2>5, <2>6, <1>4 DEF ValuesOK
  <2> QED BY <2>3, <2>4, <2>7 DEF bs, n
<1> QED BY <1>6, <1>7

(* The header that a patch leaves behind: after its first k batches, a     *)
(* copy is not beyond the entry of the next one.                           *)
LEMMA PatchHeader ==
  ASSUME ReplicationTypeOK, StreamOK, NEW c \in Container, MayFollow(c), Covers(c[Header]),
         NEW bs, bs = RangesSince(c[Header]),
         NEW row \in [1 .. Len(bs) -> Nat], NEW col \in [1 .. Len(bs) -> Nat],
         ComesFrom(bs, c[Header], row, col),
         NEW k \in 0 .. Len(bs),
         NEW m, m = OverwriteAll(c, SubSeq(bs, 1, k))[Header]
  PROVE  /\ m \in Nat
         /\ m <= file[Header]
         /\ k < Len(bs) => m <= journal[row[k + 1]].seq
         /\ Header \in Logged => m < file[Header] \/ (m = c[Header] /\ m = file[Header])
<1>1. bs \in Seq(Batches) /\ Len(bs) \in Nat
  <2>1. bs \in Seq(Batches)
    BY RangesSinceFrom
  <2> QED BY <2>1
<1>2. /\ SubSeq(bs, 1, k) \in Seq(Batches) /\ Len(SubSeq(bs, 1, k)) = k
      /\ \A i \in 1 .. k : SubSeq(bs, 1, k)[i] = bs[i]
  BY <1>1, PrefixTyped
<1>3. /\ Header \in AllRanges /\ c[Header] \in Nat /\ file[Header] \in Nat
      /\ \A i \in 1 .. Len(journal) : /\ journal[i].seq \in Nat
                                      /\ journal[i].batches \in Seq(Batches)
                                      /\ Len(journal[i].batches) \in Nat
  BY StreamTyped DEF Container, AllRanges, ReplicationTypeOK
<1>4. EntriesOK /\ HeadersOK /\ c[Header] <= file[Header]
  BY DEF StreamOK, MayFollow
<1> DEFINE pre == SubSeq(bs, 1, k)
<1>5. k < Len(bs) => /\ k + 1 \in 1 .. Len(bs)
                     /\ row[k + 1] \in 1 .. Len(journal)
                     /\ journal[row[k + 1]].seq >= c[Header]
  <2>1. k < Len(bs) => k + 1 \in 1 .. Len(bs)
    BY <1>1
  <2> QED BY <2>1 DEF ComesFrom
<1> HIDE DEF pre
<1>6. CASE Writers(pre, Header) = {}
  <2>1. m = c[Header]
    BY <1>6, <1>2, <1>3, LastWriteWins DEF pre
  <2> QED BY <2>1, <1>3, <1>4, <1>5
<1>7. CASE Writers(pre, Header) # {}
  <2> DEFINE l == Max(Writers(pre, Header))
  <2>1. l \in Writers(pre, Header) /\ \A i \in Writers(pre, Header) : i <= l
    <3>1. Writers(pre, Header) \in SUBSET (0 .. k) /\ k \in Nat
      BY <1>1, <1>2 DEF Writers, pre
    <3> QED BY <3>1, <1>7, MaxExists
  <2> HIDE DEF l
  <2>2. l \in 1 .. k /\ l \in 1 .. Len(bs) /\ Header \in DOMAIN bs[l] /\ pre[l] = bs[l]
    BY <2>1, <1>1, <1>2 DEF Writers, pre
  <2>3. m = bs[l][Header]
    <3>1. WritesLast(pre, l, Header) /\ pre \in Seq(Batches)
      BY <2>1, <1>2 DEF WritesLast, pre
    <3>2. OverwriteAll(c, pre)[Header] = pre[l][Header]
      BY <3>1, <1>3, LastWriteWins
    <3> QED BY <3>2, <2>2 DEF pre
  <2>4. /\ row[l] \in 1 .. Len(journal) /\ col[l] \in 1 .. Len(journal[row[l]].batches)
        /\ bs[l] = journal[row[l]].batches[col[l]]
    BY <2>2 DEF ComesFrom
  <2>5. Written(row[l], col[l], Header)
    BY <2>2, <2>4 DEF Written
  <2>6. /\ m <= journal[row[l]].seq + 1
        /\ col[l] < Len(journal[row[l]].batches) => m <= journal[row[l]].seq
        /\ Header \in Logged => m < file[Header]
    BY <2>3, <2>4, <2>5, <1>4 DEF HeadersOK
  <2>7. journal[row[l]].seq < file[Header] /\ journal[row[l]].seq \in Nat
    BY <2>4, <1>3, <1>4 DEF EntriesOK
  <2>8. m \in Nat
    <3>1. bs[l] \in Batches
      BY <2>2, <1>1
    <3> QED BY <3>1, <2>2, <2>3 DEF Batches
  <2>9. ASSUME k < Len(bs) PROVE m <= journal[row[k + 1]].seq
    <3>1. /\ k + 1 \in 1 .. Len(bs) /\ l < k + 1
          /\ row[k + 1] \in 1 .. Len(journal) /\ journal[row[k + 1]].seq \in Nat
          /\ col[k + 1] \in 1 .. Len(journal[row[k + 1]].batches)
      BY <2>2, <2>9, <1>3, <1>5 DEF ComesFrom
    <3>2. row[l] < row[k + 1] \/ (row[l] = row[k + 1] /\ col[l] < col[k + 1])
      BY <2>2, <3>1 DEF ComesFrom
    <3>3. CASE row[l] < row[k + 1]
      <4>1. journal[row[l]].seq < journal[row[k + 1]].seq
        BY <3>1, <3>3, <2>4, <1>4 DEF EntriesOK
      <4>2. PICK x \in Nat : x = journal[row[l]].seq
        BY <2>7
      <4>3. PICK y \in Nat : y = journal[row[k + 1]].seq
        BY <3>1
      <4>4. m <= x + 1
        BY <4>2, <2>6
      <4>5. x < y
        BY <4>1, <4>2, <4>3
      <4>6. m <= y
        BY <4>4, <4>5, <2>8
      <4> QED BY <4>3, <4>6
    <3>4. CASE row[l] = row[k + 1] /\ col[l] < col[k + 1]
      <4>1. PICK a \in 1 .. Len(journal) : a = row[l] /\ a = row[k + 1]
        BY <3>4, <2>4
      <4>2. /\ Len(journal[a].batches) \in Nat
            /\ col[l] \in 1 .. Len(journal[a].batches)
            /\ col[k + 1] \in 1 .. Len(journal[a].batches)
        BY <4>1, <3>1, <2>4, <1>3
      <4>3. col[l] < Len(journal[a].batches)
        BY <4>2, <3>4
      <4>4. m <= journal[a].seq
        BY <4>1, <4>3, <2>6
      <4> QED BY <4>1, <4>4
    <3> QED BY <3>2, <3>3, <3>4
  <2> QED BY <2>6, <2>7, <2>8, <2>9, <1>3
<1> QED BY <1>6, <1>7

(* A patch that is cut off leaves a copy that is behind, and lacks only    *)
(* what the journal has from its new position on, what is in the log, or   *)
(* what is forgotten.                                                      *)
LEMMA PartMayFollow ==
  ASSUME ReplicationTypeOK, StreamOK, NEW c \in Container, MayFollow(c), Covers(c[Header]),
         NEW bs, bs = RangesSince(c[Header]),
         NEW k \in 0 .. Len(bs) - 1, NEW R \in SUBSET Ranges
  PROVE  MayFollow(Partly(c, bs, k, R))
<1>1. PICK row, col \in [1 .. Len(bs) -> Nat] : ComesFrom(bs, c[Header], row, col)
  BY RangesSinceFrom
<1>2. bs \in Seq(Batches) /\ Len(bs) \in Nat /\ k \in 0 .. Len(bs) /\ k < Len(bs)
      /\ k + 1 \in 1 .. Len(bs)
  <2>1. bs \in Seq(Batches)
    BY RangesSinceFrom
  <2> QED BY <2>1
<1> DEFINE pre == SubSeq(bs, 1, k)
           begun == [r \in R \intersect DOMAIN bs[k + 1] |-> bs[k + 1][r]]
           part == Partly(c, bs, k, R)
           m == part[Header]
           s == journal[row[k + 1]].seq
<1>3. /\ pre \in Seq(Batches) /\ Len(pre) = k /\ \A i \in 1 .. k : pre[i] = bs[i]
  BY <1>2, PrefixTyped
<1>4. \A r \in AllRanges : part[r] = IF r \in DOMAIN begun THEN begun[r]
                                     ELSE OverwriteAll(c, pre)[r]
  BY DEF Partly, Overwrite
<1>5. Header \in AllRanges /\ Header \notin DOMAIN begun
  BY HeaderAssumption DEF AllRanges
<1>6. m = OverwriteAll(c, pre)[Header]
  BY <1>4, <1>5
<1>7. \A r \in DOMAIN begun : r \in DOMAIN bs[k + 1]
  OBVIOUS
<1>8. /\ row[k + 1] \in 1 .. Len(journal)
      /\ s \in Nat /\ s < file[Header] /\ file[Header] \in Nat
  <2>1. row[k + 1] \in 1 .. Len(journal)
    BY <1>1, <1>2 DEF ComesFrom
  <2>2. s \in Nat /\ file[Header] \in Nat
    BY <2>1, StreamTyped, <1>5 DEF ReplicationTypeOK, Container
  <2> QED BY <2>1, <2>2 DEF StreamOK, EntriesOK
<1>9. m \in Nat /\ m <= s
  <2> HIDE DEF m, s
  <2>1. m = OverwriteAll(c, SubSeq(bs, 1, k))[Header]
    BY <1>6
  <2> QED BY <2>1, <1>1, <1>2, PatchHeader DEF s
<1> HIDE DEF pre, begun, part, m, s
<1>10. m < file[Header] /\ m <= file[Header]
  BY <1>8, <1>9
<1>11. ASSUME NEW r \in Differing(part), r \notin Logged, r \notin forgotten
       PROVE  r \in JournalledSince(m)
  <2>1. r \in AllRanges /\ part[r] # file[r]
    BY <1>11 DEF Differing
  <2>2. CASE \E l \in k + 1 .. Len(bs) : r \in DOMAIN bs[l]
    <3>1. PICK l \in k + 1 .. Len(bs) : r \in DOMAIN bs[l]
      BY <2>2
    <3>2. l \in 1 .. Len(bs) /\ (l = k + 1 \/ k + 1 < l)
      BY <1>2, <3>1
    <3>3. /\ row[l] \in 1 .. Len(journal) /\ col[l] \in 1 .. Len(journal[row[l]].batches)
          /\ bs[l] = journal[row[l]].batches[col[l]]
      BY <1>1, <3>2 DEF ComesFrom
    <3>4. row[k + 1] <= row[l]
      <4>1. row[l] \in Nat /\ row[k + 1] \in Nat
        BY <1>2, <3>2
      <4>2. CASE l = k + 1
        BY <4>1, <4>2
      <4>3. CASE k + 1 < l
        <5>1. row[k + 1] < row[l] \/ row[k + 1] = row[l]
          BY <4>3, <1>1, <1>2, <3>2 DEF ComesFrom
        <5> QED BY <4>1, <5>1
      <4> QED BY <3>2, <4>2, <4>3
    <3>5. s <= journal[row[l]].seq /\ journal[row[l]].seq \in Nat
      <4>1. journal[row[l]].seq \in Nat
        BY <3>3, StreamTyped
      <4>2. row[k + 1] = row[l] \/ row[k + 1] < row[l]
        BY <3>3, <3>4, <1>8
      <4> QED BY <4>1, <4>2, <3>3, <1>8 DEF s, StreamOK, EntriesOK
    <3>6. Written(row[l], col[l], r) /\ journal[row[l]].seq >= m
      BY <3>1, <3>3, <3>5, <1>8, <1>9 DEF Written
    <3> QED BY <3>3, <3>6, <2>1 DEF JournalledSince
  <2>3. CASE ~ \E l \in k + 1 .. Len(bs) : r \in DOMAIN bs[l]
    <3>1. part[r] = OverwriteAll(c, pre)[r]
      <4>1. k + 1 \in k + 1 .. Len(bs)
        BY <1>2
      <4> QED BY <4>1, <2>1, <2>3, <1>4, <1>7
    <3>2. Writers(pre, r) = Writers(bs, r)
      <4>1. \A i \in 1 .. Len(bs) : i \in 1 .. k \/ i \in k + 1 .. Len(bs)
        BY <1>2
      <4>2. \A i \in 1 .. k : i \in 1 .. Len(bs)
        BY <1>2
      <4> QED BY <4>1, <4>2, <1>3, <2>3 DEF Writers
    <3>3. OverwriteAll(c, bs)[r] = OverwriteAll(c, pre)[r]
      <4>1. CASE Writers(bs, r) = {}
        BY <4>1, <3>2, <1>2, <1>3, <2>1, LastWriteWins
      <4>2. CASE Writers(bs, r) # {}
        <5> DEFINE l == Max(Writers(bs, r))
        <5>1. l \in Writers(bs, r) /\ \A i \in Writers(bs, r) : i <= l
          <6>1. Writers(bs, r) \in SUBSET (0 .. Len(bs))
            BY <1>2 DEF Writers
          <6> QED BY <6>1, <1>2, <4>2, MaxExists
        <5> HIDE DEF l
        <5>2. WritesLast(bs, l, r) /\ WritesLast(pre, l, r)
          BY <5>1, <3>2 DEF WritesLast
        <5>3. OverwriteAll(c, bs)[r] = bs[l][r]
          BY <5>2, <1>2, <2>1, LastWriteWins
        <5>4. OverwriteAll(c, pre)[r] = pre[l][r]
          BY <5>2, <1>3, <2>1, LastWriteWins
        <5>5. pre[l] = bs[l]
          BY <5>1, <3>2, <1>3 DEF Writers
        <5> QED BY <5>3, <5>4, <5>5
      <4> QED BY <4>1, <4>2
    <3>4. OverwriteAll(c, bs)[r] = file[r]
      BY <1>11, <2>1, PatchCompletes
    <3> QED BY <3>1, <3>3, <3>4, <2>1
  <2> QED BY <2>2, <2>3
<1>12. MayFollow(part)
  BY <1>10, <1>11, <1>8, <1>9 DEF MayFollow, m
<1> QED BY <1>12 DEF part

(* A patch that is applied as a whole.                                     *)
LEMMA WholeMayFollow ==
  ASSUME ReplicationTypeOK, StreamOK, NEW c \in Container, MayFollow(c), Covers(c[Header])
  PROVE  MayFollow(OverwriteAll(c, RangesSince(c[Header])))
<1> DEFINE n == c[Header]
           bs == RangesSince(n)
           whole == OverwriteAll(c, bs)
           m == whole[Header]
<1>1. PICK row, col \in [1 .. Len(bs) -> Nat] : ComesFrom(bs, n, row, col)
  BY RangesSinceFrom
<1>2. bs \in Seq(Batches) /\ Len(bs) \in Nat /\ Len(bs) \in 0 .. Len(bs)
      /\ SubSeq(bs, 1, Len(bs)) = bs
  <2>1. bs \in Seq(Batches)
    BY RangesSinceFrom
  <2> HIDE DEF bs
  <2> QED BY <2>1
<1>3. Differing(whole) \subseteq Logged \union forgotten
  BY PatchCompletes DEF Differing
<1>4. /\ m \in Nat /\ m <= file[Header]
      /\ Header \in Logged => m < file[Header] \/ (m = n /\ m = file[Header])
  <2>1. m = OverwriteAll(c, SubSeq(bs, 1, Len(bs)))[Header]
    BY <1>2
  <2> HIDE DEF m, n, bs
  <2> QED BY <2>1, <1>1, <1>2, PatchHeader DEF bs, n
<1>5. file[Header] \in Nat
  BY DEF ReplicationTypeOK, Container, AllRanges
<1>6. ASSUME m = file[Header] PROVE Differing(whole) \subseteq FailedRanges \union forgotten
  <2>1. CASE Header \notin Logged
    <3>1. Logged \subseteq FailedRanges
      <4> SUFFICES ASSUME NEW r \in Logged PROVE r \in FailedRanges
        OBVIOUS
      <4>1. PICK i : i \in 1 .. Len(log) /\ r \in DOMAIN log[i]
        BY DEF Logged, Writers
      <4>2. Header \notin DOMAIN log[i]
        BY <4>1, <2>1 DEF Logged, Writers, AllRanges
      <4> QED BY <4>1, <4>2 DEF FailedRanges, FailedBatches
    <3> QED BY <3>1, <1>3
  <2>2. CASE n = file[Header]
    <3>1. Len(bs) = 0
      <4> SUFFICES ASSUME Len(bs) # 0 PROVE FALSE
        OBVIOUS
      <4>1. 1 \in 1 .. Len(bs)
        BY <1>2
      <4>2. row[1] \in 1 .. Len(journal) /\ journal[row[1]].seq >= n
        BY <4>1, <1>1 DEF ComesFrom
      <4>3. journal[row[1]].seq < file[Header] /\ journal[row[1]].seq \in Nat
        BY <4>2, StreamTyped DEF StreamOK, EntriesOK
      <4> QED BY <4>2, <4>3, <2>2, <1>5
    <3>2. \A r : Writers(bs, r) = {}
      BY <3>1 DEF Writers
    <3>3. \A r \in AllRanges : whole[r] = c[r]
      <4> HIDE DEF bs
      <4> QED BY <3>2, <1>2, LastWriteWins
    <3>4. Differing(whole) = Differing(c)
      BY <3>3 DEF Differing
    <3> QED BY <3>4, <2>2 DEF MayFollow
  <2> QED BY <2>1, <2>2, <1>4, <1>5, <1>6
<1> HIDE DEF m, bs, n, whole
<1>7. MayFollow(whole)
  BY <1>3, <1>4, <1>6 DEF MayFollow, m
<1> QED BY <1>7 DEF whole, bs, n

LEMMA ContainerMayFollow ==
  ASSUME ReplicationTypeOK
  PROVE  MayFollow(file)
<1>1. Differing(file) = {} /\ file[Header] \in Nat
  BY DEF Differing, ReplicationTypeOK, Container, AllRanges
<1> QED BY <1>1 DEF MayFollow

LEMMA AnswerMayFollow ==
  ASSUME ReplicationTypeOK, StreamOK, NEW c \in Container, MayFollow(c)
  PROVE  \A d \in CopiesOf(c, AnswerTo(c[Header])) : MayFollow(d)
<1> DEFINE n == c[Header]
           a == AnswerTo(n)
           bs == RangesSince(n)
<1> SUFFICES ASSUME NEW d \in CopiesOf(c, a) PROVE MayFollow(d)
  OBVIOUS
<1>1. CASE Covers(n)
  <2>1. a.kind = "patch" /\ a.batches = bs
    BY <1>1 DEF AnswerTo
  <2> HIDE DEF a, bs
  <2>2. \/ d = c \/ d = OverwriteAll(c, bs)
        \/ \E k \in 0 .. Len(bs) - 1, R \in SUBSET Ranges : d = Partly(c, bs, k, R)
    BY <2>1 DEF CopiesOf
  <2>3. MayFollow(OverwriteAll(c, bs))
    BY <1>1, WholeMayFollow DEF bs
  <2>4. ASSUME NEW k \in 0 .. Len(bs) - 1, NEW R \in SUBSET Ranges
        PROVE  MayFollow(Partly(c, bs, k, R))
    BY <1>1, PartMayFollow DEF bs
  <2> QED BY <2>2, <2>3, <2>4
<1>2. CASE ~Covers(n)
  <2>1. a.kind = "full" /\ a.file = file
    BY <1>2 DEF AnswerTo
  <2> HIDE DEF a
  <2>2. d = c \/ d = file
    BY <2>1 DEF CopiesOf
  <2> QED BY <2>2, ContainerMayFollow
<1> QED BY <1>1, <1>2

LEMMA CopiesTyped ==
  ASSUME ReplicationTypeOK, NEW p \in Peers, NEW c \in CopiesOf(replica[p], answer[p])
  PROVE  c \in Container
<1>1. /\ replica[p] \in Container
      /\ answer[p].kind = "full" => answer[p].file \in Container
      /\ answer[p].kind = "patch" => answer[p].batches \in Seq(Batches)
  BY AnswerParts
<1>2. \/ c = replica[p]
      \/ answer[p].kind = "full" /\ c = answer[p].file
      \/ /\ answer[p].kind = "patch"
         /\ \/ c = OverwriteAll(replica[p], answer[p].batches)
            \/ \E k \in 0 .. Len(answer[p].batches) - 1, R \in SUBSET Ranges :
                 c = Partly(replica[p], answer[p].batches, k, R)
  BY DEF CopiesOf
<1> QED BY <1>1, <1>2, LastWriteWins, PartlyTyped

LEMMA StillMayFollow ==
  ASSUME UNCHANGED <<file, handleVars, sessionVars, forgotten>>, NEW c, MayFollow(c)
  PROVE  MayFollow(c)'
<1>1. UNCHANGED <<file, program, position, log, serving, journal, forgotten>>
  BY DEF handleVars, sessionVars
<1>2. /\ Logged' = Logged /\ FailedRanges' = FailedRanges
      /\ Differing(c)' = Differing(c) /\ JournalledSince(c[Header])' = JournalledSince(c[Header])
      /\ Covers(c[Header])' = Covers(c[Header])
  BY <1>1 DEF Logged, FailedRanges, FailedBatches, Differing, JournalledSince, Written, Covers
<1> QED BY <1>1, <1>2 DEF MayFollow

LEMMA PeerActionKeepsCopies ==
  ASSUME ReplicationTypeOK, StreamOK, CopiesOK, NEW p \in Peers, PeerAction(p)
  PROVE  CopiesOK'
<1>1. UNCHANGED <<file, handleVars, sessionVars, forgotten>>
  BY PeerActionsAreSteps DEF PeerStep
<1>2. \E c, a : /\ PeerStep(p, c, a)
                /\ \A d \in CopiesOf(c, a) : MayFollow(d)
  <2>1. \A c : CopiesOf(c, NoAnswer) = {c}
    BY DEF CopiesOf, NoAnswer
  <2>2. \A c \in CopiesOf(replica[p], answer[p]) : MayFollow(c)
    BY DEF CopiesOK
  <2>3. replica[p] \in CopiesOf(replica[p], answer[p]) /\ replica[p] \in Container
    BY AnswerParts DEF CopiesOf
  <2>4. CASE PeerStep(p, replica[p], AnswerTo(replica[p][Header]))
    <3>1. \A d \in CopiesOf(replica[p], AnswerTo(replica[p][Header])) : MayFollow(d)
      BY <2>2, <2>3, AnswerMayFollow
    <3> QED BY <2>4, <3>1
  <2>5. CASE PeerStep(p, replica[p], NoAnswer)
    BY <2>1, <2>2, <2>3, <2>5
  <2>6. CASE answer[p].kind = "full" /\ PeerStep(p, answer[p].file, NoAnswer)
    <3>1. answer[p].file \in CopiesOf(replica[p], answer[p])
      BY <2>6 DEF CopiesOf
    <3> QED BY <2>1, <2>2, <2>6, <3>1
  <2>7. CASE /\ answer[p].kind = "patch"
             /\ PeerStep(p, OverwriteAll(replica[p], answer[p].batches), NoAnswer)
    <3>1. OverwriteAll(replica[p], answer[p].batches) \in CopiesOf(replica[p], answer[p])
      BY <2>7 DEF CopiesOf
    <3> QED BY <2>1, <2>2, <2>7, <3>1
  <2>8. ASSUME answer[p].kind = "patch",
               NEW k \in 0 .. Len(answer[p].batches) - 1, NEW R \in SUBSET Ranges,
               PeerStep(p, Partly(replica[p], answer[p].batches, k, R), NoAnswer)
        PROVE  \E c, a : PeerStep(p, c, a) /\ \A d \in CopiesOf(c, a) : MayFollow(d)
    <3>1. Partly(replica[p], answer[p].batches, k, R) \in CopiesOf(replica[p], answer[p])
      BY <2>8 DEF CopiesOf
    <3> QED BY <2>1, <2>2, <2>8, <3>1
  <2> QED BY <2>4, <2>5, <2>6, <2>7, <2>8, PeerActionsAreSteps
<1>3. PICK c, a : PeerStep(p, c, a) /\ \A d \in CopiesOf(c, a) : MayFollow(d)
  BY <1>2
<1>4. ASSUME NEW q \in Peers, NEW d \in CopiesOf(replica'[q], answer'[q])
      PROVE  MayFollow(d)'
  <2>1. CASE q = p
    <3>1. replica'[q] = c /\ answer'[q] = a
      BY <1>3, <2>1 DEF PeerStep, ReplicationTypeOK
    <3> QED BY <3>1, <1>1, <1>3, <1>4, StillMayFollow
  <2>2. CASE q # p
    <3>1. replica'[q] = replica[q] /\ answer'[q] = answer[q]
      BY <1>3, <2>2 DEF PeerStep, ReplicationTypeOK
    <3>2. MayFollow(d)
      BY <3>1, <1>4 DEF CopiesOK
    <3> QED BY <3>2, <1>1, StillMayFollow
  <2> QED BY <2>1, <2>2
<1> QED BY <1>4 DEF CopiesOK

LEMMA CopiesKept ==
  ASSUME ReplicationTypeOK, StreamOK, CopiesOK,
         [ReplicationNext]_replicationVars
  PROVE  CopiesOK'
<1>1. CASE AdminStep
  <2>1. replica' = replica /\ answer' = answer
    <3>1. ASSUME NEW R \in SUBSET Ranges, AnyCall(R) PROVE UNCHANGED peerVars
      BY <3>1, CallsAreCallSteps DEF CallStep
    <3> QED BY <1>1, <3>1 DEF AdminStep, FreshJournal, peerVars
  <2>2. ASSUME NEW p \in Peers, NEW c \in CopiesOf(replica[p], answer[p])
        PROVE  MayFollow(c)'
    <3>1. c \in Container /\ MayFollow(c)
      BY <2>2, CopiesTyped DEF CopiesOK
    <3> QED BY <3>1, <1>1, AdminStepMayFollow
  <2> QED BY <2>1, <2>2 DEF CopiesOK
<1>2. CASE \E p \in Peers : PeerAction(p)
  BY <1>2, PeerActionKeepsCopies
<1>3. CASE UNCHANGED replicationVars
  <2>1. UNCHANGED <<file, handleVars, sessionVars, forgotten>> /\ replica' = replica /\ answer' = answer
    BY <1>3 DEF replicationVars, peerVars
  <2>2. ASSUME NEW p \in Peers, NEW c \in CopiesOf(replica[p], answer[p])
        PROVE  MayFollow(c)'
    BY <2>1, <2>2, StillMayFollow DEF CopiesOK
  <2> QED BY <2>1, <2>2 DEF CopiesOK
<1> QED BY <1>1, <1>2, <1>3, StepKinds DEF AdminStep

LEMMA CopiesInitially == ReplicationInit => CopiesOK
<1> SUFFICES ASSUME ReplicationInit, NEW p \in Peers, NEW c \in CopiesOf(replica[p], answer[p])
             PROVE  MayFollow(c)
  BY DEF CopiesOK
<1>1. c = NoReplica
  BY DEF ReplicationInit, CopiesOf, NoAnswer
<1>2. c[Header] = 0 /\ file[Header] = 1
  BY <1>1 DEF NoReplica, AllRanges, ReplicationInit
<1>3. ~Covers(c[Header])
  BY <1>2 DEF Covers
<1> QED BY <1>2, <1>3 DEF MayFollow

-------------------------------------------------------------------------------
(***************************************************************************)
(* The theorems.                                                           *)
(***************************************************************************)
LEMMA ReplicationInvariant ==
  ReplicationSpec => []ReplicationInv
<1>1. ReplicationInit => ReplicationInv
  BY TypesInitially, StreamInitially, CopiesInitially DEF ReplicationInv
<1>2. ReplicationInv /\ [ReplicationNext]_replicationVars => ReplicationInv'
  BY TypesKept, StreamKept, CopiesKept DEF ReplicationInv, StreamOK
<1> QED BY <1>1, <1>2, PTL DEF ReplicationSpec

(* What the answer leaves for the next recorded call to bring is in the    *)
(* log, except for what is forgotten.                                      *)
LEMMA SyncLeavesTheLog ==
  ASSUME ReplicationInv, NEW p \in Peers, NEW r \in AllRanges \ (Logged \union forgotten)
  PROVE  AfterSync(p)[r] = file[r]
<1>1. ReplicationTypeOK /\ StreamOK /\ replica[p] \in Container /\ MayFollow(replica[p])
  BY AnswerParts DEF ReplicationInv, CopiesOK, CopiesOf
<1> DEFINE n == replica[p][Header]
<1>2. CASE Covers(n)
  <2>1. AfterSync(p) = OverwriteAll(replica[p], RangesSince(n))
    BY <1>2 DEF AfterSync, AnswerTo
  <2> QED BY <2>1, <1>1, <1>2, PatchCompletes
<1>3. CASE ~Covers(n)
  BY <1>3 DEF AfterSync, AnswerTo
<1> QED BY <1>2, <1>3

(* Any answer of the serve console makes the replica a copy of the         *)
(* container, up to bytes of failed calls that are in the log or were lost *)
(* with the log of an earlier handle: whatever the peer has missed, lost   *)
(* or applied in part, and whenever the console was restarted.             *)
THEOREM SyncAlwaysCatchesUp == ReplicationSpec => []SyncCatchesUp
<1>1. ReplicationInv => SyncCatchesUp
  <2> SUFFICES ASSUME ReplicationInv, serving, program = "console",
                      NEW p \in Peers, NEW r \in AllRanges \ (FailedRanges \union forgotten)
               PROVE  AfterSync(p)[r] = file[r]
    BY DEF SyncCatchesUp
  <2>1. ReplicationTypeOK /\ StreamOK
    BY DEF ReplicationInv
  <2>2. CASE journal = <<>>
    BY <2>2 DEF AfterSync, AnswerTo, Covers
  <2>3. CASE journal # <<>>
    <3>1. Header \notin Logged
      BY <2>1, <2>3 DEF StreamOK, DrainedOK
    <3>2. r \notin Logged
      <4> SUFFICES ASSUME r \in Logged PROVE FALSE
        OBVIOUS
      <4>1. PICK i : i \in 1 .. Len(log) /\ r \in DOMAIN log[i]
        BY DEF Logged, Writers
      <4>2. Header \notin DOMAIN log[i]
        BY <4>1, <3>1 DEF Logged, Writers, AllRanges
      <4> QED BY <4>1, <4>2 DEF FailedRanges, FailedBatches
    <3> QED BY <3>2, SyncLeavesTheLog
  <2> QED BY <2>2, <2>3
<1> QED BY <1>1, ReplicationInvariant, PTL

(* In the console and in the terminal interface alike, what an answer      *)
(* leaves out is in the log, from which the next recorded call takes it,   *)
(* unless a failed call wrote it under a handle that has ended.            *)
THEOREM NextRecordAlwaysCatchesUp == ReplicationSpec => []NextRecordCatchesUp
<1>1. ReplicationInv => NextRecordCatchesUp
  <2> SUFFICES ASSUME ReplicationInv, NEW p \in Peers, NEW r \in AllRanges \ forgotten
               PROVE  OverwriteAll(AfterSync(p), log)[r] = file[r]
    BY DEF NextRecordCatchesUp
  <2>1. ReplicationTypeOK /\ ValuesOK /\ log \in Seq(Batches) /\ Len(log) \in Nat
    BY StreamTyped DEF ReplicationInv, StreamOK
  <2> DEFINE c == AfterSync(p)
  <2>2. c \in Container
    <3>1. replica[p] \in Container /\ RangesSince(replica[p][Header]) \in Seq(Batches)
      BY <2>1, AnswerParts, RangesSinceFrom
    <3>2. OverwriteAll(replica[p], RangesSince(replica[p][Header])) \in Container
      BY <3>1, LastWriteWins
    <3> QED BY <2>1, <3>2 DEF AfterSync, AnswerTo, ReplicationTypeOK
  <2> HIDE DEF c
  <2>3. CASE r \notin Logged
    <3>1. Writers(log, r) = {}
      BY <2>3 DEF Logged
    <3>2. c[r] = file[r]
      BY <2>3, SyncLeavesTheLog DEF c
    <3>3. OverwriteAll(c, log)[r] = file[r]
      BY <3>1, <3>2, <2>1, <2>2, LastWriteWins
    <3> QED BY <3>3 DEF c
  <2>4. CASE r \in Logged
    <3> DEFINE i == Max(Writers(log, r))
    <3>1. i \in Writers(log, r) /\ \A j \in Writers(log, r) : j <= i
      <4>1. Writers(log, r) \in SUBSET (0 .. Len(log)) /\ Writers(log, r) # {}
        BY <2>1, <2>4 DEF Writers, Logged
      <4> QED BY <4>1, <2>1, MaxExists
    <3> HIDE DEF i
    <3>2. WritesLast(log, i, r) /\ i \in 1 .. Len(log)
      BY <3>1 DEF WritesLast, Writers
    <3>3. log[i][r] = file[r]
      BY <3>2, <2>1 DEF ValuesOK
    <3>4. OverwriteAll(c, log)[r] = file[r]
      BY <3>2, <3>3, <2>1, <2>2, LastWriteWins
    <3> QED BY <3>4 DEF c
  <2> QED BY <2>3, <2>4
<1> QED BY <1>1, ReplicationInvariant, PTL

===============================================================================
