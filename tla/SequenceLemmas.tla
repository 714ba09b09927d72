----------------------------- MODULE SequenceLemmas -----------------------------
(***************************************************************************)
(* Induction over the natural numbers in a form that the provers can use   *)
(* -- the statement is about a set and not about a predicate -- and what   *)
(* it shows about the recursive functions behind the operators of the      *)
(* community modules that the models are built from.                       *)
(***************************************************************************)
EXTENDS Integers, Sequences, SequencesExt, WellFoundedInduction, FiniteSetTheorems, TLAPS

(* A set that contains 0 and the successor of each natural number in it    *)
(* contains them all: the least number outside would have a predecessor.   *)
LEMMA SetInduction ==
  ASSUME NEW S, 0 \in S, \A n \in Nat : n \in S => n + 1 \in S
  PROVE  Nat \subseteq S
<1> DEFINE T == {n \in Nat : n \notin S}
           R == OpToRel(<, Nat)
<1> SUFFICES ASSUME T # {} PROVE FALSE
  OBVIOUS
<1>1. \A x, y \in Nat : x < y => <<x, y>> \in R
  BY DEF OpToRel
<1>2. PICK n \in T : \A m \in T : ~ (<<m, n>> \in R)
  <2>1. IsWellFoundedOn(R, Nat)
    BY NatLessThanWellFounded
  <2>2. T \subseteq Nat
    OBVIOUS
  <2> HIDE DEF T, R
  <2> QED BY <2>1, <2>2, WFMin
<1>3. n # 0 /\ n - 1 \in Nat
  OBVIOUS
<1>4. n - 1 \in T
  BY <1>3
<1>5. n \in Nat /\ n - 1 < n
  OBVIOUS
<1> HIDE DEF T, R
<1> QED BY <1>1, <1>2, <1>3, <1>4, <1>5

(***************************************************************************)
(* FlattenSeq.  Flattens says of F that it is what the first m sequences   *)
(* of ss make in a row: element k of F is element col[k] of sequence       *)
(* row[k], in the order of rows and columns and without a gap.             *)
(***************************************************************************)
Flattens(F, ss, m, row, col) ==
  /\ \A k \in 1 .. Len(F) :
       /\ row[k] \in 1 .. m
       /\ col[k] \in 1 .. Len(ss[row[k]])
       /\ F[k] = ss[row[k]][col[k]]
  /\ \A k, l \in 1 .. Len(F) :
       k < l => row[k] < row[l] \/ (row[k] = row[l] /\ col[k] < col[l])
  /\ \A i \in 1 .. m : \A j \in 1 .. Len(ss[i]) :
       \E k \in 1 .. Len(F) : row[k] = i /\ col[k] = j

IsFlattened(F, ss, m) ==
  \E row, col \in [1 .. Len(F) -> Nat] : Flattens(F, ss, m, row, col)

(* The recursive function behind FlattenSeq, for the first m sequences.    *)
FlattensUpto(f, ss, m) ==
  f = [i \in 1 .. m |-> IF i = 1 THEN ss[i] ELSE f[i - 1] \o ss[i]]

LEMMA FlattenExists ==
  ASSUME NEW ss, Len(ss) \in Nat
  PROVE  \E f : FlattensUpto(f, ss, Len(ss))
<1> DEFINE S == {m \in Nat : m <= Len(ss) => \E f : FlattensUpto(f, ss, m)}
<1>1. 0 \in S
  <2> DEFINE g == [i \in 1 .. 0 |-> {}]
  <2>1. FlattensUpto(g, ss, 0)
    BY DEF FlattensUpto
  <2> QED BY <2>1
<1>2. \A m \in Nat : m \in S => m + 1 \in S
  <2> SUFFICES ASSUME NEW m \in Nat, m \in S, m + 1 <= Len(ss)
               PROVE  \E g : FlattensUpto(g, ss, m + 1)
    OBVIOUS
  <2>1. PICK f : FlattensUpto(f, ss, m)
    OBVIOUS
  <2> DEFINE g == [i \in 1 .. m + 1 |->
                     IF i <= m THEN f[i] ELSE IF i = 1 THEN ss[i] ELSE f[m] \o ss[i]]
  <2>2. \A i \in 1 .. m + 1 : g[i] = IF i = 1 THEN ss[i] ELSE g[i - 1] \o ss[i]
    <3> TAKE i \in 1 .. m + 1
    <3>1. CASE i <= m
      <4>1. g[i] = f[i] /\ i \in 1 .. m
        BY <3>1
      <4>2. i # 1 => i - 1 \in 1 .. m + 1 /\ i - 1 <= m /\ g[i - 1] = f[i - 1]
        BY <3>1
      <4>3. f[i] = IF i = 1 THEN ss[i] ELSE f[i - 1] \o ss[i]
        BY <2>1, <4>1 DEF FlattensUpto
      <4> HIDE DEF g
      <4> QED BY <4>1, <4>2, <4>3
    <3>2. CASE i = m + 1
      <4>1. i # 1 => i - 1 = m /\ g[m] = f[m]
        BY <3>2
      <4>2. g[i] = IF i = 1 THEN ss[i] ELSE f[m] \o ss[i]
        BY <3>2
      <4> HIDE DEF g
      <4> QED BY <4>1, <4>2
    <3> QED BY <3>1, <3>2
  <2>3. DOMAIN g = 1 .. m + 1 /\ g = [i \in 1 .. m + 1 |-> g[i]]
    OBVIOUS
  <2>4. FlattensUpto(g, ss, m + 1)
    <3> HIDE DEF g
    <3> QED BY <2>2, <2>3 DEF FlattensUpto
  <2> HIDE DEF g
  <2> QED BY <2>4
<1>3. Len(ss) \in S
  <2> HIDE DEF S
  <2> QED BY <1>1, <1>2, SetInduction
<1> QED BY <1>3

LEMMA FlattenSeqUnfolds ==
  ASSUME NEW ss, Len(ss) \in Nat, Len(ss) # 0
  PROVE  \E f : FlattensUpto(f, ss, Len(ss)) /\ FlattenSeq(ss) = f[Len(ss)]
<1> DEFINE f == CHOOSE f : f = [i \in 1 .. Len(ss) |->
                                  IF i = 1 THEN ss[i] ELSE f[i - 1] \o ss[i]]
<1>1. FlattensUpto(f, ss, Len(ss))
  BY FlattenExists DEF FlattensUpto
<1>2. FlattenSeq(ss) = f[Len(ss)]
  BY DEF FlattenSeq
<1> QED BY <1>1, <1>2

(* One more sequence at the end.                                           *)
LEMMA FlattenedGrows ==
  ASSUME NEW T, NEW ss, NEW m \in Nat, ss[m + 1] \in Seq(T),
         NEW F \in Seq(T), IsFlattened(F, ss, m)
  PROVE  IsFlattened(F \o ss[m + 1], ss, m + 1)
<1> DEFINE G == F \o ss[m + 1]
           n == Len(F)
<1>1. PICK row, col \in [1 .. n -> Nat] : Flattens(F, ss, m, row, col)
  BY DEF IsFlattened
<1> DEFINE row2 == [k \in 1 .. Len(G) |-> IF k <= n THEN row[k] ELSE m + 1]
           col2 == [k \in 1 .. Len(G) |-> IF k <= n THEN col[k] ELSE k - n]
<1>2. n \in Nat /\ Len(ss[m + 1]) \in Nat /\ Len(G) = n + Len(ss[m + 1])
  OBVIOUS
<1>3. \A k \in 1 .. Len(G) :
        \/ k \in 1 .. n /\ G[k] = F[k] /\ row2[k] = row[k] /\ col2[k] = col[k]
        \/ /\ k - n \in 1 .. Len(ss[m + 1]) /\ G[k] = ss[m + 1][k - n]
           /\ row2[k] = m + 1 /\ col2[k] = k - n
  OBVIOUS
<1>4. row2 \in [1 .. Len(G) -> Nat] /\ col2 \in [1 .. Len(G) -> Nat]
  BY <1>2
<1>5. \A k \in 1 .. n : k \in 1 .. Len(G) /\ row2[k] = row[k] /\ col2[k] = col[k]
  BY <1>2
<1>6. \A j \in 1 .. Len(ss[m + 1]) :
        n + j \in 1 .. Len(G) /\ row2[n + j] = m + 1 /\ col2[n + j] = j
  BY <1>2
<1> HIDE DEF G, n, row2, col2
<1>7. ASSUME NEW k \in 1 .. Len(G)
      PROVE  /\ row2[k] \in 1 .. m + 1
             /\ col2[k] \in 1 .. Len(ss[row2[k]])
             /\ G[k] = ss[row2[k]][col2[k]]
  <2>1. CASE k \in 1 .. n /\ G[k] = F[k] /\ row2[k] = row[k] /\ col2[k] = col[k]
    <3>1. row[k] \in 1 .. m /\ col[k] \in 1 .. Len(ss[row[k]]) /\ F[k] = ss[row[k]][col[k]]
      BY <2>1, <1>1 DEF Flattens, n
    <3> QED BY <3>1, <2>1
  <2>2. CASE /\ k - n \in 1 .. Len(ss[m + 1]) /\ G[k] = ss[m + 1][k - n]
             /\ row2[k] = m + 1 /\ col2[k] = k - n
    BY <2>2
  <2> QED BY <1>3, <2>1, <2>2
<1>8. ASSUME NEW k \in 1 .. Len(G), NEW l \in 1 .. Len(G), k < l
      PROVE  row2[k] < row2[l] \/ (row2[k] = row2[l] /\ col2[k] < col2[l])
  <2>1. CASE l \in 1 .. n /\ row2[l] = row[l] /\ col2[l] = col[l]
    <3>1. k \in 1 .. n /\ row2[k] = row[k] /\ col2[k] = col[k]
      BY <2>1, <1>2, <1>5, <1>8
    <3> QED BY <3>1, <2>1, <1>1, <1>8 DEF Flattens, n
  <2>2. CASE row2[l] = m + 1 /\ col2[l] = l - n
    <3>1. CASE k \in 1 .. n /\ row2[k] = row[k]
      <4>1. row[k] \in 1 .. m
        BY <3>1, <1>1 DEF Flattens, n
      <4> QED BY <4>1, <3>1, <2>2
    <3>2. CASE row2[k] = m + 1 /\ col2[k] = k - n
      BY <3>2, <2>2, <1>2, <1>8
    <3> QED BY <1>3, <3>1, <3>2
  <2> QED BY <1>3, <2>1, <2>2
<1>9. ASSUME NEW i \in 1 .. m + 1, NEW j \in 1 .. Len(ss[i])
      PROVE  \E k \in 1 .. Len(G) : row2[k] = i /\ col2[k] = j
  <2>1. CASE i \in 1 .. m
    <3>1. PICK k \in 1 .. n : row[k] = i /\ col[k] = j
      BY <2>1, <1>1, <1>9 DEF Flattens, n
    <3> QED BY <3>1, <1>5
  <2>2. CASE i = m + 1
    BY <2>2, <1>6, <1>9
  <2> QED BY <2>1, <2>2
<1>10. Flattens(G, ss, m + 1, row2, col2)
  BY <1>7, <1>8, <1>9 DEF Flattens
<1> QED BY <1>4, <1>10 DEF IsFlattened, G

(* What FlattenSeq computes: its arguments' elements, in their order.      *)
LEMMA FlattenSeqFlattens ==
  ASSUME NEW T, NEW ss \in Seq(Seq(T))
  PROVE  FlattenSeq(ss) \in Seq(T) /\ IsFlattened(FlattenSeq(ss), ss, Len(ss))
<1>1. Len(ss) \in Nat /\ \A i \in 1 .. Len(ss) : ss[i] \in Seq(T)
  OBVIOUS
<1>2. CASE Len(ss) = 0
  <2>1. ss = << >>
    BY <1>2
  <2>2. FlattenSeq(ss) = << >>
    BY <1>2, <2>1 DEF FlattenSeq
  <2> DEFINE e == [k \in 1 .. 0 |-> 0]
  <2>3. e \in [1 .. 0 -> Nat] /\ Flattens(<< >>, ss, 0, e, e)
    BY DEF Flattens
  <2>4. IsFlattened(<< >>, ss, 0)
    BY <2>3 DEF IsFlattened
  <2> QED BY <2>2, <2>4, <1>2
<1>3. CASE Len(ss) # 0
  <2>1. PICK f : FlattensUpto(f, ss, Len(ss)) /\ FlattenSeq(ss) = f[Len(ss)]
    BY <1>1, <1>3, FlattenSeqUnfolds
  <2>2. \A i \in 1 .. Len(ss) : f[i] = IF i = 1 THEN ss[i] ELSE f[i - 1] \o ss[i]
    BY <2>1 DEF FlattensUpto
  <2> DEFINE S == {m \in Nat : m + 1 <= Len(ss) =>
                     f[m + 1] \in Seq(T) /\ IsFlattened(f[m + 1], ss, m + 1)}
  <2>3. 0 \in S
    <3>1. f[1] = ss[1] /\ ss[1] \in Seq(T)
      BY <1>1, <1>3, <2>2
    <3> DEFINE e == [k \in 1 .. 0 |-> 0]
    <3>2. Flattens(<< >>, ss, 0, e, e) /\ e \in [1 .. Len(<< >>) -> Nat]
      BY DEF Flattens
    <3>3. IsFlattened(<< >>, ss, 0)
      BY <3>2 DEF IsFlattened
    <3>4. IsFlattened(<< >> \o ss[1], ss, 1)
      <4>1. 0 \in Nat /\ 0 + 1 = 1 /\ << >> \in Seq(T)
        OBVIOUS
      <4>2. ss[0 + 1] \in Seq(T)
        BY <3>1
      <4>3. IsFlattened(<< >> \o ss[0 + 1], ss, 0 + 1)
        BY <3>3, <4>1, <4>2, FlattenedGrows
      <4> QED BY <4>1, <4>3
    <3>5. << >> \o ss[1] = ss[1]
      BY <3>1
    <3> QED BY <3>1, <3>4, <3>5
  <2>4. \A m \in Nat : m \in S => m + 1 \in S
    <3> SUFFICES ASSUME NEW m \in Nat, m \in S, m + 2 <= Len(ss)
                 PROVE  f[m + 2] \in Seq(T) /\ IsFlattened(f[m + 2], ss, m + 2)
      BY <1>1
    <3>1. f[m + 1] \in Seq(T) /\ IsFlattened(f[m + 1], ss, m + 1)
      BY <1>1
    <3>2. m + 2 \in 1 .. Len(ss) /\ m + 2 # 1 /\ (m + 2) - 1 = m + 1
      BY <1>1
    <3>3. f[m + 2] = f[m + 1] \o ss[m + 2] /\ ss[m + 2] \in Seq(T)
      BY <3>2, <2>2, <1>1
    <3>4. m + 1 \in Nat /\ (m + 1) + 1 = m + 2
      OBVIOUS
    <3>5. IsFlattened(f[m + 1] \o ss[m + 2], ss, m + 2)
      BY <3>1, <3>3, <3>4, FlattenedGrows
    <3> QED BY <3>1, <3>3, <3>5
  <2>5. Len(ss) - 1 \in S
    <3>1. Len(ss) - 1 \in Nat
      BY <1>1, <1>3
    <3> HIDE DEF S
    <3> QED BY <2>3, <2>4, <3>1, SetInduction
  <2> QED BY <2>5, <2>1, <1>1, <1>3
<1> QED BY <1>2, <1>3

(* What is in the sequence that many make in a row.                        *)
LEMMA FlattenedSet ==
  ASSUME NEW T, NEW ss \in Seq(Seq(T))
  PROVE  ToSet(FlattenSeq(ss)) = UNION {ToSet(ss[i]) : i \in 1 .. Len(ss)}
<1> DEFINE flat == FlattenSeq(ss)
<1>1. flat \in Seq(T) /\ IsFlattened(flat, ss, Len(ss))
  BY FlattenSeqFlattens
<1> HIDE DEF flat
<1>2. PICK row, col \in [1 .. Len(flat) -> Nat] : Flattens(flat, ss, Len(ss), row, col)
  BY <1>1 DEF IsFlattened
<1>3. /\ \A k \in 1 .. Len(flat) : /\ row[k] \in 1 .. Len(ss) /\ col[k] \in 1 .. Len(ss[row[k]])
                                /\ flat[k] = ss[row[k]][col[k]]
      /\ \A i \in 1 .. Len(ss) : \A j \in 1 .. Len(ss[i]) :
           \E k \in 1 .. Len(flat) : row[k] = i /\ col[k] = j
  BY <1>2 DEF Flattens
<1>4. ASSUME NEW x \in ToSet(flat) PROVE \E i \in 1 .. Len(ss) : x \in ToSet(ss[i])
  <2>1. PICK k \in 1 .. Len(flat) : x = flat[k]
    BY DEF ToSet
  <2> DEFINE i == row[k]
  <2>2. i \in 1 .. Len(ss) /\ col[k] \in 1 .. Len(ss[i]) /\ x = ss[i][col[k]]
    BY <1>3, <2>1
  <2> HIDE DEF i
  <2>3. x \in ToSet(ss[i])
    BY <2>2 DEF ToSet
  <2> QED BY <2>2, <2>3
<1>5. ASSUME NEW i \in 1 .. Len(ss), NEW x \in ToSet(ss[i]) PROVE x \in ToSet(flat)
  <2>1. PICK j \in 1 .. Len(ss[i]) : x = ss[i][j]
    <3> DEFINE s == ss[i]
    <3>1. s \in Seq(T)
      OBVIOUS
    <3> HIDE DEF s
    <3>2. \A y \in ToSet(s) : \E j \in 1 .. Len(s) : y = s[j]
      BY <3>1 DEF ToSet
    <3> QED BY <3>2 DEF s
  <2>2. PICK k \in 1 .. Len(flat) : row[k] = i /\ col[k] = j
    BY <1>3
  <2>3. flat[k] = ss[row[k]][col[k]]
    BY <1>3
  <2>4. flat[k] = x
    BY <2>1, <2>2, <2>3
  <2> QED BY <2>4 DEF ToSet
<1>6. ToSet(flat) = UNION {ToSet(ss[i]) : i \in 1 .. Len(ss)}
  BY <1>4, <1>5
<1> QED BY <1>6 DEF flat

(* A bounded set of natural numbers has a greatest element.                *)
LEMMA MaxExists ==
  ASSUME NEW n \in Nat, NEW S \in SUBSET (0 .. n), S # {}
  PROVE  Max(S) \in S /\ \A x \in S : x <= Max(S)
<1> DEFINE HasMax == \E m \in S : \A x \in S : m >= x
           U == {k \in Nat : (\E x \in S : x >= n - k) => HasMax}
<1>1. 0 \in U
  <2> SUFFICES ASSUME NEW x \in S, x >= n PROVE HasMax
    OBVIOUS
  <2> QED OBVIOUS
<1>2. \A k \in Nat : k \in U => k + 1 \in U
  <2> SUFFICES ASSUME NEW k \in Nat, k \in U, NEW x \in S, x >= n - (k + 1)
               PROVE  HasMax
    OBVIOUS
  <2>1. CASE \E y \in S : y >= n - k
    BY <2>1
  <2>2. CASE \A y \in S : ~ (y >= n - k)
    <3>1. \A y \in S : x >= y
      BY <2>2
    <3> QED BY <3>1
  <2> QED BY <2>1, <2>2
<1>3. n \in U
  <2> HIDE DEF U
  <2> QED BY <1>1, <1>2, SetInduction
<1>4. PICK x \in S : x >= n - n
  <2>1. PICK x \in S : TRUE
    OBVIOUS
  <2>2. x \in 0 .. n /\ n - n = 0
    OBVIOUS
  <2> QED BY <2>1, <2>2
<1>5. HasMax
  BY <1>3, <1>4
<1> QED BY <1>5 DEF Max

LEMMA MaxIs ==
  ASSUME NEW S \in SUBSET Int, NEW m \in S, \A x \in S : x <= m
  PROVE  Max(S) = m
<1>1. Max(S) \in S /\ \A x \in S : Max(S) >= x
  BY DEF Max
<1>2. Max(S) \in Int /\ m \in Int /\ Max(S) >= m /\ Max(S) <= m
  BY <1>1
<1> QED BY <1>2

LEMMA MinExists ==
  ASSUME NEW S \in SUBSET Nat, S # {}
  PROVE  Min(S) \in S /\ \A x \in S : Min(S) <= x
<1> DEFINE HasMin == \E m \in S : \A x \in S : m <= x
           U == {k \in Nat : (\E x \in S : x <= k) => HasMin}
<1>1. 0 \in U
  OBVIOUS
<1>2. \A k \in Nat : k \in U => k + 1 \in U
  <2> SUFFICES ASSUME NEW k \in Nat, k \in U, NEW x \in S, x <= k + 1
               PROVE  HasMin
    OBVIOUS
  <2>1. CASE \E y \in S : y <= k
    BY <2>1
  <2>2. CASE \A y \in S : ~ (y <= k)
    <3>1. \A y \in S : x <= y
      BY <2>2
    <3> QED BY <3>1
  <2> QED BY <2>1, <2>2
<1>3. PICK x \in S : x \in Nat
  OBVIOUS
<1>4. x \in U
  <2> HIDE DEF U
  <2> QED BY <1>1, <1>2, <1>3, SetInduction
<1>5. HasMin
  BY <1>3, <1>4
<1> QED BY <1>5 DEF Min


-------------------------------------------------------------------------------
(***************************************************************************)
(* The numbers of a finite set in ascending order.  The rank of a number   *)
(* is how many numbers of the set are below it.                            *)
(***************************************************************************)
Below(S, m) == {c \in S : c < m}
Ranked(S) == [k \in 1 .. Cardinality(S) |->
                CHOOSE b \in S : Cardinality({c \in S : c < b}) = k - 1]

(* The rank grows along the set, and stays below its size.                 *)
LEMMA RankGrows ==
  ASSUME NEW S \in SUBSET Int, IsFiniteSet(S)
  PROVE  /\ \A m \in Int : IsFiniteSet(Below(S, m)) /\ Cardinality(Below(S, m)) \in Nat
         /\ \A a \in S : \A b \in Int :
              a < b => Cardinality(Below(S, a)) < Cardinality(Below(S, b))
         /\ \A a \in S : Cardinality(Below(S, a)) < Cardinality(S)
<1>1. ASSUME NEW T \in SUBSET S
      PROVE  IsFiniteSet(T) /\ Cardinality(T) \in Nat
  <2>1. IsFiniteSet(T)
    BY FS_Subset
  <2> QED BY <2>1, FS_CardinalityType
<1>2. ASSUME NEW a \in S, NEW T \in SUBSET S, a \in T, Below(S, a) \subseteq T
      PROVE  Cardinality(Below(S, a)) < Cardinality(T)
  <2>1. IsFiniteSet(T) /\ Cardinality(T) \in Nat
    BY <1>1
  <2>2. a \notin Below(S, a) /\ Below(S, a) \in SUBSET T
    BY <1>2 DEF Below
  <2>3. Cardinality(Below(S, a)) \in Nat
    BY <1>1 DEF Below
  <2>4. /\ Cardinality(Below(S, a)) <= Cardinality(T)
        /\ Cardinality(T) = Cardinality(Below(S, a)) => T = Below(S, a)
    BY <2>1, <2>2, FS_Subset
  <2> QED BY <2>1, <2>2, <2>3, <2>4, <1>2
<1>3. \A m \in Int : Below(S, m) \in SUBSET S
  BY DEF Below
<1>6. \A c \in S : c \in Int
  OBVIOUS
<1>4. ASSUME NEW a \in S, NEW b \in Int, a < b
      PROVE  Cardinality(Below(S, a)) < Cardinality(Below(S, b))
  <2>1. a \in Below(S, b)
    BY <1>4 DEF Below
  <2>2. ASSUME NEW c \in Below(S, a) PROVE c \in Below(S, b)
    BY <1>4, <1>6 DEF Below
  <2>3. Below(S, a) \subseteq Below(S, b)
    BY <2>2
  <2> QED BY <1>2, <1>3, <2>1, <2>3
<1>5. ASSUME NEW a \in S PROVE Cardinality(Below(S, a)) < Cardinality(S)
  <2>1. Below(S, a) \subseteq S
    BY DEF Below
  <2> QED BY <1>2, <2>1
<1> QED BY <1>1, <1>3, <1>4, <1>5

(* Every rank below the size of the set is taken.                          *)
LEMMA RankReached ==
  ASSUME NEW n \in Nat, NEW S \in SUBSET (0 .. n - 1), IsFiniteSet(S),
         NEW k \in 0 .. Cardinality(S) - 1
  PROVE  \E b \in S : Cardinality(Below(S, b)) = k
<1> DEFINE C(m) == Cardinality(Below(S, m))
           U == {m \in Nat : \A j \in 0 .. C(m) - 1 : \E b \in Below(S, m) : C(b) = j}
<1>1. S \in SUBSET Int /\ \A c \in S : c \in Int /\ 0 <= c /\ c < n
  OBVIOUS
<1>2. \A m \in Int : IsFiniteSet(Below(S, m)) /\ Cardinality(Below(S, m)) \in Nat
  BY <1>1, RankGrows
<1>3. 0 \in U
  <2>3. \A c \in S : ~ (c < 0)
    BY <1>1
  <2>1. Below(S, 0) = {}
    BY <2>3 DEF Below
  <2>2. C(0) = 0
    BY <2>1, FS_EmptySet
  <2> QED BY <2>2
<1>4. \A m \in Nat : m \in U => m + 1 \in U
  <2> SUFFICES ASSUME NEW m \in Nat, m \in U PROVE m + 1 \in U
    OBVIOUS
  <2>1. CASE m \notin S
    <3>1. \A c \in S : c < m + 1 <=> c < m
      BY <2>1, <1>1
    <3>2. Below(S, m + 1) = Below(S, m)
      BY <3>1 DEF Below
    <3> QED BY <3>2
  <2>2. CASE m \in S
    <3>5. /\ \A c \in S : c < m + 1 <=> (c < m \/ c = m)
          /\ ~ (m < m)
      BY <1>1
    <3>1. Below(S, m + 1) = Below(S, m) \cup {m} /\ m \notin Below(S, m)
      BY <2>2, <3>5 DEF Below
    <3>2. IsFiniteSet(Below(S, m)) /\ C(m) \in Nat
      BY <1>2
    <3>3. C(m + 1) = C(m) + 1
      BY <3>1, <3>2, FS_AddElement
    <3>4. ASSUME NEW j \in 0 .. C(m + 1) - 1
          PROVE  \E b \in Below(S, m + 1) : C(b) = j
      <4>1. CASE j = C(m)
        BY <3>1, <4>1
      <4>2. CASE j \in 0 .. C(m) - 1
        <5>1. PICK b \in Below(S, m) : C(b) = j
          BY <4>2
        <5> QED BY <5>1, <3>1
      <4> HIDE DEF C
      <4> QED BY <3>2, <3>3, <4>1, <4>2
    <3> QED BY <3>4
  <2> QED BY <2>1, <2>2
<1>5. n \in U
  <2> HIDE DEF U
  <2> QED BY <1>3, <1>4, SetInduction
<1>6. Below(S, n) = S
  BY <1>1 DEF Below
<1>7. \E b \in Below(S, n) : C(b) = k
  BY <1>5, <1>6
<1> QED BY <1>6, <1>7

(* What Ranked(S) is: all numbers of S, each once, in ascending order.     *)
LEMMA RankedAscends ==
  ASSUME NEW n \in Nat, NEW S \in SUBSET (0 .. n - 1)
  PROVE  /\ IsFiniteSet(S) /\ Cardinality(S) \in Nat
         /\ Ranked(S) \in Seq(S) /\ Len(Ranked(S)) = Cardinality(S)
         /\ \A k, l \in 1 .. Len(Ranked(S)) : k < l => Ranked(S)[k] < Ranked(S)[l]
         /\ \A b \in S : \E k \in 1 .. Len(Ranked(S)) : Ranked(S)[k] = b
<1>1. IsFiniteSet(S) /\ Cardinality(S) \in Nat
  <2>1. IsFiniteSet(0 .. n - 1)
    BY FS_Interval
  <2>2. IsFiniteSet(S)
    BY <2>1, FS_Subset
  <2> QED BY <2>2, FS_CardinalityType
<1> DEFINE C(b) == Cardinality(Below(S, b))
           r == Ranked(S)
           N == Cardinality(S)
<1>2. S \in SUBSET Int /\ \A c \in S : c \in Int
  OBVIOUS
<1>9. /\ \A m \in Int : Cardinality(Below(S, m)) \in Nat
      /\ \A a \in S : \A b \in Int :
              a < b => Cardinality(Below(S, a)) < Cardinality(Below(S, b))
      /\ \A a \in S : Cardinality(Below(S, a)) < Cardinality(S)
  BY <1>1, <1>2, RankGrows
<1>3. /\ \A b \in S : C(b) \in 0 .. N - 1
      /\ \A a, b \in S : a < b => C(a) < C(b)
  BY <1>1, <1>2, <1>9
<1>4. ASSUME NEW k \in 1 .. N PROVE r[k] \in S /\ C(r[k]) = k - 1
  <2>1. k - 1 \in 0 .. N - 1
    BY <1>1
  <2>2. \E b \in S : Cardinality(Below(S, b)) = k - 1
    BY <1>1, <2>1, RankReached
  <2>3. r[k] = CHOOSE b \in S : Cardinality({c \in S : c < b}) = k - 1
    BY DEF Ranked
  <2> QED BY <2>2, <2>3 DEF Below
<1>5. r \in [1 .. N -> S]
  BY <1>4 DEF Ranked
<1> HIDE DEF C, r
<1>6. r \in Seq(S) /\ Len(r) = N
  BY <1>1, <1>5
<1>7. \A k, l \in 1 .. N : k < l => r[k] < r[l]
  <2> SUFFICES ASSUME NEW k \in 1 .. N, NEW l \in 1 .. N, k < l, ~ (r[k] < r[l]) PROVE FALSE
    OBVIOUS
  <2>1. r[k] \in S /\ r[l] \in S /\ C(r[k]) = k - 1 /\ C(r[l]) = l - 1
    BY <1>4
  <2>4. \A x, y \in Int : ~ (x < y) => x = y \/ y < x
    OBVIOUS
  <2>5. r[k] \in Int /\ r[l] \in Int
    BY <2>1, <1>2
  <2>2. r[k] = r[l] \/ r[l] < r[k]
    BY <2>4, <2>5
  <2>3. C(r[l]) = C(r[k]) \/ C(r[l]) < C(r[k])
    BY <2>1, <2>2, <1>3
  <2> QED BY <2>1, <2>3
<1>8. ASSUME NEW b \in S PROVE \E k \in 1 .. N : r[k] = b
  <2>1. C(b) \in 0 .. N - 1
    BY <1>3
  <2> DEFINE k == C(b) + 1
  <2>2. k \in 1 .. N /\ C(b) = k - 1
    BY <2>1, <1>1
  <2> HIDE DEF k
  <2>3. r[k] \in S /\ C(r[k]) = C(b)
    BY <2>2, <1>4
  <2>4. ~ (r[k] < b)
    <3>1. r[k] < b => C(r[k]) < C(b)
      BY <2>3, <1>3
    <3> QED BY <3>1, <2>3, <2>1
  <2>6. ~ (b < r[k])
    <3>1. b < r[k] => C(b) < C(r[k])
      BY <2>3, <1>3
    <3> QED BY <3>1, <2>3, <2>1
  <2>7. r[k] \in Int /\ b \in Int
    BY <2>3, <1>2
  <2>5. r[k] = b
    BY <2>4, <2>6, <2>7
  <2> QED BY <2>2, <2>5
<1> QED BY <1>1, <1>6, <1>7, <1>8 DEF r

(* The first `count' numbers of a set: as many as there are.               *)
LEMMA RankedFirst ==
  ASSUME NEW n \in Nat, NEW S \in SUBSET (0 .. n - 1), NEW count \in Nat
  PROVE  LET first == {b \in S : Cardinality({c \in S : c < b}) < count} IN
         /\ first \subseteq S
         /\ Cardinality(first) = IF count < Cardinality(S) THEN count ELSE Cardinality(S)
<1> DEFINE first == {b \in S : Cardinality(Below(S, b)) < count}
<1>1. IsFiniteSet(S) /\ Cardinality(S) \in Nat
  BY RankedAscends
<1>2. S \in SUBSET Int
  OBVIOUS
<1>6. \A c \in S : c \in Int
  OBVIOUS
<1>3. /\ \A m \in Int : Cardinality(Below(S, m)) \in Nat
      /\ \A a \in S : \A b \in Int :
              a < b => Cardinality(Below(S, a)) < Cardinality(Below(S, b))
      /\ \A a \in S : Cardinality(Below(S, a)) < Cardinality(S)
  BY <1>1, <1>2, RankGrows
<1>4. CASE count < Cardinality(S)
  <2>1. count \in 0 .. Cardinality(S) - 1
    BY <1>1, <1>4
  <2>2. PICK b \in S : Cardinality(Below(S, b)) = count
    BY <1>1, <2>1, RankReached
  <2>3. ASSUME NEW a \in S PROVE a < b <=> Cardinality(Below(S, a)) < count
    <3>1. a < b \/ a = b \/ b < a
      BY <1>2
    <3>2. a < b => Cardinality(Below(S, a)) < count
      BY <1>2, <1>3, <2>2
    <3>3. b < a => count < Cardinality(Below(S, a))
      BY <1>2, <1>3, <2>2
    <3>4. Cardinality(Below(S, a)) \in Nat
      BY <1>2, <1>3
    <3> QED BY <3>1, <3>2, <3>3, <3>4, <2>2
  <2>4. first = Below(S, b)
    BY <2>3 DEF Below
  <2> QED BY <2>2, <2>4, <1>4 DEF Below
<1>5. CASE ~ (count < Cardinality(S))
  <2>1. \A a \in S : Cardinality(Below(S, a)) < count
    <3> SUFFICES ASSUME NEW a \in S PROVE Cardinality(Below(S, a)) < count
      OBVIOUS
    <3>1. Cardinality(Below(S, a)) \in Nat /\ Cardinality(Below(S, a)) < Cardinality(S)
      BY <1>3, <1>6
    <3> QED BY <3>1, <1>1, <1>5
  <2>2. first = S
    BY <2>1
  <2> QED BY <2>2, <1>5 DEF Below
<1> QED BY <1>4, <1>5

LEMMA SequenceOverMore ==
  ASSUME NEW S, NEW T, S \subseteq T, NEW s \in Seq(S)
  PROVE  s \in Seq(T)
<1>1. Len(s) \in Nat /\ DOMAIN s = 1 .. Len(s) /\ \A i \in 1 .. Len(s) : s[i] \in T
  OBVIOUS
<1>2. s = [i \in 1 .. Len(s) |-> s[i]]
  OBVIOUS
<1>3. s \in [1 .. Len(s) -> T]
  BY <1>1, <1>2
<1> QED BY <1>1, <1>3

(* ... and over any set it takes its elements from.                        *)
LEMMA SequenceOverFewer ==
  ASSUME NEW S, NEW T, NEW s \in Seq(S), ToSet(s) \subseteq T
  PROVE  s \in Seq(T)
<1>1. Len(s) \in Nat /\ DOMAIN s = 1 .. Len(s)
  OBVIOUS
<1>2. \A i \in 1 .. Len(s) : s[i] \in ToSet(s)
  BY <1>1 DEF ToSet
<1>3. s = [i \in 1 .. Len(s) |-> s[i]]
  OBVIOUS
<1>4. s \in [1 .. Len(s) -> T]
  BY <1>1, <1>2, <1>3
<1> QED BY <1>1, <1>4

-------------------------------------------------------------------------------
(***************************************************************************)
(* The elements of a sequence put together from others, and of a part.     *)
(***************************************************************************)
LEMMA ConcatSet ==
  ASSUME NEW S, NEW s \in Seq(S), NEW t \in Seq(S)
  PROVE  s \o t \in Seq(S) /\ ToSet(s \o t) = ToSet(s) \union ToSet(t)
<1>1. /\ s \o t \in Seq(S) /\ Len(s \o t) = Len(s) + Len(t)
      /\ Len(s) \in Nat /\ Len(t) \in Nat
      /\ DOMAIN s = 1 .. Len(s) /\ DOMAIN t = 1 .. Len(t) /\ DOMAIN (s \o t) = 1 .. Len(s \o t)
  OBVIOUS
<1>2. ASSUME NEW x \in ToSet(s \o t) PROVE x \in ToSet(s) \union ToSet(t)
  <2>1. PICK k \in 1 .. Len(s \o t) : x = (s \o t)[k]
    BY <1>1 DEF ToSet
  <2>2. CASE k <= Len(s)
    <3>1. x = s[k] /\ k \in 1 .. Len(s)
      BY <1>1, <2>1, <2>2
    <3> QED BY <3>1, <1>1 DEF ToSet
  <2>3. CASE k > Len(s)
    <3>1. x = t[k - Len(s)] /\ k - Len(s) \in 1 .. Len(t)
      BY <1>1, <2>1, <2>3
    <3> QED BY <3>1, <1>1 DEF ToSet
  <2> QED BY <1>1, <2>2, <2>3
<1>3. ASSUME NEW x \in ToSet(s) PROVE x \in ToSet(s \o t)
  <2>1. PICK k \in 1 .. Len(s) : x = s[k]
    BY <1>1 DEF ToSet
  <2>2. k \in 1 .. Len(s \o t) /\ (s \o t)[k] = s[k]
    BY <1>1
  <2> QED BY <1>1, <2>1, <2>2 DEF ToSet
<1>4. ASSUME NEW x \in ToSet(t) PROVE x \in ToSet(s \o t)
  <2>1. PICK k \in 1 .. Len(t) : x = t[k]
    BY <1>1 DEF ToSet
  <2>2. Len(s) + k \in 1 .. Len(s \o t) /\ (s \o t)[Len(s) + k] = t[k]
    BY <1>1
  <2> QED BY <1>1, <2>1, <2>2 DEF ToSet
<1> QED BY <1>1, <1>2, <1>3, <1>4

LEMMA ConsSet ==
  ASSUME NEW S, NEW x \in S, NEW t \in Seq(S)
  PROVE  <<x>> \o t \in Seq(S) /\ ToSet(<<x>> \o t) = {x} \union ToSet(t)
<1> DEFINE head == <<x>>
<1>1. head \in Seq(S) /\ ToSet(head) = {x}
  BY DEF ToSet
<1> HIDE DEF head
<1>2. head \o t \in Seq(S) /\ ToSet(head \o t) = {x} \union ToSet(t)
  BY <1>1, ConcatSet
<1> QED BY <1>2 DEF head

LEMMA ConcatInjective ==
  ASSUME NEW S, NEW s \in Seq(S), NEW t \in Seq(S),
         IsInjective(s), IsInjective(t), ToSet(s) \intersect ToSet(t) = {}
  PROVE  IsInjective(s \o t)
<1>1. /\ Len(s \o t) = Len(s) + Len(t) /\ Len(s) \in Nat /\ Len(t) \in Nat
      /\ DOMAIN s = 1 .. Len(s) /\ DOMAIN t = 1 .. Len(t) /\ DOMAIN (s \o t) = 1 .. Len(s \o t)
  OBVIOUS
<1>2. /\ \A k \in 1 .. Len(s) : (s \o t)[k] = s[k] /\ s[k] \in ToSet(s)
      /\ \A k \in 1 .. Len(s \o t) : k > Len(s) =>
           /\ k - Len(s) \in 1 .. Len(t)
           /\ (s \o t)[k] = t[k - Len(s)] /\ t[k - Len(s)] \in ToSet(t)
  BY <1>1 DEF ToSet
<1>3. ASSUME NEW j \in 1 .. Len(s \o t), NEW k \in 1 .. Len(s \o t), j < k,
             (s \o t)[j] = (s \o t)[k]
      PROVE  FALSE
  <2>1. CASE k <= Len(s)
    <3>1. j \in 1 .. Len(s) /\ k \in 1 .. Len(s) /\ s[j] = s[k]
      BY <1>1, <1>2, <1>3, <2>1
    <3> QED BY <1>1, <1>3, <3>1 DEF IsInjective
  <2>2. CASE j > Len(s)
    <3>1. /\ j - Len(s) \in 1 .. Len(t) /\ k - Len(s) \in 1 .. Len(t)
          /\ t[j - Len(s)] = t[k - Len(s)]
      BY <1>1, <1>2, <1>3, <2>2
    <3>2. j - Len(s) = k - Len(s)
      BY <1>1, <3>1 DEF IsInjective
    <3> QED BY <1>1, <1>3, <3>2
  <2>3. CASE j <= Len(s) /\ k > Len(s)
    BY <1>1, <1>2, <1>3, <2>3
  <2> QED BY <1>1, <2>1, <2>2, <2>3
<1>4. \A j, k \in 1 .. Len(s \o t) : (s \o t)[j] = (s \o t)[k] => j = k
  BY <1>1, <1>3
<1> QED BY <1>1, <1>4 DEF IsInjective

LEMMA SubSeqIs ==
  ASSUME NEW S, NEW q \in Seq(S), NEW a \in Nat, NEW b \in Nat, 1 <= a, b <= Len(q), a <= b + 1
  PROVE  /\ SubSeq(q, a, b) \in Seq(S)
         /\ Len(SubSeq(q, a, b)) = b - a + 1
         /\ \A k \in 1 .. b - a + 1 : SubSeq(q, a, b)[k] = q[a + k - 1]
         /\ ToSet(SubSeq(q, a, b)) = {q[k] : k \in a .. b}
<1> DEFINE p == SubSeq(q, a, b)
<1>1. /\ p \in Seq(S) /\ Len(p) = b - a + 1 /\ DOMAIN p = 1 .. b - a + 1
      /\ \A k \in 1 .. b - a + 1 : p[k] = q[a + k - 1]
  OBVIOUS
<1> HIDE DEF p
<1>2. ASSUME NEW x \in ToSet(p) PROVE x \in {q[k] : k \in a .. b}
  <2>1. PICK k \in 1 .. b - a + 1 : x = p[k]
    BY <1>1 DEF ToSet
  <2>2. x = q[a + k - 1] /\ a + k - 1 \in a .. b
    BY <1>1, <2>1
  <2> QED BY <2>2
<1>3. ASSUME NEW k \in a .. b PROVE q[k] \in ToSet(p)
  <2>1. k - a + 1 \in 1 .. b - a + 1 /\ a + (k - a + 1) - 1 = k
    OBVIOUS
  <2>2. p[k - a + 1] = q[k]
    BY <1>1, <2>1
  <2> QED BY <1>1, <2>1, <2>2 DEF ToSet
<1> QED BY <1>1, <1>2, <1>3 DEF p

LEMMA SubSeqJoins ==
  ASSUME NEW S, NEW q \in Seq(S), NEW a \in Nat, NEW b \in Nat, NEW c \in Nat,
         1 <= a, a <= b, b <= c + 1, c <= Len(q)
  PROVE  SubSeq(q, a, b - 1) \o SubSeq(q, b, c) = SubSeq(q, a, c)
<1> DEFINE s == SubSeq(q, a, b - 1)
           t == SubSeq(q, b, c)
           u == SubSeq(q, a, c)
<1>1. /\ s \in Seq(S) /\ Len(s) = b - a /\ \A k \in 1 .. b - a : s[k] = q[a + k - 1]
      /\ t \in Seq(S) /\ Len(t) = c - b + 1 /\ \A k \in 1 .. c - b + 1 : t[k] = q[b + k - 1]
      /\ u \in Seq(S) /\ Len(u) = c - a + 1 /\ \A k \in 1 .. c - a + 1 : u[k] = q[a + k - 1]
  OBVIOUS
<1> HIDE DEF s, t, u
<1>2. s \o t \in Seq(S) /\ Len(s \o t) = Len(u)
  BY <1>1
<1>3. ASSUME NEW k \in 1 .. Len(u) PROVE (s \o t)[k] = u[k]
  <2>1. CASE k <= b - a
    <3>1. k \in 1 .. Len(s) /\ k \in 1 .. c - a + 1
      BY <1>1, <2>1
    <3>2. (s \o t)[k] = s[k]
      BY <1>1, <3>1
    <3> QED BY <1>1, <3>1, <3>2
  <2>2. CASE ~ (k <= b - a)
    <3>1. k - Len(s) \in 1 .. Len(t) /\ k \in 1 .. c - a + 1 /\ k \in 1 .. Len(s) + Len(t)
          /\ k > Len(s)
      BY <1>1, <2>2
    <3>2. (s \o t)[k] = t[k - Len(s)]
      <4>1. s \in Seq(S) /\ t \in Seq(S) /\ Len(s) \in Nat /\ Len(t) \in Nat
        BY <1>1
      <4> QED BY <3>1, <4>1
    <3>3. b + (k - Len(s)) - 1 = a + k - 1
      BY <1>1, <3>1
    <3> QED BY <1>1, <3>1, <3>2, <3>3
  <2> QED BY <1>1, <2>1, <2>2
<1> QED BY <1>1, <1>2, <1>3 DEF s, t, u

LEMMA SubSeqInjective ==
  ASSUME NEW S, NEW q \in Seq(S), NEW a \in Nat, NEW b \in Nat, 1 <= a, b <= Len(q), a <= b + 1,
         IsInjective(q)
  PROVE  IsInjective(SubSeq(q, a, b))
<1> DEFINE p == SubSeq(q, a, b)
<1>1. /\ DOMAIN q = 1 .. Len(q) /\ DOMAIN p = 1 .. b - a + 1
      /\ \A k \in 1 .. b - a + 1 : p[k] = q[a + k - 1] /\ a + k - 1 \in 1 .. Len(q)
  OBVIOUS
<1> HIDE DEF p
<1>2. \A j, k \in 1 .. b - a + 1 : p[j] = p[k] => a + j - 1 = a + k - 1
  BY <1>1 DEF IsInjective
<1>3. \A j, k \in 1 .. b - a + 1 : a + j - 1 = a + k - 1 => j = k
  OBVIOUS
<1>4. IsInjective(p)
  BY <1>1, <1>2, <1>3 DEF IsInjective
<1> QED BY <1>4 DEF p

(* Parts of an injective sequence that have no place in common.            *)
LEMMA ImagesApart ==
  ASSUME NEW q, NEW n, DOMAIN q = 1 .. n, IsInjective(q),
         NEW J \in SUBSET (1 .. n), NEW K \in SUBSET (1 .. n), J \intersect K = {}
  PROVE  {q[k] : k \in J} \intersect {q[k] : k \in K} = {}
  BY DEF IsInjective

===============================================================================
