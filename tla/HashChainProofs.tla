---------------------------- MODULE HashChainProofs ----------------------------
(* ChainInv is an inductive invariant of HashChain for every ring size,    *)
(* payload set and hash function, and the properties that TLC checks on a  *)
(* ring of three slots follow from it.                                     *)
EXTENDS HashChain, TLAPS

-------------------------------------------------------------------------------
(* Slot arithmetic.                                                        *)

(* A sequence number has a slot of the ring.                               *)
LEMMA SlotInRing == ASSUME NEW n \in Nat PROVE SlotOf(n) \in Slots
BY WindowAssumption DEF SlotOf, Slots

(* Euclidean division by the ring size.                                    *)
LEMMA Division ==
  ASSUME NEW n \in Nat
  PROVE  /\ n \div Window \in Int
         /\ Window * (n \div Window) \in Int
         /\ n = Window * (n \div Window) + SlotOf(n)
BY WindowAssumption DEF SlotOf

(* Multiples of the ring size.                                             *)
LEMMA Multiple ==
  ASSUME NEW k \in Int
  PROVE  /\ Window * k \in Int
         /\ k >= 1 => Window * k >= Window
         /\ k <= -1 => Window * k <= -Window
         /\ k = 0 => Window * k = 0
BY WindowAssumption

(* Two sequence numbers less than a ring apart never share a slot.         *)
LEMMA SlotsDiffer ==
  ASSUME NEW m \in Nat, NEW n \in Nat, m < n, n < m + Window
  PROVE  SlotOf(m) # SlotOf(n)
<1> DEFINE p == m \div Window
           q == n \div Window
<1>1. p \in Int /\ q \in Int /\ Window * p \in Int /\ Window * q \in Int
  BY Division
<1>2. SlotOf(m) \in Int /\ SlotOf(n) \in Int
  BY SlotInRing, WindowAssumption DEF Slots
<1>3. m = Window * p + SlotOf(m) /\ n = Window * q + SlotOf(n)
  BY Division
<1>4. Window * (q - p) = Window * q - Window * p
  BY <1>1, WindowAssumption
<1> HIDE DEF p, q
<1>5. SUFFICES ASSUME SlotOf(m) = SlotOf(n) PROVE FALSE
  OBVIOUS
<1>6. n - m = Window * (q - p)
  BY <1>1, <1>2, <1>3, <1>4, <1>5
<1>7. q - p \in Int /\ (q - p >= 1 \/ q - p <= -1 \/ q - p = 0)
  BY <1>1
<1>8. QED
  BY <1>6, <1>7, Multiple, WindowAssumption

(* A sequence number shares its slot with the one a ring later.            *)
LEMMA SlotRepeats ==
  ASSUME NEW n \in Nat
  PROVE  SlotOf(n + Window) = SlotOf(n)
<1> DEFINE l == n + Window
           p == n \div Window
           q == l \div Window
<1>1. l \in Nat /\ p \in Int /\ q \in Int /\ Window * p \in Int /\ Window * q \in Int
  BY Division, WindowAssumption
<1>2. SlotOf(n) \in 0 .. Window - 1 /\ SlotOf(l) \in 0 .. Window - 1
  BY <1>1, SlotInRing DEF Slots
<1>3. n = Window * p + SlotOf(n) /\ l = Window * q + SlotOf(l)
  BY <1>1, Division
<1>4. Window * (q - p - 1) = Window * q - Window * p - Window
  BY <1>1, WindowAssumption
<1>5. l = n + Window
  OBVIOUS
<1> HIDE DEF l, p, q
<1>6. SlotOf(n) - SlotOf(l) = Window * (q - p - 1)
  BY <1>1, <1>2, <1>3, <1>4, <1>5, WindowAssumption
<1>7. q - p - 1 \in Int
      /\ (q - p - 1 >= 1 \/ q - p - 1 <= -1 \/ q - p - 1 = 0)
  BY <1>1
<1>8. Window * (q - p - 1) = 0
  BY <1>2, <1>6, <1>7, Multiple, WindowAssumption
<1>9. QED
  BY <1>2, <1>5, <1>6, <1>8, WindowAssumption

-------------------------------------------------------------------------------
(* The inductive invariant.                                                *)

(* Positions are typed.                                                    *)
LEMMA PositionFacts ==
  ASSUME HashChainTypeOK
  PROVE  /\ header.next \in Nat /\ header.last \in Hashes
         /\ cached.next \in Nat /\ cached.last \in Hashes
BY DEF HashChainTypeOK, Position, Handle

(* A slot holds nothing or a record with a sequence number.                *)
LEMMA SlotFacts ==
  ASSUME HashChainTypeOK, NEW n \in Nat, chain[SlotOf(n)] # NoRecord
  PROVE  chain[SlotOf(n)].seq \in Nat
<1>1. SlotOf(n) \in Slots
  BY SlotInRing
<1>2. chain[SlotOf(n)] \in Record
  BY <1>1 DEF HashChainTypeOK
<1>3. QED
  BY <1>2 DEF Record

(* A fresh container satisfies the invariant.                              *)
LEMMA InitChainInv == ChainInit => ChainInv
<1> SUFFICES ASSUME NEW payload \in Payloads,
                    LET genesis == NewRecord(0, ZeroHash, payload) IN
                    /\ chain = [i \in Slots |-> IF i = 0 THEN genesis ELSE NoRecord]
                    /\ header = [next |-> 1, last |-> genesis.hash]
                    /\ cached = [open |-> TRUE, next |-> 1, last |-> genesis.hash]
                    /\ appending = FALSE
             PROVE  ChainInv
  BY DEF ChainInit
<1> DEFINE genesis == NewRecord(0, ZeroHash, payload)
<1>1. genesis \in Record /\ genesis.seq = 0 /\ genesis # NoRecord
  BY HashAssumption, MaxSeqAssumption DEF NewRecord, Record, NoRecord
<1>2. SlotOf(0) = 0 /\ 0 \in Slots
  BY WindowAssumption DEF SlotOf, Slots
<1>3. HashChainTypeOK
  BY <1>1 DEF HashChainTypeOK, Position, Handle, Record
<1>4. ASSUME NEW h, h.next = 1, h.last = genesis.hash
      PROVE  Describes(h)
  <2>1. Retained(h) = {0}
    BY <1>4, WindowAssumption DEF Retained, Oldest
  <2>2. Resident(h)
    BY <1>1, <1>2, <1>4, WindowAssumption DEF Resident
  <2>3. Filled(h) /\ IntactSuffix(h) /\ Anchored(h)
    BY <1>1, <1>2, <1>4, <2>1 DEF Filled, IntactSuffix, Anchored, Intact
  <2>4. QED
    BY <1>4, <2>2, <2>3 DEF Describes
<1>5. Continues
  BY WindowAssumption DEF Continues
<1>6. QED
  BY <1>3, <1>4, <1>5 DEF ChainInv

(* Writing a record keeps the description of the position in the file: the *)
(* record lands on a slot outside the window or on its oldest intact one.  *)
LEMMA WriteKeepsHeader ==
  ASSUME ChainInv, NEW payload \in Payloads, WriteRecord(payload)
  PROVE  Describes(header)'
<1> DEFINE q == cached.next
           rec == NewRecord(q, cached.last, payload)
<1>1. /\ cached.open /\ header' = header /\ rec.seq = q /\ rec # NoRecord
      /\ chain' = [chain EXCEPT ![SlotOf(q)] = rec]
  BY PositionFacts DEF WriteRecord, NewRecord, ChainInv, NoRecord
<1>2. /\ HashChainTypeOK /\ Describes(header) /\ Resident(cached)
      /\ q >= header.next /\ header.next \in Nat /\ q \in Nat /\ header.next >= 1
  BY <1>1, PositionFacts DEF ChainInv, Continues, Describes
<1>3. /\ chain'[SlotOf(q)] = rec
      /\ \A i \in Slots : i # SlotOf(q) => chain'[i] = chain[i]
  BY <1>1, <1>2, SlotInRing DEF HashChainTypeOK
<1>4. \A n \in Retained(header) : n \in Nat /\ n < header.next /\ n < q
  BY <1>2, WindowAssumption DEF Retained, Oldest
<1>5. Resident(header)'
  BY <1>1, <1>2, <1>3, WindowAssumption DEF Resident, Describes
<1>6. Filled(header)'
  BY <1>1, <1>2, <1>3, <1>4, SlotInRing DEF Filled, Describes, Retained, Oldest, Intact
<1>7. IntactSuffix(header)'
  <2> SUFFICES ASSUME NEW m \in Retained(header), NEW n \in Retained(header),
                      m < n, Intact(m)'
               PROVE  /\ Intact(n)'
                      /\ n = m + 1 => (chain'[SlotOf(n)].prev = chain'[SlotOf(m)].hash)
    BY <1>1 DEF IntactSuffix, Retained, Oldest
  <2>1. SlotOf(m) # SlotOf(q) /\ chain'[SlotOf(m)] = chain[SlotOf(m)] /\ Intact(m)
    BY <1>1, <1>3, <1>4, SlotInRing DEF Intact
  <2>2. chain[SlotOf(m)] # NoRecord
    BY <1>2 DEF Describes, Filled
  <2>3. m >= q - Window
    BY <1>4, <2>1, <2>2, <1>2, SlotInRing DEF Resident, Intact
  <2>4. SlotOf(n) # SlotOf(q)
    BY <1>2, <1>4, <2>3, SlotsDiffer, WindowAssumption
  <2>5. chain'[SlotOf(n)] = chain[SlotOf(n)]
    BY <1>3, <1>4, <2>4, SlotInRing
  <2>6. QED
    BY <1>2, <2>1, <2>5 DEF Describes, IntactSuffix, Intact
<1>8. Anchored(header)'
  <2>1. header.next - 1 \in Nat
    BY <1>2
  <2>2. QED
    BY <1>1, <1>2, <1>3, <2>1, SlotInRing DEF Anchored, Describes, Intact
<1>9. QED
  BY <1>1, <1>2, <1>5, <1>6, <1>7, <1>8 DEF Describes

(* Writing a record makes it the youngest of the position in memory.       *)
LEMMA WriteAdvancesCached ==
  ASSUME ChainInv, NEW payload \in Payloads, WriteRecord(payload)
  PROVE  Describes(cached)' /\ Continues'
<1> DEFINE q == cached.next
           rec == NewRecord(q, cached.last, payload)
<1>1. /\ cached.open /\ header' = header
      /\ rec.seq = q /\ rec # NoRecord /\ rec.prev = cached.last
      /\ chain' = [chain EXCEPT ![SlotOf(q)] = rec]
      /\ cached'.next = q + 1 /\ cached'.last = rec.hash
  BY PositionFacts DEF WriteRecord, NewRecord, ChainInv, NoRecord, HashChainTypeOK, Handle
<1>2. /\ HashChainTypeOK /\ Describes(cached) /\ Continues
      /\ header.next \in Nat /\ q \in Nat /\ q >= 1
  BY <1>1, PositionFacts DEF ChainInv, Describes
<1>3. /\ chain'[SlotOf(q)] = rec
      /\ \A i \in Slots : i # SlotOf(q) => chain'[i] = chain[i]
  BY <1>1, <1>2, SlotInRing DEF HashChainTypeOK
<1>4. ASSUME NEW n \in Retained(cached)', n # q
      PROVE  /\ n \in Nat /\ n < q /\ n \in Retained(cached) /\ SlotOf(n) # SlotOf(q)
             /\ chain'[SlotOf(n)] = chain[SlotOf(n)]
  <2>1. n \in Nat /\ n < q /\ n \in Retained(cached) /\ q < n + Window
    BY <1>1, <1>2, <1>4, WindowAssumption DEF Retained, Oldest
  <2>2. SlotOf(n) # SlotOf(q)
    BY <1>2, <2>1, SlotsDiffer
  <2>3. QED
    BY <1>3, <2>1, <2>2, SlotInRing
<1>5. Resident(cached)'
  <2> SUFFICES ASSUME NEW i \in Slots, chain'[i] # NoRecord
               PROVE  SlotOf(chain'[i].seq) = i /\ chain'[i].seq >= q + 1 - Window
    BY <1>1, <1>2, WindowAssumption DEF Resident
  <2>1. CASE i = SlotOf(q)
    BY <1>1, <1>2, <1>3, <2>1, WindowAssumption
  <2>2. CASE i # SlotOf(q)
    <3>1. chain'[i] = chain[i]
      BY <1>3, <2>2
    <3>2. SlotOf(chain[i].seq) = i /\ chain[i].seq >= q - Window /\ chain[i].seq \in Nat
      <4>1. chain[i] \in Record
        BY <1>2, <3>1 DEF HashChainTypeOK
      <4>2. QED
        BY <1>2, <3>1, <4>1 DEF Describes, Resident, Record
    <3>3. chain[i].seq # q - Window
      BY <2>2, <3>2, <1>2, SlotRepeats, WindowAssumption
    <3>4. QED
      BY <1>2, <3>1, <3>2, <3>3, WindowAssumption
  <2>3. QED
    BY <2>1, <2>2
<1>6. Filled(cached)'
  <2> SUFFICES ASSUME NEW n \in Retained(cached)'
               PROVE  /\ chain'[SlotOf(n)] # NoRecord
                      /\ Intact(n)' \/ chain'[SlotOf(n)].seq >= q + 1
    BY <1>1 DEF Filled
  <2>1. CASE n = q
    BY <1>1, <1>3, <2>1 DEF Intact
  <2>2. CASE n # q
    <3>1. chain[SlotOf(n)] # NoRecord /\ (Intact(n) \/ chain[SlotOf(n)].seq >= q)
      BY <1>2, <1>4, <2>2 DEF Describes, Filled
    <3>2. chain[SlotOf(n)].seq # q
      BY <1>2, <1>4, <2>2, <3>1, SlotInRing DEF Describes, Resident
    <3>3. chain[SlotOf(n)].seq \in Nat
      <4>1. n \in Nat /\ HashChainTypeOK
        BY <1>2, <1>4, <2>2
      <4>2. QED
        BY <3>1, <4>1, SlotFacts
    <3>4. QED
      BY <1>2, <1>4, <2>2, <3>1, <3>2, <3>3 DEF Intact
  <2>3. QED
    BY <2>1, <2>2
<1>7. IntactSuffix(cached)'
  <2> SUFFICES ASSUME NEW m \in Retained(cached)', NEW n \in Retained(cached)',
                      m < n, Intact(m)'
               PROVE  /\ Intact(n)'
                      /\ n = m + 1 => (chain'[SlotOf(n)].prev = chain'[SlotOf(m)].hash)
    BY DEF IntactSuffix
  <2>1. m # q /\ n <= q /\ n \in Nat
    BY <1>1, <1>2, WindowAssumption DEF Retained, Oldest
  <2>2. /\ Intact(m) /\ chain'[SlotOf(m)] = chain[SlotOf(m)]
        /\ m \in Retained(cached) /\ m \in Nat
    BY <1>4, <2>1 DEF Intact
  <2>3. CASE n # q
    BY <1>2, <1>4, <2>2, <2>3 DEF Describes, IntactSuffix, Intact
  <2>4. CASE n = q
    <3>1. Intact(n)'
      BY <1>1, <1>3, <2>4 DEF Intact
    <3>2. ASSUME n = m + 1 PROVE chain'[SlotOf(n)].prev = chain'[SlotOf(m)].hash
      <4>1. m = cached.next - 1
        BY <1>2, <2>2, <2>4, <3>2
      <4>2. chain[SlotOf(m)].hash = cached.last
        BY <1>2, <2>2, <4>1 DEF Describes, Anchored
      <4>3. QED
        BY <1>1, <1>3, <2>2, <2>4, <4>2
    <3>3. QED
      BY <3>1, <3>2
  <2>5. QED
    BY <2>3, <2>4
<1>8. Anchored(cached)'
  BY <1>1, <1>2, <1>3 DEF Anchored
<1>9. Continues'
  <2>1. cached.next >= header.next
    BY <1>2 DEF Continues
  <2>2. ASSUME q + 1 <= header.next + Window
        PROVE  chain'[SlotOf(header.next)].prev = header.last
    <3>1. CASE q = header.next
      BY <1>1, <1>2, <1>3, <3>1 DEF Continues
    <3>2. CASE q # header.next
      <4>1. SlotOf(header.next) # SlotOf(q)
        BY <1>2, <2>1, <2>2, <3>2, SlotsDiffer, WindowAssumption
      <4>2. chain'[SlotOf(header.next)] = chain[SlotOf(header.next)]
        BY <1>2, <1>3, <4>1, SlotInRing
      <4>3. QED
        BY <1>2, <2>1, <2>2, <3>2, <4>2, WindowAssumption DEF Continues
    <3>3. QED
      BY <3>1, <3>2
  <2>3. QED
    BY <1>1, <1>2, <2>1, <2>2 DEF Continues
<1>10. QED
  BY <1>1, <1>2, <1>5, <1>6, <1>7, <1>8, <1>9 DEF Describes

(* Every step keeps the invariant.                                         *)
LEMMA NextChainInv == ChainInv /\ [ChainNext]_chainVars => ChainInv'
<1> SUFFICES ASSUME ChainInv, [ChainNext]_chainVars
             PROVE  ChainInv'
  OBVIOUS
<1>1. HashChainTypeOK /\ Describes(header) /\ (cached.open => Describes(cached) /\ Continues)
  BY DEF ChainInv
<1>2. ASSUME UNCHANGED chain, header' = header PROVE Describes(header)'
  BY <1>1, <1>2 DEF Describes, Resident, Filled, IntactSuffix, Anchored, Retained, Oldest, Intact
<1>3. CASE OpenChain
  <2>1. HashChainTypeOK'
    BY <1>1, <1>3 DEF HashChainTypeOK, OpenChain, Handle, Position
  <2>2. Describes(header)'
    BY <1>2, <1>3 DEF OpenChain
  <2>3. cached'.next = header.next /\ cached'.last = header.last /\ UNCHANGED <<chain, header>>
    BY <1>3 DEF OpenChain
  <2>4. Describes(cached)'
    BY <1>1, <2>3 DEF Describes, Resident, Filled, IntactSuffix, Anchored, Retained, Oldest, Intact
  <2>5. Continues'
    BY <1>1, <2>3, PositionFacts DEF Continues
  <2>6. QED
    BY <2>1, <2>2, <2>4, <2>5, <1>3 DEF ChainInv, OpenChain
<1>4. CASE CloseChain
  <2>1. HashChainTypeOK'
    BY <1>1, <1>4, HashAssumption DEF HashChainTypeOK, CloseChain, Handle, NoHandle
  <2>2. QED
    BY <1>2, <1>4, <2>1 DEF ChainInv, CloseChain, NoHandle
<1>5. ASSUME NEW payload \in Payloads, WriteRecord(payload) PROVE ChainInv'
  <2> DEFINE rec == NewRecord(cached.next, cached.last, payload)
  <2>1. rec \in Record
    BY <1>1, <1>5, PositionFacts, HashAssumption, MaxSeqAssumption
       DEF WriteRecord, NewRecord, Record
  <2>2. HashChainTypeOK'
    <3>1. rec.seq = cached.next /\ rec.hash \in Hashes /\ cached.next \in Nat
      BY <1>1, <2>1, PositionFacts DEF Record, NewRecord
    <3>2. chain' \in [Slots -> Record \union {NoRecord}]
      BY <1>1, <1>5, <2>1 DEF HashChainTypeOK, WriteRecord
    <3>3. cached' \in Handle
      <4>1. cached' = [cached EXCEPT !.next = rec.seq + 1, !.last = rec.hash]
        BY <1>5 DEF WriteRecord
      <4>2. cached \in Handle /\ rec.seq + 1 \in Nat /\ rec.hash \in Hashes
        BY <1>1, <3>1 DEF HashChainTypeOK
      <4> HIDE DEF rec
      <4>3. QED
        BY <4>1, <4>2 DEF Handle
    <3>4. QED
      BY <1>1, <1>5, <3>2, <3>3 DEF HashChainTypeOK, WriteRecord
  <2>3. Describes(header)' /\ Describes(cached)' /\ Continues'
    BY <1>5, WriteKeepsHeader, WriteAdvancesCached
  <2>4. cached'.open
    BY <1>1, <1>5 DEF WriteRecord, HashChainTypeOK, Handle
  <2>5. QED
    BY <2>2, <2>3, <2>4 DEF ChainInv
<1>6. CASE WriteHeader
  <2>1. HashChainTypeOK'
    BY <1>1, <1>6, PositionFacts DEF HashChainTypeOK, WriteHeader, Position
  <2>2. header'.next = cached.next /\ header'.last = cached.last /\ UNCHANGED <<chain, cached>>
    BY <1>6 DEF WriteHeader
  <2>3. Describes(header)' /\ Describes(cached)'
    BY <1>1, <1>6, <2>2
       DEF WriteHeader, Describes, Resident, Filled, IntactSuffix, Anchored, Retained, Oldest, Intact
  <2>4. Continues'
    BY <1>1, <2>2, PositionFacts DEF Continues
  <2>5. QED
    BY <1>6, <2>1, <2>3, <2>4 DEF ChainInv, WriteHeader
<1>7. CASE HeaderWriteFails \/ UNCHANGED chainVars
  <2>1. /\ chain' = chain /\ header' = header /\ cached' = cached
        /\ (appending' => appending) /\ appending' \in BOOLEAN
    <3>1. CASE HeaderWriteFails
      BY <3>1 DEF HeaderWriteFails
    <3>2. CASE UNCHANGED chainVars
      BY <1>1, <3>2 DEF chainVars, HashChainTypeOK
    <3>3. QED
      BY <1>7, <3>1, <3>2
  <2>2. HashChainTypeOK'
    BY <1>1, <2>1 DEF HashChainTypeOK
  <2>3. Describes(header)' /\ (cached.open => Describes(cached)' /\ Continues')
    BY <1>1, <2>1
       DEF Describes, Resident, Filled, IntactSuffix, Anchored, Retained, Oldest, Intact, Continues
  <2>4. QED
    BY <2>1, <2>2, <2>3 DEF ChainInv
<1>8. QED
  BY <1>3, <1>4, <1>5, <1>6, <1>7 DEF ChainNext

(* ChainInv holds in every state of HashChain.                             *)
THEOREM ChainInvariant == ChainSpec => []ChainInv
<1>1. QED
  BY InitChainInv, NextChainInv, PTL DEF ChainSpec

-------------------------------------------------------------------------------
(* What follows from it.                                                   *)

(* The ring, the two headers and the handle are well typed.                *)
THEOREM ChainTypeCorrect == ChainSpec => []HashChainTypeOK
<1>1. ChainInv => HashChainTypeOK
  BY DEF ChainInv
<1>2. QED
  BY <1>1, ChainInvariant, PTL

(* What a cut-off append damages is always the oldest end of the window,   *)
(* in the file as in memory.                                               *)
THEOREM DamageIsAlwaysOldest == ChainSpec => []DamageIsOldest
<1>1. ChainInv => DamageIsOldest
  BY DEF ChainInv, DamageIsOldest, Describes
<1>2. QED
  BY <1>1, ChainInvariant, PTL

(* Where no append was cut off, verify_integrity accepts the chain.        *)
THEOREM VerifyFailsOnlyAfterTornAppend == ChainSpec => []VerifyFailsOnlyIfTorn
<1>1. ASSUME ChainInv, cached.open, Torn(cached) = {}
      PROVE  VerifyChain(cached)
  <2>1. Describes(cached) /\ HashChainTypeOK /\ cached.next \in Nat /\ cached.next >= 1
    BY <1>1, PositionFacts DEF ChainInv, Describes
  <2>2. \A n \in Retained(cached) : n \in Nat /\ n < cached.next
    BY <2>1, WindowAssumption DEF Retained, Oldest
  <2>3. ASSUME NEW n \in Retained(cached)
        PROVE  chain[SlotOf(n)] # NoRecord /\ Intact(n)
    BY <1>1, <2>1, <2>2, SlotInRing DEF Describes, Filled, Torn
  <2>4. Kept(cached) = Retained(cached)
    BY <2>3 DEF Kept
  <2>5. ASSUME NEW m \in Kept(cached), NEW n \in Kept(cached), m < n,
               \A k \in Kept(cached) : k <= m \/ k >= n
        PROVE  chain[SlotOf(n)].prev = chain[SlotOf(m)].hash
    <3>1. m + 1 \in Retained(cached)
      BY <2>1, <2>2, <2>4, <2>5, WindowAssumption DEF Retained, Oldest
    <3>2. n = m + 1
      BY <2>2, <2>4, <2>5, <3>1
    <3>3. QED
      BY <2>1, <2>3, <2>4, <2>5, <3>2 DEF Describes, IntactSuffix
  <2>6. ASSUME NEW n \in Kept(cached), \A k \in Kept(cached) : k <= n
        PROVE  chain[SlotOf(n)].hash = cached.last
    <3>1. cached.next - 1 \in Retained(cached)
      BY <2>1, WindowAssumption DEF Retained, Oldest
    <3>2. n = cached.next - 1
      BY <2>1, <2>2, <2>4, <2>6, <3>1
    <3>3. QED
      BY <2>1, <2>3, <3>1, <3>2 DEF Describes, Anchored
  <2>7. QED
    BY <2>3, <2>4, <2>5, <2>6 DEF VerifyChain, Intact
<1>2. ChainInv => VerifyFailsOnlyIfTorn
  BY <1>1 DEF VerifyFailsOnlyIfTorn
<1>3. QED
  BY <1>2, ChainInvariant, PTL

(* A header write only moves the file's position forward along the history *)
(* that the previous one committed.                                        *)
THEOREM CommittedHistoryOnlyGrows == ChainSpec => HistoryOnlyGrows
<1> DEFINE Grows ==
      header' # header =>
        /\ header'.next > header.next
        /\ header'.next <= header.next + Window =>
             chain'[SlotOf(header.next)].prev = header.last
<1>1. ChainInv /\ [ChainNext]_chainVars => [Grows]_chainVars
  <2> SUFFICES ASSUME ChainInv, ChainNext, header' # header
               PROVE  Grows
    BY DEF chainVars
  <2>1. WriteHeader
    BY DEF ChainNext, OpenChain, CloseChain, WriteRecord, HeaderWriteFails
  <2>2. cached.open /\ Continues /\ HashChainTypeOK
    BY <2>1 DEF WriteHeader, ChainInv
  <2>3. header'.next = cached.next /\ header'.last = cached.last /\ chain' = chain
    BY <2>1 DEF WriteHeader
  <2>4. header = [next |-> header.next, last |-> header.last]
    BY <2>2 DEF HashChainTypeOK, Position
  <2>5. cached.next # header.next
    BY <2>1, <2>2, <2>4 DEF WriteHeader, Continues
  <2>6. QED
    BY <2>2, <2>3, <2>5, PositionFacts DEF Continues
<1>2. QED
  BY <1>1, ChainInvariant, PTL DEF ChainSpec, HistoryOnlyGrows
===============================================================================
