------------------------------ MODULE ServeProofs ------------------------------
(***************************************************************************)
(* What module ServeConsole promises of its connections, for any number of *)
(* peers, connections, faults and changes to the vault: no nonce is used   *)
(* twice under one key, and every frame that arrives opens.                *)
(*                                                                         *)
(* Both follow from one picture of a connection.  Number the messages of   *)
(* an end: its hello is -1, its frames are 0, 1, 2, ...  What is under way *)
(* from an end is then a run of consecutive messages that begins with the  *)
(* one the other end reads next, and, as long as neither end is closed and *)
(* the stream is not cut, ends before the one the first end writes next.   *)
(***************************************************************************)
EXTENDS ServeConsole, TLAPS

Ids == Peers \union Int
Bodies == [copy : Int]
Draws == Conns \X Ends
Hellos == [kind : {"hello"}, id : Ids, ephemeral : Draws]
Frames == [kind : {"frame"}, key : SUBSET Draws, nonce : Nat, body : Bodies]
Messages == Hellos \union Frames
Stages == {"none", "open", "offered", "ready", "closed"}
EndStates ==
  [stage : Stages, peer : Ids \union {Nobody}, key : SUBSET Draws, sent : Nat, received : Nat]

LinkTypeOK(st, en, wr) ==
  /\ st \in {"none", "open", "cut"}
  /\ en \in [Ends -> EndStates]
  /\ wr \in [Ends -> Seq(Messages)]

(* The one key of a connection.                                            *)
KeyOf(c) == {<<c, "dial">>, <<c, "serve">>}

(* Message k of end e of connection c.                                     *)
IsMessage(c, e, m, k) ==
  /\ k \in Int /\ k >= -1
  /\ k = -1 => m.kind = "hello" /\ m.ephemeral = <<c, e>>
  /\ k >= 0 => m.kind = "frame" /\ m.key = KeyOf(c) /\ m.nonce = Nonce(e, k)

NextRead(end) == IF end.stage = "ready" THEN end.received ELSE -1
NextWritten(end) ==
  IF end.stage \in {"none", "open"} THEN -1 ELSE IF end.stage = "ready" THEN end.sent ELSE 0

(* s is the run of messages of end e that begins with message k.           *)
Run(c, e, s, k) == \A i \in 1 .. Len(s) : IsMessage(c, e, s[i], k + i - 1)

(* s is what is under way from end e, which is w, to the other, which is r. *)
InOrder(c, e, st, w, r, s) ==
  /\ Run(c, e, s, NextRead(r))
  /\ (st # "cut" /\ w.stage # "closed" /\ r.stage # "closed") =>
       NextRead(r) + Len(s) = NextWritten(w)
  /\ r.stage = "closed" => s = <<>>

EndOK(c, st, end) ==
  /\ st = "none" => end.stage = "none"
  /\ end.stage = "ready" => end.key = KeyOf(c)
  /\ end.stage \in {"none", "open", "offered"} => end.sent = 0

LinkOK(c, st, en, wr) ==
  /\ LinkTypeOK(st, en, wr)
  /\ \A e \in Ends : EndOK(c, st, en[e]) /\ InOrder(c, e, st, en[e], en[Other(e)], wr[e])

LinksOK ==
  /\ stream \in [Conns -> {"none", "open", "cut"}]
  /\ ends \in [Conns -> [Ends -> EndStates]]
  /\ wire \in [Conns -> [Ends -> Seq(Messages)]]
  /\ \A c \in Conns : LinkOK(c, stream[c], ends[c], wire[c])

(* What has been encrypted has been counted, by an end that still counts.  *)
Counted(x, c, e, n) ==
  /\ x.by = <<c, e>> /\ x.key = KeyOf(c) /\ x.nonce = Nonce(e, n)
  /\ Closed(c, e) \/ (ends[c][e].stage = "ready" /\ n < ends[c][e].sent)
SealedOK ==
  /\ \A x \in sealed : \E c \in Conns, e \in Ends, n \in Nat : Counted(x, c, e, n)
  /\ \A x, y \in sealed : x.by = y.by /\ x.nonce = y.nonce => x = y

ChannelInv == LinksOK /\ SealedOK

-------------------------------------------------------------------------------
(* The two ends have different parities, so a nonce tells who counted it   *)
(* and how far (send_nonce, recv_nonce).                                   *)
LEMMA NoncesTell ==
  ASSUME NEW e \in Ends, NEW f \in Ends, NEW m \in Nat, NEW n \in Nat, Nonce(e, m) = Nonce(f, n)
  PROVE  e = f /\ m = n
  BY SMT DEF Nonce, Parity, Ends

(* The key of a connection tells which connection it is of.                *)
LEMMA KeysTell ==
  ASSUME NEW c, NEW d, KeyOf(c) = KeyOf(d)
  PROVE  c = d
  <1>1. <<c, "dial">> \in KeyOf(d)  BY DEF KeyOf
  <1>2. <<c, "dial">> = <<d, "dial">> \/ <<c, "dial">> = <<d, "serve">>  BY <1>1 DEF KeyOf
  <1> QED  BY <1>2

LEMMA Sides ==
  ASSUME NEW e \in Ends
  PROVE  Other(e) \in Ends /\ Other(e) # e /\ Other(Other(e)) = e
  BY DEF Ends, Other

(* The invariant says what NoncesOnce and FramesOpen say.                  *)
LEMMA InvariantImplies ==
  ASSUME ChannelInv
  PROVE  NoncesOnce /\ FramesOpen
  <1>1. NoncesOnce
    <2> SUFFICES ASSUME NEW x \in sealed, NEW y \in sealed, x.key = y.key, x.nonce = y.nonce
                 PROVE  x = y
      BY DEF NoncesOnce
    <2>1. PICK c \in Conns, e \in Ends, m \in Nat : Counted(x, c, e, m)
      BY DEF ChannelInv, SealedOK
    <2>2. PICK d \in Conns, f \in Ends, n \in Nat : Counted(y, d, f, n)
      BY DEF ChannelInv, SealedOK
    <2>3. c = d  BY <2>1, <2>2, KeysTell DEF Counted
    <2>4. Nonce(e, m) = Nonce(f, n)  BY <2>1, <2>2 DEF Counted
    <2>5. e = f  BY <2>4, NoncesTell
    <2>6. x.by = y.by  BY <2>1, <2>2, <2>3, <2>5 DEF Counted
    <2> QED  BY <2>6 DEF ChannelInv, SealedOK
  <1>2. FramesOpen
    <2> SUFFICES ASSUME NEW c \in Conns, NEW e \in Ends, ends[c][e].stage = "ready", Arrived(c, e)
                 PROVE  Opens(c, e)
      BY DEF FramesOpen
    <2>1. LinkOK(c, stream[c], ends[c], wire[c])  BY DEF ChannelInv, LinksOK
    <2>2. InOrder(c, Other(e), stream[c], ends[c][Other(e)], ends[c][e], wire[c][Other(e)])
      BY <2>1, Sides DEF LinkOK
    <2>3. wire[c][Other(e)] \in Seq(Messages) /\ ends[c][e] \in EndStates
      BY <2>1, Sides DEF LinkOK, LinkTypeOK
    <2>4. 1 \in 1 .. Len(wire[c][Other(e)]) /\ FirstFrame(c, e) = wire[c][Other(e)][1]
      BY <2>3 DEF Arrived, FirstFrame
    <2>5. ends[c][e].received \in Nat /\ NextRead(ends[c][e]) = ends[c][e].received
      BY <2>3 DEF EndStates, NextRead
    <2>6. IsMessage(c, Other(e), FirstFrame(c, e), NextRead(ends[c][e]) + 1 - 1)
      BY <2>2, <2>4, Sides DEF InOrder, Run
    <2>7. FirstFrame(c, e).kind = "frame" /\ FirstFrame(c, e).key = KeyOf(c)
          /\ FirstFrame(c, e).nonce = Nonce(Other(e), ends[c][e].received)
      BY <2>5, <2>6 DEF IsMessage
    <2>8. ends[c][e].key = KeyOf(c)  BY <2>1 DEF LinkOK, EndOK
    <2> QED  BY <2>7, <2>8 DEF Opens
  <1> QED  BY <1>1, <1>2

-------------------------------------------------------------------------------
LEMMA RunAppend ==
  ASSUME NEW c, NEW e, NEW M, NEW s \in Seq(M), NEW m \in M, NEW k \in Int, k >= -1,
         Run(c, e, s, k), IsMessage(c, e, m, k + Len(s))
  PROVE  Append(s, m) \in Seq(M) /\ Len(Append(s, m)) = Len(s) + 1 /\ Run(c, e, Append(s, m), k)
  <1>1. Append(s, m) \in Seq(M) /\ Len(Append(s, m)) = Len(s) + 1
    OBVIOUS
  <1>2. ASSUME NEW i \in 1 .. Len(Append(s, m))
        PROVE  IsMessage(c, e, Append(s, m)[i], k + i - 1)
    <2>1. CASE i \in 1 .. Len(s)
      <3>1. Append(s, m)[i] = s[i]  BY <2>1
      <3> QED  BY <2>1, <3>1 DEF Run
    <2>2. CASE i = Len(s) + 1
      <3>1. Append(s, m)[i] = m /\ k + i - 1 = k + Len(s)  BY <2>2
      <3> QED  BY <3>1
    <2> QED  BY <1>1, <2>1, <2>2
  <1> QED  BY <1>1, <1>2 DEF Run

LEMMA RunTail ==
  ASSUME NEW c, NEW e, NEW M, NEW s \in Seq(M), s # <<>>, NEW k \in Int, k >= -1, Run(c, e, s, k)
  PROVE  /\ Tail(s) \in Seq(M) /\ Len(Tail(s)) = Len(s) - 1 /\ Run(c, e, Tail(s), k + 1)
         /\ Head(s) \in M /\ IsMessage(c, e, Head(s), k)
  <1>1. Tail(s) \in Seq(M) /\ Len(Tail(s)) = Len(s) - 1 /\ Head(s) = s[1] /\ Head(s) \in M
        /\ 1 \in 1 .. Len(s)
    OBVIOUS
  <1>2. IsMessage(c, e, Head(s), k)
    <2>1. IsMessage(c, e, s[1], k + 1 - 1)  BY <1>1 DEF Run
    <2>2. k + 1 - 1 = k  OBVIOUS
    <2> QED  BY <1>1, <2>1, <2>2
  <1>3. ASSUME NEW i \in 1 .. Len(Tail(s))
        PROVE  IsMessage(c, e, Tail(s)[i], k + 1 + i - 1)
    <2>1. i + 1 \in 1 .. Len(s) /\ Tail(s)[i] = s[i + 1]  BY <1>1
    <2>2. IsMessage(c, e, s[i + 1], k + (i + 1) - 1)  BY <2>1 DEF Run
    <2>3. k + (i + 1) - 1 = k + 1 + i - 1  OBVIOUS
    <2> QED  BY <2>1, <2>2, <2>3
  <1> QED  BY <1>1, <1>2, <1>3 DEF Run

LEMMA RunEmpty ==
  ASSUME NEW c, NEW e, NEW M, NEW k
  PROVE  <<>> \in Seq(M) /\ Len(<<>>) = 0 /\ Run(c, e, <<>>, k)
  BY DEF Run

Extended(st, r, s, m) == IF st = "cut" \/ r.stage = "closed" THEN s ELSE Append(s, m)
HasWritten(w, x) ==
  w.stage # "closed" /\ (x.stage = "closed" \/ NextWritten(x) = NextWritten(w) + 1)

(* One direction of a connection: its writer writes, moves on without      *)
(* writing, or takes what it has written with it.                          *)
LEMMA WriterWrites ==
  ASSUME NEW c, NEW e, NEW st, NEW w \in EndStates, NEW r \in EndStates, NEW x \in EndStates,
         NEW s \in Seq(Messages), NEW m \in Messages, NEW t,
         InOrder(c, e, st, w, r, s), IsMessage(c, e, m, NextWritten(w)),
         HasWritten(w, x), t = Extended(st, r, s, m)
  PROVE  t \in Seq(Messages) /\ InOrder(c, e, st, x, r, t)
  <1>1. NextRead(r) \in Int /\ NextRead(r) >= -1  BY DEF NextRead, EndStates
  <1>2. CASE st = "cut" \/ r.stage = "closed"
    BY <1>2 DEF InOrder, Extended, HasWritten
  <1>3. CASE ~(st = "cut" \/ r.stage = "closed")
    <2>1. NextRead(r) + Len(s) = NextWritten(w) /\ Run(c, e, s, NextRead(r))
      BY <1>3 DEF InOrder, HasWritten
    <2>2. t \in Seq(Messages) /\ Len(t) = Len(s) + 1 /\ Run(c, e, t, NextRead(r))
      BY <1>1, <1>3, <2>1, RunAppend DEF Extended
    <2>3. x.stage # "closed" => NextRead(r) + Len(t) = NextWritten(x)
      BY <1>1, <2>1, <2>2 DEF HasWritten
    <2> QED  BY <1>3, <2>2, <2>3 DEF InOrder
  <1> QED  BY <1>2, <1>3

LEMMA WriterMovesOn ==
  ASSUME NEW c, NEW e, NEW st, NEW w, NEW r, NEW x, NEW s,
         InOrder(c, e, st, w, r, s), w.stage # "closed",
         x.stage = "closed" \/ NextWritten(x) = NextWritten(w)
  PROVE  InOrder(c, e, st, x, r, s)
  BY DEF InOrder

LEMMA WriterTakesAll ==
  ASSUME NEW c, NEW e, NEW st, NEW r, NEW x, x.stage = "closed" \/ st = "cut"
  PROVE  InOrder(c, e, st, x, r, <<>>)
  BY RunEmpty DEF InOrder

(* Its reader reads, moves on without reading, or is dropped.              *)
LEMMA ReaderSees ==
  ASSUME NEW c, NEW e, NEW st, NEW w \in EndStates, NEW r \in EndStates,
         NEW s \in Seq(Messages), s # <<>>, InOrder(c, e, st, w, r, s)
  PROVE  Head(s) \in Messages /\ IsMessage(c, e, Head(s), NextRead(r))
  <1>1. NextRead(r) \in Int /\ NextRead(r) >= -1
    BY DEF NextRead, EndStates
  <1> QED  BY <1>1, RunTail DEF InOrder

LEMMA ReaderReads ==
  ASSUME NEW c, NEW e, NEW st, NEW w \in EndStates, NEW r \in EndStates, NEW x \in EndStates,
         NEW s \in Seq(Messages), s # <<>>,
         InOrder(c, e, st, w, r, s), x.stage = "ready", x.received = NextRead(r) + 1
  PROVE  Tail(s) \in Seq(Messages) /\ InOrder(c, e, st, w, x, Tail(s))
  <1>1. NextRead(r) \in Int /\ NextRead(r) >= -1 /\ NextRead(x) = NextRead(r) + 1
    BY DEF NextRead, EndStates
  <1>2. /\ Tail(s) \in Seq(Messages) /\ Len(Tail(s)) = Len(s) - 1
        /\ Run(c, e, Tail(s), NextRead(x))
    BY <1>1, RunTail DEF InOrder
  <1>3. r.stage # "closed"  BY DEF InOrder
  <1>4. (st # "cut" /\ w.stage # "closed") => NextRead(r) + Len(s) = NextWritten(w)
    BY <1>3 DEF InOrder
  <1>5. Len(s) \in Nat  OBVIOUS
  <1> QED  BY <1>1, <1>2, <1>4, <1>5 DEF InOrder

LEMMA ReaderMovesOn ==
  ASSUME NEW c, NEW e, NEW st, NEW w, NEW r, NEW x, NEW s,
         InOrder(c, e, st, w, r, s), r.stage # "closed", x.stage # "closed",
         NextRead(x) = NextRead(r)
  PROVE  InOrder(c, e, st, w, x, s)
  BY DEF InOrder

LEMMA ReaderDropped ==
  ASSUME NEW c, NEW e, NEW st, NEW w, NEW x, x.stage = "closed"
  PROVE  InOrder(c, e, st, w, x, <<>>)
  BY RunEmpty DEF InOrder

LEMMA LinkOfEnds ==
  ASSUME NEW c, NEW st, NEW en, NEW wr, NEW e \in Ends, LinkTypeOK(st, en, wr),
         EndOK(c, st, en[e]), EndOK(c, st, en[Other(e)]),
         InOrder(c, e, st, en[e], en[Other(e)], wr[e]),
         InOrder(c, Other(e), st, en[Other(e)], en[e], wr[Other(e)])
  PROVE  LinkOK(c, st, en, wr)
  <1>1. \A f \in Ends : f = e \/ f = Other(e)  BY DEF Ends, Other
  <1>2. Other(Other(e)) = e  BY Sides
  <1> QED  BY <1>1, <1>2 DEF LinkOK

LEMMA EndsOfLink ==
  ASSUME NEW c, NEW st, NEW en, NEW wr, NEW e \in Ends, LinkOK(c, st, en, wr)
  PROVE  /\ LinkTypeOK(st, en, wr)
         /\ en[e] \in EndStates /\ en[Other(e)] \in EndStates
         /\ wr[e] \in Seq(Messages) /\ wr[Other(e)] \in Seq(Messages)
         /\ EndOK(c, st, en[e]) /\ EndOK(c, st, en[Other(e)])
         /\ InOrder(c, e, st, en[e], en[Other(e)], wr[e])
         /\ InOrder(c, Other(e), st, en[Other(e)], en[e], wr[Other(e)])
  <1>1. Other(e) \in Ends /\ Other(Other(e)) = e  BY Sides
  <1>2. LinkTypeOK(st, en, wr)  BY DEF LinkOK
  <1> QED  BY <1>1, <1>2 DEF LinkOK, LinkTypeOK

(* The links are as they should be if each of them is.                     *)
LEMMA LinkByLink ==
  ASSUME stream' = [d \in Conns |-> stream'[d]],
         ends' = [d \in Conns |-> ends'[d]],
         wire' = [d \in Conns |-> wire'[d]],
         \A d \in Conns : LinkOK(d, stream'[d], ends'[d], wire'[d])
  PROVE  LinksOK'
  <1>1. \A d \in Conns : LinkTypeOK(stream'[d], ends'[d], wire'[d])
    BY DEF LinkOK
  <1>2. stream' \in [Conns -> {"none", "open", "cut"}]
    BY <1>1 DEF LinkTypeOK
  <1>3. ends' \in [Conns -> [Ends -> EndStates]]
    BY <1>1 DEF LinkTypeOK
  <1>4. wire' \in [Conns -> [Ends -> Seq(Messages)]]
    BY <1>1 DEF LinkTypeOK
  <1> QED  BY <1>2, <1>3, <1>4 DEF LinksOK

(* An end that counts goes on counting until it is closed, for good.       *)
Onward(x, y) ==
  /\ x.stage = "closed" => y.stage = "closed"
  /\ x.stage = "ready" => y.stage = "closed" \/ (y.stage = "ready" /\ y.sent >= x.sent)

OnwardAll == \A c \in Conns, e \in Ends : Onward(ends[c][e], ends'[c][e])

LEMMA CountedStays ==
  ASSUME LinksOK, LinksOK', NEW x, NEW c \in Conns, NEW e \in Ends, NEW n \in Nat,
         Counted(x, c, e, n), Onward(ends[c][e], ends'[c][e])
  PROVE  Counted(x, c, e, n)'
  <1>1. ends[c][e] \in EndStates /\ ends'[c][e] \in EndStates  BY DEF LinksOK
  <1>2. ends[c][e].sent \in Nat /\ ends'[c][e].sent \in Nat  BY <1>1 DEF EndStates
  <1> QED  BY <1>2 DEF Counted, Onward, Closed

LEMMA SealedStays ==
  ASSUME LinksOK, LinksOK', SealedOK, sealed' = sealed,
         OnwardAll
  PROVE  SealedOK'
  <1>1. ASSUME NEW x \in sealed
        PROVE  \E c \in Conns, e \in Ends, n \in Nat : Counted(x, c, e, n)'
    <2>1. PICK c \in Conns, e \in Ends, n \in Nat : Counted(x, c, e, n)  BY DEF SealedOK
    <2>2. Counted(x, c, e, n)'  BY <2>1, CountedStays DEF OnwardAll
    <2> QED  BY <2>2
  <1> QED  BY <1>1 DEF SealedOK

(* What an end seals next is new.                                          *)
LEMMA SealedGrows ==
  ASSUME LinksOK, LinksOK', SealedOK,
         OnwardAll,
         NEW c \in Conns, NEW e \in Ends, NEW body, Seal(c, e, body),
         Closed(c, e)' \/ (ends'[c][e].stage = "ready" /\ ends'[c][e].sent = ends[c][e].sent + 1)
  PROVE  SealedOK'
  <1>z. PICK z : z = Sealed(c, e, body)  OBVIOUS
  <1>k. PICK k : k = ends[c][e].sent  OBVIOUS
  <1>1. k \in Nat /\ ends[c][e].stage = "ready" /\ ends[c][e].key = KeyOf(c)
    <2>1. ends[c][e] \in EndStates /\ EndOK(c, stream[c], ends[c][e])  BY DEF LinksOK, LinkOK
    <2> QED  BY <1>k, <2>1 DEF EndStates, EndOK, Seal
  <1>2. z.by = <<c, e>> /\ z.key = KeyOf(c) /\ z.nonce = Nonce(e, k)
    BY <1>1, <1>z, <1>k DEF Sealed, NextNonce
  <1>3. Counted(z, c, e, k)'
    BY <1>1, <1>2, <1>k DEF Counted, Closed
  <1>4. ASSUME NEW x \in sealed
        PROVE  /\ \E d \in Conns, f \in Ends, n \in Nat : Counted(x, d, f, n)'
               /\ ~(x.by = z.by /\ x.nonce = z.nonce)
    <2>1. PICK d \in Conns, f \in Ends, n \in Nat : Counted(x, d, f, n)  BY DEF SealedOK
    <2>2. Counted(x, d, f, n)'  BY <2>1, CountedStays DEF OnwardAll
    <2>3. ASSUME x.by = z.by, x.nonce = z.nonce
          PROVE  FALSE
      <3>1. d = c /\ f = e /\ Nonce(f, n) = Nonce(e, k)  BY <1>2, <2>1, <2>3 DEF Counted
      <3>2. n = k  BY <1>1, <3>1, NoncesTell
      <3>3. n < k  BY <1>1, <1>k, <2>1, <3>1 DEF Counted, Closed
      <3> QED  BY <1>1, <3>2, <3>3
    <2> QED  BY <2>2, <2>3
  <1>5. sealed' = sealed \union {z}  BY <1>z DEF Seal
  <1>6. \A x \in sealed' : \E d \in Conns, f \in Ends, n \in Nat : Counted(x, d, f, n)'
    BY <1>1, <1>3, <1>4, <1>5
  <1>7. \A x, y \in sealed' : x.by = y.by /\ x.nonce = y.nonce => x = y
    <2>1. \A x, y \in sealed : x.by = y.by /\ x.nonce = y.nonce => x = y  BY DEF SealedOK
    <2>2. ASSUME NEW x \in sealed', NEW y \in sealed', x.by = y.by, x.nonce = y.nonce
          PROVE  x = y
      <3>1. (x \in sealed \/ x = z) /\ (y \in sealed \/ y = z)  BY <1>5
      <3> QED  BY <1>4, <2>1, <2>2, <3>1
    <2> QED  BY <2>2
  <1> QED  BY <1>6, <1>7 DEF SealedOK

(* A step of end e of connection c, which it leaves as it should be.       *)
EndStep(c, e) ==
  /\ stream' = [stream EXCEPT ![c] = stream'[c]]
  /\ ends' = [ends EXCEPT ![c][e] = ends'[c][e]]
  /\ wire' = [wire EXCEPT ![c][e] = wire'[c][e], ![c][Other(e)] = wire'[c][Other(e)]]

LEMMA EndStepKeeps ==
  ASSUME LinksOK, NEW c \in Conns, NEW e \in Ends, EndStep(c, e),
         stream'[c] \in {"none", "open", "cut"}, stream[c] # "none" => stream'[c] # "none",
         ends'[c][e] \in EndStates, wire'[c][e] \in Seq(Messages),
         wire'[c][Other(e)] \in Seq(Messages), EndOK(c, stream'[c], ends'[c][e]),
         InOrder(c, e, stream'[c], ends'[c][e], ends[c][Other(e)], wire'[c][e]),
         InOrder(c, Other(e), stream'[c], ends[c][Other(e)], ends'[c][e], wire'[c][Other(e)]),
         Onward(ends[c][e], ends'[c][e])
  PROVE  LinksOK' /\ OnwardAll
  <1>1. Other(e) \in Ends /\ Other(e) # e /\ \A f \in Ends : f = e \/ f = Other(e)
    BY DEF Other, Ends
  <1>2. /\ stream \in [Conns -> {"none", "open", "cut"}]
        /\ ends \in [Conns -> [Ends -> EndStates]]
        /\ wire \in [Conns -> [Ends -> Seq(Messages)]]
    BY DEF LinksOK
  <1>3. \A d \in Conns \ {c} : stream'[d] = stream[d] /\ ends'[d] = ends[d] /\ wire'[d] = wire[d]
    BY <1>2 DEF EndStep
  <1>4. ends'[c] \in [Ends -> EndStates] /\ ends'[c][Other(e)] = ends[c][Other(e)]
    BY <1>1, <1>2 DEF EndStep
  <1>5. wire'[c] \in [Ends -> Seq(Messages)]
    <2>1. wire'[c] = [wire[c] EXCEPT ![e] = wire'[c][e], ![Other(e)] = wire'[c][Other(e)]]
      BY <1>1, <1>2 DEF EndStep
    <2> QED  BY <1>1, <1>2, <2>1
  <1>6. EndOK(c, stream'[c], ends[c][Other(e)])
    <2>1. EndOK(c, stream[c], ends[c][Other(e)])  BY <1>1 DEF LinksOK, LinkOK
    <2> QED  BY <2>1 DEF EndOK
  <1>7. LinkOK(c, stream'[c], ends'[c], wire'[c])
    <2>1. LinkTypeOK(stream'[c], ends'[c], wire'[c])  BY <1>4, <1>5 DEF LinkTypeOK
    <2> QED  BY <1>4, <1>6, <2>1, LinkOfEnds
  <1>8. \A d \in Conns : LinkOK(d, stream'[d], ends'[d], wire'[d])
    BY <1>3, <1>7 DEF LinksOK
  <1>9. /\ stream' = [d \in Conns |-> stream'[d]]
        /\ ends' = [d \in Conns |-> ends'[d]]
        /\ wire' = [d \in Conns |-> wire'[d]]
    BY <1>2 DEF EndStep
  <1>10. LinksOK'  BY <1>8, <1>9, LinkByLink
  <1>11. ASSUME NEW d \in Conns, NEW f \in Ends
         PROVE  Onward(ends[d][f], ends'[d][f])
    <2>1. CASE d # c \/ f # e
      <3>1. ends'[d][f] = ends[d][f]  BY <1>1, <1>3, <1>4, <2>1
      <3>2. ends[d][f].sent \in Nat  BY <1>2 DEF EndStates
      <3> QED  BY <3>1, <3>2 DEF Onward
    <2>2. CASE d = c /\ f = e  BY <2>2
    <2> QED  BY <2>1, <2>2
  <1> QED  BY <1>10, <1>11 DEF OnwardAll

-------------------------------------------------------------------------------
(* Every step of a channel keeps the invariant.                            *)
EndFacts(c, e) ==
  /\ stream \in [Conns -> {"none", "open", "cut"}]
  /\ ends \in [Conns -> [Ends -> EndStates]]
  /\ wire \in [Conns -> [Ends -> Seq(Messages)]]
  /\ ends[c][e] \in EndStates /\ ends[c][Other(e)] \in EndStates
  /\ wire[c][e] \in Seq(Messages) /\ wire[c][Other(e)] \in Seq(Messages)
  /\ EndOK(c, stream[c], ends[c][e]) /\ EndOK(c, stream[c], ends[c][Other(e)])
  /\ InOrder(c, e, stream[c], ends[c][e], ends[c][Other(e)], wire[c][e])
  /\ InOrder(c, Other(e), stream[c], ends[c][Other(e)], ends[c][e], wire[c][Other(e)])

LEMMA TypesOfLinks ==
  ASSUME LinksOK, NEW c \in Conns, NEW e \in Ends
  PROVE  EndFacts(c, e)
  <1>1. LinkOK(c, stream[c], ends[c], wire[c])  BY DEF LinksOK
  <1>2. /\ ends[c][e] \in EndStates /\ ends[c][Other(e)] \in EndStates
        /\ wire[c][e] \in Seq(Messages) /\ wire[c][Other(e)] \in Seq(Messages)
        /\ EndOK(c, stream[c], ends[c][e]) /\ EndOK(c, stream[c], ends[c][Other(e)])
        /\ InOrder(c, e, stream[c], ends[c][e], ends[c][Other(e)], wire[c][e])
        /\ InOrder(c, Other(e), stream[c], ends[c][Other(e)], ends[c][e], wire[c][Other(e)])
    BY <1>1, EndsOfLink
  <1> QED  BY <1>2 DEF LinksOK, EndFacts

StepTo(c, e, x, t, u) ==
  /\ stream' = stream
  /\ ends' = [ends EXCEPT ![c][e] = x]
  /\ wire' = [wire EXCEPT ![c][e] = t, ![c][Other(e)] = u]

LEMMA StepKeeps ==
  ASSUME LinksOK, NEW c \in Conns, NEW e \in Ends, NEW x \in EndStates,
         NEW t \in Seq(Messages), NEW u \in Seq(Messages), StepTo(c, e, x, t, u),
         EndOK(c, stream[c], x), Onward(ends[c][e], x),
         InOrder(c, e, stream[c], x, ends[c][Other(e)], t),
         InOrder(c, Other(e), stream[c], ends[c][Other(e)], x, u)
  PROVE  LinksOK' /\ OnwardAll /\ ends'[c][e] = x
  <1>1. Other(e) \in Ends /\ Other(e) # e /\ EndFacts(c, e)  BY Sides, TypesOfLinks
  <1>2. stream'[c] = stream[c] /\ stream' = [stream EXCEPT ![c] = stream'[c]]
    BY <1>1 DEF EndFacts, StepTo
  <1>3. ends'[c][e] = x  BY <1>1 DEF EndFacts, StepTo
  <1>4. wire'[c][e] = t /\ wire'[c][Other(e)] = u  BY <1>1 DEF EndFacts, StepTo
  <1>5. EndStep(c, e)  BY <1>2, <1>3, <1>4 DEF EndStep, StepTo
  <1>6. stream[c] \in {"none", "open", "cut"}  BY <1>1 DEF EndFacts
  <1> QED  BY <1>2, <1>3, <1>4, <1>5, <1>6, EndStepKeeps

LEMMA ConnectKeeps ==
  ASSUME ChannelInv, NEW c \in Conns, Connect(c)
  PROVE  ChannelInv'
  <1>e. PICK e \in Ends : e = "dial"  BY DEF Ends
  <1>x. PICK x : x = [ends[c][e] EXCEPT !.stage = "open"]  OBVIOUS
  <1>1. Other(e) \in Ends /\ Other(e) # e  BY <1>e DEF Ends, Other
  <1>2. LinksOK /\ SealedOK /\ EndFacts(c, e)  BY TypesOfLinks DEF ChannelInv
  <1>3. /\ stream' = [stream EXCEPT ![c] = "open"] /\ stream[c] = "none"
        /\ ends' = [ends EXCEPT ![c][e].stage = "open"]
        /\ wire' = wire /\ sealed' = sealed
    BY <1>e DEF Connect
  <1>4. ends'[c][e] = x /\ stream'[c] = "open" /\ EndStep(c, e)
    BY <1>1, <1>2, <1>3, <1>x DEF EndStep, EndFacts
  <1>5. ends[c][e].stage = "none" /\ ends[c][Other(e)].stage = "none"
    BY <1>2, <1>3 DEF EndOK, EndFacts
  <1>6. x \in EndStates /\ x.stage = "open" /\ x.sent = 0
    BY <1>2, <1>5, <1>x DEF EndStates, Stages, EndOK, EndFacts
  <1>7. /\ NextRead(x) = NextRead(ends[c][e]) /\ NextWritten(x) = NextWritten(ends[c][e])
        /\ x.stage # "closed" /\ ends[c][e].stage # "closed"
    BY <1>5, <1>6 DEF NextRead, NextWritten
  <1>8. /\ InOrder(c, e, "open", x, ends[c][Other(e)], wire[c][e])
        /\ InOrder(c, Other(e), "open", ends[c][Other(e)], x, wire[c][Other(e)])
    BY <1>2, <1>3, <1>7 DEF InOrder, EndFacts
  <1>9. EndOK(c, "open", x) /\ Onward(ends[c][e], x)
    BY <1>5, <1>6 DEF EndOK, Onward
  <1>10. LinksOK' /\ OnwardAll
    BY <1>2, <1>3, <1>4, <1>6, <1>8, <1>9, EndStepKeeps DEF EndFacts
  <1> QED  BY <1>2, <1>3, <1>10, SealedStays DEF ChannelInv

LEMMA OfferHelloKeeps ==
  ASSUME ChannelInv, NEW c \in Conns, NEW id \in Ids, OfferHello(c, id)
  PROVE  ChannelInv'
  <1>e. PICK e \in Ends : e = "dial"  BY DEF Ends
  <1>x. PICK x : x = [ends[c][e] EXCEPT !.stage = "offered"]  OBVIOUS
  <1>t. PICK t : t = Written(c, e, Hello(c, e, id))  OBVIOUS
  <1>1. Other(e) \in Ends /\ Other(e) # e  BY <1>e DEF Ends, Other
  <1>2. LinksOK /\ SealedOK /\ EndFacts(c, e)  BY TypesOfLinks DEF ChannelInv
  <1>3. /\ ends[c][e].stage = "open"
        /\ ends' = [ends EXCEPT ![c][e].stage = "offered"]
        /\ wire' = [wire EXCEPT ![c][e] = t]
        /\ stream' = stream /\ sealed' = sealed
    BY <1>e, <1>t DEF OfferHello
  <1>4. StepTo(c, e, x, t, wire[c][Other(e)])
    <2>1. ends' = [ends EXCEPT ![c][e] = x]  BY <1>2, <1>3, <1>x DEF EndFacts
    <2>2. wire' = [wire EXCEPT ![c][e] = t, ![c][Other(e)] = wire[c][Other(e)]]
      BY <1>1, <1>2, <1>3 DEF EndFacts
    <2> QED  BY <1>3, <2>1, <2>2 DEF StepTo
  <1>5. ends[c][e].stage # "none" /\ ends[c][e].sent = 0 /\ stream[c] # "none"
    BY <1>2, <1>3 DEF EndOK, EndFacts
  <1>6. x \in EndStates /\ x.stage = "offered" /\ x.sent = 0
    BY <1>2, <1>5, <1>x DEF EndStates, Stages, EndFacts
  <1>7. Hello(c, e, id) \in Messages /\ IsMessage(c, e, Hello(c, e, id), NextWritten(ends[c][e]))
    BY <1>3 DEF Hello, Messages, Hellos, Draws, Ephemeral, IsMessage, NextWritten
  <1>8. t = Extended(stream[c], ends[c][Other(e)], wire[c][e], Hello(c, e, id))
    BY <1>t DEF Written, Broken, Closed, Extended
  <1>9. HasWritten(ends[c][e], x)  BY <1>3, <1>6 DEF NextWritten, HasWritten
  <1>10. t \in Seq(Messages) /\ InOrder(c, e, stream[c], x, ends[c][Other(e)], t)
    <2>1. ends[c][e].stage # "closed"  BY <1>3
    <2>2. /\ ends[c][e] \in EndStates /\ ends[c][Other(e)] \in EndStates
          /\ wire[c][e] \in Seq(Messages)
          /\ InOrder(c, e, stream[c], ends[c][e], ends[c][Other(e)], wire[c][e])
      BY <1>2 DEF EndFacts
    <2> QED  BY <1>6, <1>7, <1>8, <1>9, <2>1, <2>2, WriterWrites
  <1>11. InOrder(c, Other(e), stream[c], ends[c][Other(e)], x, wire[c][Other(e)])
    <2>1. NextRead(x) = NextRead(ends[c][e])  BY <1>3, <1>6 DEF NextRead
    <2> QED  BY <1>2, <1>3, <1>6, <2>1, ReaderMovesOn DEF EndFacts
  <1>12. EndOK(c, stream[c], x) /\ Onward(ends[c][e], x)
    BY <1>3, <1>5, <1>6 DEF EndOK, Onward
  <1>13. LinksOK' /\ OnwardAll
    <2>1. wire[c][Other(e)] \in Seq(Messages)  BY <1>2 DEF EndFacts
    <2> QED  BY <1>2, <1>4, <1>6, <1>10, <1>11, <1>12, <2>1, StepKeeps
  <1> QED  BY <1>2, <1>3, <1>13, SealedStays DEF ChannelInv

(* What an end makes of the hello that it reads: the key of the connection. *)
ReadyEnd(c, e, m) ==
  [NewEnd EXCEPT !.stage = "ready", !.peer = m.id,
                 !.key = SessionKey(Ephemeral(c, e), m.ephemeral)]

LEMMA KeyAgreed ==
  ASSUME NEW c \in Conns, NEW e \in Ends, NEW m \in Messages, IsMessage(c, Other(e), m, -1),
         NEW x, x = ReadyEnd(c, e, m)
  PROVE  /\ x \in EndStates /\ x.stage = "ready" /\ x.key = KeyOf(c)
         /\ x.sent = 0 /\ x.received = 0 /\ x.peer = m.id
  <1>1. m.kind = "hello" /\ m.ephemeral = <<c, Other(e)>>  BY DEF IsMessage
  <1>2. m.id \in Ids  BY <1>1 DEF Messages, Hellos, Frames
  <1>3. SessionKey(Ephemeral(c, e), m.ephemeral) = KeyOf(c)
    BY <1>1 DEF SessionKey, Ephemeral, KeyOf, Other, Ends
  <1>4. KeyOf(c) \in SUBSET Draws  BY DEF KeyOf, Draws, Ends
  <1> QED  BY <1>2, <1>3, <1>4 DEF ReadyEnd, NewEnd, EndStates, Stages, NoKey, Nobody

LEMMA AnswerHelloKeeps ==
  ASSUME ChannelInv, NEW c \in Conns, NEW id \in Ids, AnswerHello(c, id)
  PROVE  ChannelInv' /\ ends'[c]["serve"].peer = FirstFrame(c, "serve").id
  <1>e. PICK e \in Ends : e = "serve"  BY DEF Ends
  <1>m. PICK m : m = FirstFrame(c, e)  OBVIOUS
  <1>x. PICK x : x = ReadyEnd(c, e, m)  OBVIOUS
  <1>t. PICK t : t = Written(c, e, Hello(c, e, id))  OBVIOUS
  <1>1. Other(e) \in Ends /\ Other(e) # e /\ Other(Other(e)) = e /\ Other(e) = "dial"
    BY <1>e DEF Ends, Other
  <1>2. LinksOK /\ SealedOK /\ EndFacts(c, e)  BY TypesOfLinks DEF ChannelInv
  <1>3. /\ stream[c] # "none" /\ ends[c][e].stage = "none" /\ wire[c][Other(e)] # <<>>
        /\ m = Head(wire[c][Other(e)])
        /\ ends' = [ends EXCEPT ![c][e] = x]
        /\ wire' = [wire EXCEPT ![c][Other(e)] = Tail(@), ![c][e] = t]
        /\ stream' = stream /\ sealed' = sealed
    BY <1>e, <1>m, <1>x, <1>t, <1>1 DEF AnswerHello, Ready, ReadyEnd, Arrived, FirstFrame
  <1>4. StepTo(c, e, x, t, Tail(wire[c][Other(e)]))
    <2>1. wire' = [wire EXCEPT ![c][e] = t, ![c][Other(e)] = Tail(wire[c][Other(e)])]
      BY <1>1, <1>2, <1>3 DEF EndFacts
    <2> QED  BY <1>3, <2>1 DEF StepTo
  <1>5. NextRead(ends[c][e]) = -1 /\ NextWritten(ends[c][e]) = -1 /\ ends[c][e].stage # "closed"
    BY <1>3 DEF NextRead, NextWritten
  <1>6. m \in Messages /\ IsMessage(c, Other(e), m, -1)
    BY <1>2, <1>3, <1>5, ReaderSees DEF EndFacts
  <1>7. /\ x \in EndStates /\ x.stage = "ready" /\ x.key = KeyOf(c)
        /\ x.sent = 0 /\ x.received = 0 /\ x.peer = m.id
    BY <1>6, <1>x, KeyAgreed
  <1>8. Hello(c, e, id) \in Messages /\ IsMessage(c, e, Hello(c, e, id), NextWritten(ends[c][e]))
    BY <1>5 DEF Hello, Messages, Hellos, Draws, Ephemeral, IsMessage
  <1>9. t = Extended(stream[c], ends[c][Other(e)], wire[c][e], Hello(c, e, id))
    BY <1>t DEF Written, Broken, Closed, Extended
  <1>10. HasWritten(ends[c][e], x)  BY <1>5, <1>7 DEF NextWritten, HasWritten
  <1>11. t \in Seq(Messages) /\ InOrder(c, e, stream[c], x, ends[c][Other(e)], t)
    BY <1>2, <1>7, <1>8, <1>9, <1>10, WriterWrites DEF EndFacts
  <1>12. /\ Tail(wire[c][Other(e)]) \in Seq(Messages)
         /\ InOrder(c, Other(e), stream[c], ends[c][Other(e)], x, Tail(wire[c][Other(e)]))
    <2>1. x.received = NextRead(ends[c][e]) + 1  BY <1>5, <1>7
    <2> QED  BY <1>2, <1>3, <1>7, <2>1, ReaderReads DEF EndFacts
  <1>13. EndOK(c, stream[c], x) /\ Onward(ends[c][e], x)
    BY <1>3, <1>7 DEF EndOK, Onward
  <1>14. LinksOK' /\ OnwardAll /\ ends'[c][e] = x
    <2>1. PICK u : u = Tail(wire[c][Other(e)])  OBVIOUS
    <2>2. /\ u \in Seq(Messages) /\ StepTo(c, e, x, t, u)
          /\ InOrder(c, Other(e), stream[c], ends[c][Other(e)], x, u)
      BY <1>4, <1>12, <2>1
    <2> QED  BY <1>2, <1>7, <1>11, <1>13, <2>2, StepKeeps
  <1> QED  BY <1>e, <1>m, <1>2, <1>3, <1>7, <1>14, SealedStays DEF ChannelInv

LEMMA FinishHelloKeeps ==
  ASSUME ChannelInv, NEW c \in Conns, NEW pin, FinishHello(c, pin)
  PROVE  ChannelInv'
  <1>e. PICK e \in Ends : e = "dial"  BY DEF Ends
  <1>m. PICK m : m = FirstFrame(c, e)  OBVIOUS
  <1>x. PICK x : x = ReadyEnd(c, e, m)  OBVIOUS
  <1>1. Other(e) \in Ends /\ Other(e) # e /\ Other(Other(e)) = e /\ Other(e) = "serve"
    BY <1>e DEF Ends, Other
  <1>2. LinksOK /\ SealedOK /\ EndFacts(c, e)  BY TypesOfLinks DEF ChannelInv
  <1>3. /\ ends[c][e].stage = "offered" /\ wire[c][Other(e)] # <<>>
        /\ m = Head(wire[c][Other(e)])
        /\ ends' = [ends EXCEPT ![c][e] = x]
        /\ wire' = [wire EXCEPT ![c][Other(e)] = Tail(@)]
        /\ stream' = stream /\ sealed' = sealed
    BY <1>e, <1>m, <1>x, <1>1 DEF FinishHello, AwaitsHello, Ready, ReadyEnd, Arrived, FirstFrame
  <1>4. StepTo(c, e, x, wire[c][e], Tail(wire[c][Other(e)]))
    <2>1. wire' = [wire EXCEPT ![c][e] = wire[c][e], ![c][Other(e)] = Tail(wire[c][Other(e)])]
      BY <1>1, <1>2, <1>3 DEF EndFacts
    <2> QED  BY <1>3, <2>1 DEF StepTo
  <1>5. NextRead(ends[c][e]) = -1 /\ NextWritten(ends[c][e]) = 0 /\ ends[c][e].stage # "closed"
    BY <1>3 DEF NextRead, NextWritten
  <1>6. m \in Messages /\ IsMessage(c, Other(e), m, -1)
    BY <1>2, <1>3, <1>5, ReaderSees DEF EndFacts
  <1>7. /\ x \in EndStates /\ x.stage = "ready" /\ x.key = KeyOf(c)
        /\ x.sent = 0 /\ x.received = 0
    BY <1>6, <1>x, KeyAgreed
  <1>8. InOrder(c, e, stream[c], x, ends[c][Other(e)], wire[c][e])
    <2>1. NextWritten(x) = NextWritten(ends[c][e])  BY <1>5, <1>7 DEF NextWritten
    <2> QED  BY <1>2, <1>5, <2>1, WriterMovesOn DEF EndFacts
  <1>9. /\ Tail(wire[c][Other(e)]) \in Seq(Messages)
        /\ InOrder(c, Other(e), stream[c], ends[c][Other(e)], x, Tail(wire[c][Other(e)]))
    <2>1. x.received = NextRead(ends[c][e]) + 1  BY <1>5, <1>7
    <2> QED  BY <1>2, <1>3, <1>7, <2>1, ReaderReads DEF EndFacts
  <1>10. EndOK(c, stream[c], x) /\ Onward(ends[c][e], x)
    BY <1>2, <1>3, <1>7 DEF EndOK, Onward, EndFacts
  <1>11. LinksOK' /\ OnwardAll
    <2>1. wire[c][e] \in Seq(Messages)  BY <1>2 DEF EndFacts
    <2> QED  BY <1>2, <1>4, <1>7, <1>8, <1>9, <1>10, <2>1, StepKeeps
  <1> QED  BY <1>2, <1>3, <1>11, SealedStays DEF ChannelInv

(* What a ready end sends is the message that it writes next.              *)
FrameOf(c, e, body) == Frame(ends[c][e].key, NextNonce(c, e), body)
LEMMA FrameIsNext ==
  ASSUME LinksOK, NEW c \in Conns, NEW e \in Ends, NEW body \in Bodies,
         ends[c][e].stage = "ready"
  PROVE  /\ FrameOf(c, e, body) \in Messages
         /\ IsMessage(c, e, FrameOf(c, e, body), NextWritten(ends[c][e]))
         /\ NextWritten(ends[c][e]) = ends[c][e].sent
  <1>1. EndFacts(c, e)  BY TypesOfLinks
  <1>2. ends[c][e].sent \in Nat  BY <1>1 DEF EndFacts, EndStates
  <1>3. ends[c][e].key = KeyOf(c)  BY <1>1 DEF EndFacts, EndOK
  <1>4. NextWritten(ends[c][e]) = ends[c][e].sent  BY DEF NextWritten
  <1>5. KeyOf(c) \in SUBSET Draws  BY DEF KeyOf, Draws, Ends
  <1>6. Nonce(e, ends[c][e].sent) \in Nat  BY <1>2, SMT DEF Nonce, Parity
  <1>7. FrameOf(c, e, body) = Frame(KeyOf(c), Nonce(e, ends[c][e].sent), body)
    BY <1>3 DEF FrameOf, NextNonce
  <1>8. FrameOf(c, e, body) \in Messages
    BY <1>5, <1>6, <1>7 DEF Messages, Frames, Frame
  <1>9. IsMessage(c, e, FrameOf(c, e, body), ends[c][e].sent)
    BY <1>2, <1>7 DEF IsMessage, Frame
  <1> QED  BY <1>4, <1>8, <1>9

AfterSend(w) == [w EXCEPT !.sent = @ + 1]
AfterReceive(w) == [w EXCEPT !.received = @ + 1]

LEMMA EndCounts ==
  ASSUME NEW w \in EndStates
  PROVE  /\ AfterSend(w) \in EndStates /\ AfterSend(w).stage = w.stage
         /\ AfterSend(w).key = w.key /\ AfterSend(w).sent = w.sent + 1
         /\ AfterSend(w).received = w.received
         /\ AfterReceive(w) \in EndStates /\ AfterReceive(w).stage = w.stage
         /\ AfterReceive(w).key = w.key /\ AfterReceive(w).sent = w.sent
         /\ AfterReceive(w).received = w.received + 1
         /\ w.sent \in Nat /\ w.received \in Nat
  BY DEF EndStates, AfterSend, AfterReceive

LEMMA SendKeeps ==
  ASSUME ChannelInv, NEW c \in Conns, NEW e \in Ends, NEW body \in Bodies, Send(c, e, body)
  PROVE  ChannelInv'
  <1>x. PICK x : x = AfterSend(ends[c][e])  OBVIOUS
  <1>t. PICK t : t = Written(c, e, FrameOf(c, e, body))  OBVIOUS
  <1>1. Other(e) \in Ends /\ Other(e) # e  BY Sides
  <1>2. LinksOK /\ SealedOK /\ EndFacts(c, e)  BY TypesOfLinks DEF ChannelInv
  <1>3. /\ Seal(c, e, body) /\ ends[c][e].stage = "ready"
        /\ ends' = [ends EXCEPT ![c][e].sent = @ + 1]
        /\ wire' = [wire EXCEPT ![c][e] = t]
        /\ stream' = stream
    BY <1>t DEF Send, Seal, FrameOf
  <1>4. StepTo(c, e, x, t, wire[c][Other(e)])
    <2>1. ends' = [ends EXCEPT ![c][e] = x]  BY <1>2, <1>3, <1>x DEF EndFacts, AfterSend, AfterReceive
    <2>2. wire' = [wire EXCEPT ![c][e] = t, ![c][Other(e)] = wire[c][Other(e)]]
      BY <1>1, <1>2, <1>3 DEF EndFacts
    <2> QED  BY <1>3, <2>1, <2>2 DEF StepTo
  <1>5. /\ FrameOf(c, e, body) \in Messages
        /\ IsMessage(c, e, FrameOf(c, e, body), NextWritten(ends[c][e]))
        /\ NextWritten(ends[c][e]) = ends[c][e].sent
    BY <1>2, <1>3, FrameIsNext
  <1>6. /\ x \in EndStates /\ x.stage = "ready" /\ x.sent = ends[c][e].sent + 1
        /\ x.received = ends[c][e].received /\ x.key = ends[c][e].key
        /\ ends[c][e].sent \in Nat
    <2>1. ends[c][e] \in EndStates  BY <1>2 DEF EndFacts
    <2> QED  BY <1>3, <1>x, <2>1, EndCounts
  <1>7. t = Extended(stream[c], ends[c][Other(e)], wire[c][e], FrameOf(c, e, body))
    BY <1>t DEF Written, Broken, Closed, Extended
  <1>8. HasWritten(ends[c][e], x)  BY <1>3, <1>5, <1>6 DEF NextWritten, HasWritten
  <1>9. t \in Seq(Messages) /\ InOrder(c, e, stream[c], x, ends[c][Other(e)], t)
    BY <1>2, <1>5, <1>6, <1>7, <1>8, WriterWrites DEF EndFacts
  <1>10. InOrder(c, Other(e), stream[c], ends[c][Other(e)], x, wire[c][Other(e)])
    <2>1. NextRead(x) = NextRead(ends[c][e])  BY <1>3, <1>6 DEF NextRead
    <2>2. ends[c][e].stage # "closed" /\ x.stage # "closed"  BY <1>3, <1>6
    <2> QED  BY <1>2, <2>1, <2>2, ReaderMovesOn DEF EndFacts
  <1>11. EndOK(c, stream[c], x) /\ Onward(ends[c][e], x)
    BY <1>2, <1>3, <1>6 DEF EndOK, Onward, EndFacts
  <1>12. LinksOK' /\ OnwardAll /\ ends'[c][e] = x
    <2>1. wire[c][Other(e)] \in Seq(Messages)  BY <1>2 DEF EndFacts
    <2> QED  BY <1>2, <1>4, <1>6, <1>9, <1>10, <1>11, <2>1, StepKeeps
  <1>13. SealedOK'
    BY <1>2, <1>3, <1>6, <1>12, SealedGrows
  <1> QED  BY <1>12, <1>13 DEF ChannelInv

LEMMA ReceiveKeeps ==
  ASSUME ChannelInv, NEW c \in Conns, NEW e \in Ends, Receive(c, e)
  PROVE  ChannelInv'
  <1>x. PICK x : x = AfterReceive(ends[c][e])  OBVIOUS
  <1>u. PICK u : u = Tail(wire[c][Other(e)])  OBVIOUS
  <1>1. Other(e) \in Ends /\ Other(e) # e  BY Sides
  <1>2. LinksOK /\ SealedOK /\ EndFacts(c, e)  BY TypesOfLinks DEF ChannelInv
  <1>3. /\ ends[c][e].stage = "ready" /\ wire[c][Other(e)] # <<>>
        /\ ends' = [ends EXCEPT ![c][e].received = @ + 1]
        /\ wire' = [wire EXCEPT ![c][Other(e)] = Tail(@)]
        /\ stream' = stream /\ sealed' = sealed
    BY DEF Receive, Opens, Arrived
  <1>4. StepTo(c, e, x, wire[c][e], u)
    <2>1. ends' = [ends EXCEPT ![c][e] = x]  BY <1>2, <1>3, <1>x DEF EndFacts, AfterSend, AfterReceive
    <2>2. wire' = [wire EXCEPT ![c][e] = wire[c][e], ![c][Other(e)] = u]
      BY <1>1, <1>2, <1>3, <1>u DEF EndFacts
    <2> QED  BY <1>3, <2>1, <2>2 DEF StepTo
  <1>5. /\ x \in EndStates /\ x.stage = "ready" /\ x.sent = ends[c][e].sent
        /\ x.received = ends[c][e].received + 1 /\ x.key = ends[c][e].key
        /\ ends[c][e].sent \in Nat
    <2>1. ends[c][e] \in EndStates  BY <1>2 DEF EndFacts
    <2> QED  BY <1>3, <1>x, <2>1, EndCounts
  <1>6. InOrder(c, e, stream[c], x, ends[c][Other(e)], wire[c][e])
    <2>1. NextWritten(x) = NextWritten(ends[c][e]) /\ ends[c][e].stage # "closed"
      BY <1>3, <1>5 DEF NextWritten
    <2> QED  BY <1>2, <2>1, WriterMovesOn DEF EndFacts
  <1>7. u \in Seq(Messages) /\ InOrder(c, Other(e), stream[c], ends[c][Other(e)], x, u)
    <2>1. x.received = NextRead(ends[c][e]) + 1  BY <1>3, <1>5 DEF NextRead
    <2> QED  BY <1>2, <1>3, <1>5, <1>u, <2>1, ReaderReads DEF EndFacts
  <1>8. EndOK(c, stream[c], x) /\ Onward(ends[c][e], x)
    BY <1>2, <1>3, <1>5 DEF EndOK, Onward, EndFacts
  <1>9. LinksOK' /\ OnwardAll
    <2>1. wire[c][e] \in Seq(Messages)  BY <1>2 DEF EndFacts
    <2> QED  BY <1>2, <1>4, <1>5, <1>6, <1>7, <1>8, <2>1, StepKeeps
  <1> QED  BY <1>2, <1>3, <1>9, SealedStays DEF ChannelInv

LEMMA DroppedEnd ==
  ASSUME NEW c \in Conns, NEW st, st # "none"
  PROVE  Dropped \in EndStates /\ Dropped.stage = "closed" /\ EndOK(c, st, Dropped)
  BY DEF Dropped, NewEnd, EndStates, Stages, EndOK, NoKey, Nobody

LEMMA SendLastKeeps ==
  ASSUME ChannelInv, NEW c \in Conns, NEW e \in Ends, NEW body \in Bodies, NEW fits \in BOOLEAN,
         SendLast(c, e, body, fits)
  PROVE  ChannelInv'
  <1>1. Other(e) \in Ends /\ Other(e) # e  BY Sides
  <1>2. LinksOK /\ SealedOK /\ EndFacts(c, e)  BY TypesOfLinks DEF ChannelInv
  <1>t. PICK t : t = Written(c, e, FrameOf(c, e, body))  OBVIOUS
  <1>3. PICK v \in {<<>>, t, wire[c][e]} :
          /\ Seal(c, e, body) /\ ends[c][e].stage = "ready"
          /\ ends' = [ends EXCEPT ![c][e] = Dropped]
          /\ wire' = [wire EXCEPT ![c][e] = v, ![c][Other(e)] = <<>>]
          /\ stream' = stream
    <2>1. PICK reset \in {FALSE, Arrived(c, e)} :
            wire' = [wire EXCEPT
              ![c][e] = IF reset THEN <<>> ELSE IF fits THEN t ELSE @,
              ![c][Other(e)] = <<>>]
      BY <1>t DEF SendLast, FrameOf
    <2>2. PICK v : v = IF reset THEN <<>> ELSE IF fits THEN t ELSE wire[c][e]  OBVIOUS
    <2>3. wire' = [wire EXCEPT ![c][e] = v, ![c][Other(e)] = <<>>]
      BY <1>2, <2>1, <2>2 DEF EndFacts
    <2>4. v \in {<<>>, t, wire[c][e]}  BY <2>2
    <2> QED  BY <2>3, <2>4 DEF SendLast, Seal
  <1>4. PICK x : x = Dropped  OBVIOUS
  <1>5. StepTo(c, e, x, v, <<>>)  BY <1>3, <1>4 DEF StepTo
  <1>6. /\ FrameOf(c, e, body) \in Messages
        /\ IsMessage(c, e, FrameOf(c, e, body), NextWritten(ends[c][e]))
    BY <1>2, <1>3, FrameIsNext
  <1>7. stream[c] # "none"  BY <1>2, <1>3 DEF EndFacts, EndOK
  <1>8. x \in EndStates /\ x.stage = "closed" /\ EndOK(c, stream[c], x)
    BY <1>4, <1>7, DroppedEnd
  <1>9. v \in Seq(Messages) /\ InOrder(c, e, stream[c], x, ends[c][Other(e)], v)
    <2>1. CASE v = <<>>
      BY <1>8, <2>1, WriterTakesAll, RunEmpty
    <2>2. CASE v = t
      <3>1. t = Extended(stream[c], ends[c][Other(e)], wire[c][e], FrameOf(c, e, body))
        BY <1>t DEF Written, Broken, Closed, Extended
      <3>2. HasWritten(ends[c][e], x)  BY <1>3, <1>8 DEF HasWritten
      <3> QED  BY <1>2, <1>6, <1>8, <2>2, <3>1, <3>2, WriterWrites DEF EndFacts
    <2>3. CASE v = wire[c][e]
      <3>1. ends[c][e].stage # "closed"  BY <1>3
      <3> QED  BY <1>2, <1>8, <2>3, <3>1, WriterMovesOn DEF EndFacts
    <2> QED  BY <1>3, <2>1, <2>2, <2>3
  <1>10. <<>> \in Seq(Messages) /\ InOrder(c, Other(e), stream[c], ends[c][Other(e)], x, <<>>)
    BY <1>8, ReaderDropped, RunEmpty
  <1>11. Onward(ends[c][e], x)  BY <1>8 DEF Onward
  <1>12. LinksOK' /\ OnwardAll /\ ends'[c][e] = x
    BY <1>2, <1>5, <1>8, <1>9, <1>10, <1>11, StepKeeps
  <1>13. SealedOK'
    <2>1. Closed(c, e)'  BY <1>8, <1>12 DEF Closed
    <2> QED  BY <1>2, <1>3, <1>12, <2>1, SealedGrows
  <1> QED  BY <1>12, <1>13 DEF ChannelInv

LEMMA CloseAllKeeps ==
  ASSUME ChannelInv, NEW dropped, dropped \subseteq Conns, NEW e \in Ends, CloseAll(dropped, e)
  PROVE  ChannelInv'
  <1>1. Other(e) \in Ends /\ Other(e) # e /\ \A f \in Ends : f = e \/ f = Other(e)
    BY DEF Ends, Other
  <1>2. LinksOK /\ SealedOK  BY DEF ChannelInv
  <1>3. PICK reset :
          /\ stream' = stream /\ sealed' = sealed
          /\ ends' = [c \in Conns |-> IF c \in dropped THEN [ends[c] EXCEPT ![e] = Dropped]
                                      ELSE ends[c]]
          /\ wire' = [c \in Conns |->
                        IF c \in dropped
                        THEN [wire[c] EXCEPT ![Other(e)] = <<>>,
                                             ![e] = IF c \in reset THEN <<>> ELSE @]
                        ELSE wire[c]]
    BY DEF CloseAll
  <1>4. ASSUME NEW c \in Conns, c \notin dropped
        PROVE  /\ LinkOK(c, stream'[c], ends'[c], wire'[c])
               /\ \A f \in Ends : Onward(ends[c][f], ends'[c][f])
    <2>1. stream'[c] = stream[c] /\ ends'[c] = ends[c] /\ wire'[c] = wire[c]  BY <1>3, <1>4
    <2>2. ASSUME NEW f \in Ends PROVE ends[c][f].sent \in Nat
      BY <1>2, TypesOfLinks DEF EndFacts, EndStates
    <2> QED  BY <1>2, <2>1, <2>2 DEF LinksOK, Onward
  <1>5. ASSUME NEW c \in Conns, c \in dropped
        PROVE  /\ LinkOK(c, stream'[c], ends'[c], wire'[c])
               /\ \A f \in Ends : Onward(ends[c][f], ends'[c][f])
    <2>1. EndFacts(c, e)  BY <1>2, TypesOfLinks
    <2>2. stream[c] # "none" /\ ends[c][e].stage # "closed"  BY <1>5 DEF CloseAll, Closed
    <2>3. /\ ends'[c] \in [Ends -> EndStates] /\ ends'[c][e] = Dropped
          /\ ends'[c][Other(e)] = ends[c][Other(e)]
      <3>1. ends'[c] = [ends[c] EXCEPT ![e] = Dropped]  BY <1>3, <1>5
      <3>2. ends[c] \in [Ends -> EndStates]  BY <2>1 DEF EndFacts
      <3> QED  BY <1>1, <2>2, <3>1, <3>2, DroppedEnd
    <2>4. /\ wire'[c] \in [Ends -> Seq(Messages)] /\ wire'[c][Other(e)] = <<>>
          /\ wire'[c][e] = <<>> \/ wire'[c][e] = wire[c][e]
      <3>1. wire'[c] = [wire[c] EXCEPT ![Other(e)] = <<>>,
                                       ![e] = IF c \in reset THEN <<>> ELSE @]
        BY <1>3, <1>5
      <3>2. wire[c] \in [Ends -> Seq(Messages)]  BY <2>1 DEF EndFacts
      <3>3. <<>> \in Seq(Messages)  BY RunEmpty
      <3> QED  BY <1>1, <3>1, <3>2, <3>3
    <2>5. Dropped.stage = "closed" /\ EndOK(c, stream[c], Dropped)  BY <2>2, DroppedEnd
    <2>6. InOrder(c, e, stream[c], Dropped, ends[c][Other(e)], wire'[c][e])
      <3>1. CASE wire'[c][e] = <<>>  BY <2>5, <3>1, WriterTakesAll
      <3>2. CASE wire'[c][e] = wire[c][e]
        BY <2>1, <2>2, <2>5, <3>2, WriterMovesOn DEF EndFacts
      <3> QED  BY <2>4, <3>1, <3>2
    <2>7. InOrder(c, Other(e), stream[c], ends[c][Other(e)], Dropped, wire'[c][Other(e)])
      BY <2>4, <2>5, ReaderDropped
    <2>8. LinkTypeOK(stream[c], ends'[c], wire'[c])
      BY <2>1, <2>3, <2>4 DEF LinkTypeOK, EndFacts
    <2>9. LinkOK(c, stream[c], ends'[c], wire'[c])
      <3>1. EndOK(c, stream[c], ends'[c][e]) /\ EndOK(c, stream[c], ends'[c][Other(e)])
        BY <2>1, <2>3, <2>5 DEF EndFacts
      <3>2. /\ InOrder(c, e, stream[c], ends'[c][e], ends'[c][Other(e)], wire'[c][e])
            /\ InOrder(c, Other(e), stream[c], ends'[c][Other(e)], ends'[c][e], wire'[c][Other(e)])
        BY <2>3, <2>6, <2>7
      <3> QED  BY <2>8, <3>1, <3>2, LinkOfEnds
    <2>10. ends[c][Other(e)].sent \in Nat  BY <2>1 DEF EndFacts, EndStates
    <2>11. \A f \in Ends : Onward(ends[c][f], ends'[c][f])
      BY <1>1, <2>3, <2>5, <2>10 DEF Onward
    <2>12. stream'[c] = stream[c]  BY <1>3
    <2> QED  BY <2>9, <2>11, <2>12
  <1>6. /\ stream' = [c \in Conns |-> stream'[c]]
        /\ ends' = [c \in Conns |-> ends'[c]]
        /\ wire' = [c \in Conns |-> wire'[c]]
    BY <1>2, <1>3 DEF LinksOK
  <1>7. LinksOK'  BY <1>4, <1>5, <1>6, LinkByLink
  <1>8. OnwardAll  BY <1>4, <1>5 DEF OnwardAll
  <1> QED  BY <1>2, <1>3, <1>7, <1>8, SealedStays DEF ChannelInv

LEMMA CutKeeps ==
  ASSUME ChannelInv, NEW c \in Conns, Cut(c)
  PROVE  ChannelInv'
  <1>1. LinksOK /\ SealedOK  BY DEF ChannelInv
  <1>2. PICK lost \in SUBSET Ends :
          /\ stream[c] = "open" /\ stream' = [stream EXCEPT ![c] = "cut"]
          /\ wire' = [wire EXCEPT ![c] = [e \in Ends |-> IF e \in lost THEN <<>> ELSE @[e]]]
          /\ ends' = ends /\ sealed' = sealed
    BY DEF Cut
  <1>3. /\ stream \in [Conns -> {"none", "open", "cut"}]
        /\ ends \in [Conns -> [Ends -> EndStates]]
        /\ wire \in [Conns -> [Ends -> Seq(Messages)]]
    BY <1>1 DEF LinksOK
  <1>4. /\ stream'[c] = "cut" /\ ends'[c] = ends[c]
        /\ wire'[c] \in [Ends -> Seq(Messages)]
        /\ \A e \in Ends : wire'[c][e] = <<>> \/ wire'[c][e] = wire[c][e]
    BY <1>2, <1>3, RunEmpty
  <1>5. LinkOK(c, stream'[c], ends'[c], wire'[c])
    <2>1. ASSUME NEW e \in Ends
          PROVE  /\ EndOK(c, "cut", ends[c][e])
                 /\ InOrder(c, e, "cut", ends[c][e], ends[c][Other(e)], wire'[c][e])
      <3>1. EndFacts(c, e)  BY <1>1, TypesOfLinks
      <3>2. EndOK(c, "cut", ends[c][e])  BY <1>2, <3>1 DEF EndFacts, EndOK
      <3>3. CASE wire'[c][e] = <<>>  BY <3>2, <3>3, WriterTakesAll
      <3>4. CASE wire'[c][e] = wire[c][e]
        BY <3>1, <3>2, <3>4 DEF EndFacts, InOrder
      <3> QED  BY <1>4, <3>2, <3>3, <3>4
    <2>2. LinkTypeOK(stream'[c], ends'[c], wire'[c])  BY <1>3, <1>4 DEF LinkTypeOK
    <2> QED  BY <1>4, <2>1, <2>2 DEF LinkOK
  <1>6. \A d \in Conns : LinkOK(d, stream'[d], ends'[d], wire'[d])
    <2>1. \A d \in Conns \ {c} : stream'[d] = stream[d] /\ ends'[d] = ends[d] /\ wire'[d] = wire[d]
      BY <1>2, <1>3
    <2> QED  BY <1>1, <1>5, <2>1 DEF LinksOK
  <1>7. /\ stream' = [d \in Conns |-> stream'[d]]
        /\ ends' = [d \in Conns |-> ends'[d]]
        /\ wire' = [d \in Conns |-> wire'[d]]
    BY <1>2, <1>3
  <1>8. LinksOK'  BY <1>6, <1>7, LinkByLink
  <1>9. OnwardAll
    <2>1. \A d \in Conns, e \in Ends : ends[d][e].sent \in Nat  BY <1>3 DEF EndStates
    <2> QED  BY <1>2, <2>1 DEF OnwardAll, Onward
  <1> QED  BY <1>1, <1>2, <1>8, <1>9, SealedStays DEF ChannelInv

-------------------------------------------------------------------------------
(* The rest of the program uses its channels as they are meant: with       *)
(* connections that there are, and with messages of the types above.       *)
JoinStates ==
  {"idle", "connected", "hello", "ask", "wait", "refused", "received", "truncated"}
Busy == {"accepted", "refuse", "request", "answer"}
UsesOK ==
  /\ idFile \in Int /\ generated \in Nat /\ loaded \in [Procs -> Int]
  /\ version \in Int
  /\ server \in Busy => serving \in Conns
  /\ conn \in [Peers -> Conns \union {None}]
  /\ \A p \in Peers : join[p] # "idle" => conn[p] \in Conns
  /\ join \in [Peers -> JoinStates]

LEMMA UsesInit == ServeInit => UsesOK
  <1> SUFFICES ASSUME ServeInit PROVE UsesOK
    OBVIOUS
  <1>1. idFile \in Int /\ generated \in Nat /\ loaded \in [Procs -> Int] /\ version \in Int
    BY DEF ServeInit, IdentityInit, Missing
  <1>2. server \notin Busy  BY DEF ServeInit, Busy
  <1>3. /\ conn \in [Peers -> Conns \union {None}] /\ join \in [Peers -> JoinStates]
        /\ \A p \in Peers : join[p] = "idle"
    BY DEF ServeInit, JoinStates
  <1> QED  BY <1>1, <1>2, <1>3 DEF UsesOK

LEMMA LoadKeepsTypes ==
  ASSUME idFile \in Int, generated \in Nat, loaded \in [Procs -> Int], NEW q \in Procs,
         LoadIdentity(q) \/ TruncateIdentity(q) \/ WriteIdentity(q) \/ Unload(q) \/ LoseIdentity
  PROVE  idFile' \in Int /\ generated' \in Nat /\ loaded' \in [Procs -> Int]
  BY DEF LoadIdentity, TruncateIdentity, WriteIdentity, Unload, LoseIdentity, Missing, Damaged

LEMMA DialKeepsUses ==
  ASSUME UsesOK, NEW p \in Peers, Dial(p)
  PROVE  UsesOK' /\ \E c \in Conns : Connect(c)
  <1>1. PICK c \in Conns : /\ Connect(c) /\ conn' = [conn EXCEPT ![p] = c]
                           /\ join' = [join EXCEPT ![p] = "connected"]
                           /\ UNCHANGED <<identityVars, serverVars>>
    BY DEF Dial, Unused
  <1>2. conn' \in [Peers -> Conns \union {None}] /\ conn'[p] = c
    BY <1>1 DEF UsesOK
  <1>3. join' \in [Peers -> JoinStates] /\ \A q \in Peers \ {p} : join'[q] = join[q] /\ conn'[q] = conn[q]
    BY <1>1 DEF UsesOK, JoinStates
  <1>4. \A q \in Peers : join'[q] # "idle" => conn'[q] \in Conns
    BY <1>2, <1>3 DEF UsesOK
  <1>5. /\ idFile' \in Int /\ generated' \in Nat /\ loaded' \in [Procs -> Int]
        /\ version' \in Int
        /\ server' \in Busy => serving' \in Conns
    BY <1>1 DEF UsesOK, identityVars, serverVars
  <1> QED  BY <1>1, <1>2, <1>3, <1>4, <1>5 DEF UsesOK

(* A step of peer p that leaves its connection, or forgets it.             *)
LEMMA JoinKeepsUses ==
  ASSUME UsesOK, NEW p \in Peers, NEW to \in JoinStates, NEW c \in Conns \union {None},
         join' = [join EXCEPT ![p] = to], conn' = [conn EXCEPT ![p] = c],
         to # "idle" => c \in Conns, UNCHANGED <<identityVars, serverVars>>
  PROVE  UsesOK'
  <1>1. conn' \in [Peers -> Conns \union {None}] /\ conn'[p] = c
    BY DEF UsesOK
  <1>2. join' \in [Peers -> JoinStates] /\ join'[p] = to
    BY DEF UsesOK
  <1>3. \A q \in Peers \ {p} : join'[q] = join[q] /\ conn'[q] = conn[q]
    BY DEF UsesOK
  <1>4. \A q \in Peers : join'[q] # "idle" => conn'[q] \in Conns
    BY <1>1, <1>2, <1>3 DEF UsesOK
  <1>5. /\ idFile' \in Int /\ generated' \in Nat /\ loaded' \in [Procs -> Int]
        /\ version' \in Int
        /\ server' \in Busy => serving' \in Conns
    BY DEF UsesOK, identityVars, serverVars
  <1> QED  BY <1>1, <1>2, <1>4, <1>5 DEF UsesOK

ServeInv == ChannelInv /\ UsesOK

LEMMA ChannelStutters ==
  ASSUME ChannelInv, UNCHANGED channelVars
  PROVE  ChannelInv'
  <1>1. stream' = stream /\ ends' = ends /\ wire' = wire /\ sealed' = sealed  BY DEF channelVars
  <1>2. LinksOK'  BY <1>1 DEF ChannelInv, LinksOK
  <1>3. SealedOK'  BY <1>1 DEF ChannelInv, SealedOK, Counted, Closed
  <1> QED  BY <1>2, <1>3 DEF ChannelInv

(* A step that leaves the joins alone.                                     *)
LEMMA ServerKeepsUses ==
  ASSUME UsesOK, join' = join, conn' = conn, version' \in Int,
         server' \in Busy => serving' \in Conns,
         \/ UNCHANGED identityVars
         \/ LoseIdentity
         \/ \E q \in Procs : LoadIdentity(q) \/ TruncateIdentity(q) \/ WriteIdentity(q) \/ Unload(q)
  PROVE  UsesOK'
  <1>1. idFile' \in Int /\ generated' \in Nat /\ loaded' \in [Procs -> Int]
    <2>1. CASE UNCHANGED identityVars  BY <2>1 DEF UsesOK, identityVars
    <2>2. CASE LoseIdentity  BY <2>2 DEF UsesOK, LoseIdentity, Damaged
    <2>3. ASSUME NEW q \in Procs,
                 LoadIdentity(q) \/ TruncateIdentity(q) \/ WriteIdentity(q) \/ Unload(q)
          PROVE  idFile' \in Int /\ generated' \in Nat /\ loaded' \in [Procs -> Int]
      BY <2>3, LoadKeepsTypes DEF UsesOK
    <2> QED  BY <2>1, <2>2, <2>3
  <1> QED  BY <1>1 DEF UsesOK

LEMMA ProcsThereAre == "whoami" \in Procs /\ "serve" \in Procs
  BY ServeProcs

(* The steps of the server and of `whoami`.                                *)
LEMMA ServerKeeps ==
  ASSUME ServeInv,
         \/ StartWhoami \/ PrintInvite \/ StartServe \/ ServerStep
         \/ \E q \in Procs : CreateIdentity(q)
         \/ \E line \in {"command", "quit"} : TypeLine(line)
         \/ ServeDies \/ WhoamiDies \/ IdentityLost
  PROVE  ServeInv'
  <1> USE ProcsThereAre
  <1>0. ChannelInv /\ UsesOK /\ version \in Int /\ loaded["serve"] \in Ids
    BY DEF ServeInv, UsesOK, Ids
  <1>1. CASE StartWhoami
    <2>1. ChannelInv'  BY <1>0, <1>1, ChannelStutters DEF StartWhoami
    <2>2. UsesOK'
      BY <1>0, <1>1, ServerKeepsUses DEF StartWhoami, serverVars, joinVars, UsesOK
    <2> QED  BY <2>1, <2>2 DEF ServeInv
  <1>2. CASE PrintInvite
    <2>1. ChannelInv'  BY <1>0, <1>2, ChannelStutters DEF PrintInvite
    <2>2. UsesOK'
      BY <1>0, <1>2, ServerKeepsUses DEF PrintInvite, joinVars, UsesOK
    <2> QED  BY <2>1, <2>2 DEF ServeInv
  <1>3. CASE StartServe
    <2>1. ChannelInv'  BY <1>0, <1>3, ChannelStutters DEF StartServe
    <2>2. UsesOK'
      BY <1>0, <1>3, ServerKeepsUses DEF StartServe, joinVars, UsesOK, Busy
    <2> QED  BY <2>1, <2>2 DEF ServeInv
  <1>4. CASE Listen
    <2>1. ChannelInv'  BY <1>0, <1>4, ChannelStutters DEF Listen
    <2>2. UsesOK'
      BY <1>0, <1>4, ServerKeepsUses DEF Listen, joinVars, UsesOK, Busy
    <2> QED  BY <2>1, <2>2 DEF ServeInv
  <1>5. CASE AcceptPeer
    <2>1. ChannelInv'  BY <1>0, <1>5, ChannelStutters DEF AcceptPeer
    <2>2. UsesOK'
      BY <1>0, <1>5, ServerKeepsUses DEF AcceptPeer, Waiting, joinVars, UsesOK
    <2> QED  BY <2>1, <2>2 DEF ServeInv
  <1>6. CASE AnswerPeer
    <2>1. serving \in Conns  BY <1>0, <1>6 DEF AnswerPeer, UsesOK, Busy
    <2>2. ChannelInv'  BY <1>0, <1>6, <2>1, AnswerHelloKeeps DEF AnswerPeer
    <2>3. UsesOK'
      BY <1>0, <1>6, <2>1, ServerKeepsUses DEF AnswerPeer, ServeUnchanged, joinVars, UsesOK
    <2> QED  BY <2>2, <2>3 DEF ServeInv
  <1>7. CASE Refuse
    <2>1. serving \in Conns  BY <1>0, <1>7 DEF Refuse, UsesOK, Busy
    <2>2. Refusal \in Bodies  BY DEF Refusal, Bodies, Torn
    <2>3. ChannelInv'
      BY <1>0, <1>7, <2>1, <2>2, SendLastKeeps DEF Refuse, Ends
    <2>4. UsesOK'
      BY <1>0, <1>7, ServerKeepsUses DEF Refuse, BackToSelect, ServeUnchanged, joinVars, Busy
    <2> QED  BY <2>3, <2>4 DEF ServeInv
  <1>8. CASE ReadRequest
    <2>1. serving \in Conns  BY <1>0, <1>8 DEF ReadRequest, UsesOK, Busy
    <2>2. ChannelInv'  BY <1>0, <1>8, <2>1, ReceiveKeeps DEF ReadRequest, Ends
    <2>3. UsesOK'
      BY <1>0, <1>8, <2>1, ServerKeepsUses DEF ReadRequest, ServeUnchanged, joinVars
    <2> QED  BY <2>2, <2>3 DEF ServeInv
  <1>9. CASE SendCopy
    <2>1. serving \in Conns  BY <1>0, <1>9 DEF SendCopy, UsesOK, Busy
    <2>2. Copy(Exported) \in Bodies  BY <1>0 DEF Copy, Exported, Bodies
    <2>3. ChannelInv'
      BY <1>0, <1>9, <2>1, <2>2, SendLastKeeps, ServeBounds DEF SendCopy, Ends
    <2>4. UsesOK'
      BY <1>0, <1>9, ServerKeepsUses DEF SendCopy, BackToSelect, ServeUnchanged, joinVars, Busy
    <2> QED  BY <2>3, <2>4 DEF ServeInv
  <1>10. CASE PeerFails
    <2>1. serving \in Conns  BY <1>0, <1>10 DEF PeerFails, UsesOK, Busy
    <2>2. ChannelInv'  BY <1>0, <1>10, <2>1, CloseAllKeeps DEF PeerFails, Close, Ends
    <2>3. UsesOK'
      BY <1>0, <1>10, ServerKeepsUses DEF PeerFails, BackToSelect, ServeUnchanged, joinVars, Busy
    <2> QED  BY <2>2, <2>3 DEF ServeInv
  <1>11. CASE HandleLine
    <2>1. ChannelInv'  BY <1>0, <1>11, ChannelStutters DEF HandleLine
    <2>2. version' \in Int  BY <1>0, <1>11 DEF HandleLine
    <2>3. UsesOK'
      BY <1>0, <1>11, <2>2, ServerKeepsUses DEF HandleLine, joinVars, UsesOK
    <2> QED  BY <2>1, <2>3 DEF ServeInv
  <1>12. ASSUME NEW to \in {"off", "ended"}, Exit(to)
         PROVE  ServeInv'
    <2>1. Connected \subseteq Conns  BY DEF Connected
    <2>2. ChannelInv'  BY <1>0, <1>12, <2>1, CloseAllKeeps DEF Exit, Ends
    <2>3. UsesOK'
      BY <1>0, <1>12, ServerKeepsUses DEF Exit, joinVars, Busy
    <2> QED  BY <2>2, <2>3 DEF ServeInv
  <1>13. ASSUME NEW q \in Procs, CreateIdentity(q)
         PROVE  ServeInv'
    <2>1. ChannelInv'  BY <1>0, <1>13, ChannelStutters DEF CreateIdentity
    <2>2. UsesOK'
      BY <1>0, <1>13, ServerKeepsUses DEF CreateIdentity, serverVars, joinVars, UsesOK
    <2> QED  BY <2>1, <2>2 DEF ServeInv
  <1>14. ASSUME NEW line, TypeLine(line)
         PROVE  ServeInv'
    <2>1. ChannelInv'  BY <1>0, <1>14, ChannelStutters DEF TypeLine
    <2>2. UsesOK'
      BY <1>0, <1>14, ServerKeepsUses DEF TypeLine, joinVars, UsesOK
    <2> QED  BY <2>1, <2>2 DEF ServeInv
  <1>15. CASE WhoamiDies
    <2>1. ChannelInv'  BY <1>0, <1>15, ChannelStutters DEF WhoamiDies
    <2>2. UsesOK'
      BY <1>0, <1>15, ServerKeepsUses DEF WhoamiDies, serverVars, joinVars, UsesOK
    <2> QED  BY <2>1, <2>2 DEF ServeInv
  <1>16. CASE IdentityLost
    <2>1. ChannelInv'  BY <1>0, <1>16, ChannelStutters DEF IdentityLost
    <2>2. UsesOK'
      BY <1>0, <1>16, ServerKeepsUses DEF IdentityLost, serverVars, joinVars, UsesOK
    <2> QED  BY <2>1, <2>2 DEF ServeInv
  <1> QED
    BY <1>1, <1>2, <1>3, <1>4, <1>5, <1>6, <1>7, <1>8, <1>9, <1>10, <1>11, <1>12, <1>13, <1>14,
       <1>15, <1>16 DEF ServerStep, Quit, ServeDies

(* The steps of a join.                                                    *)
LEMMA EndJoinKeeps ==
  ASSUME ServeInv, NEW p \in Peers, NEW at \in JoinStates \ {"idle"}, NEW how, EndJoin(p, at, how)
  PROVE  ServeInv'
  <1>1. ChannelInv /\ UsesOK /\ conn[p] \in Conns
    BY DEF ServeInv, UsesOK, EndJoin, Step
  <1>2. ChannelInv'
    BY <1>1, CloseAllKeeps DEF EndJoin, Close, Ends
  <1>3. UsesOK'
    BY <1>1, JoinKeepsUses DEF EndJoin, Step, Forget, None, JoinStates
  <1> QED  BY <1>2, <1>3 DEF ServeInv

LEMMA JoinStepKeeps ==
  ASSUME ServeInv, NEW p \in Peers, JoinStep(p)
  PROVE  ServeInv'
  <1>0. ChannelInv /\ UsesOK /\ conn[p] \in Conns \union {None}
        /\ (join[p] # "idle" => conn[p] \in Conns)
    BY DEF ServeInv, UsesOK
  <1>1. ASSUME NEW at \in JoinStates \ {"idle"}, NEW to \in JoinStates, Step(p, at, to), conn' = conn
        PROVE  UsesOK'
    <2>1. conn' = [conn EXCEPT ![p] = conn[p]] /\ conn[p] \in Conns
      BY <1>0, <1>1 DEF UsesOK, Step
    <2> QED  BY <1>0, <1>1, <2>1, JoinKeepsUses DEF Step
  <1>2. CASE JoinHello(p)
    <2>1. ChannelInv'  BY <1>0, <1>2, OfferHelloKeeps DEF JoinHello, Step, Ids
    <2>2. UsesOK'  BY <1>1, <1>2 DEF JoinHello, JoinStates
    <2> QED  BY <2>1, <2>2 DEF ServeInv
  <1>3. CASE JoinVerify(p)
    <2>1. ChannelInv'  BY <1>0, <1>3, FinishHelloKeeps DEF JoinVerify, Step
    <2>2. UsesOK'  BY <1>1, <1>3 DEF JoinVerify, JoinStates
    <2> QED  BY <2>1, <2>2 DEF ServeInv
  <1>4. CASE JoinAsk(p)
    <2>1. ChainState \in Bodies  BY DEF ChainState, None, Bodies
    <2>2. ChannelInv'  BY <1>0, <1>4, <2>1, SendKeeps DEF JoinAsk, Step, Ends
    <2>3. UsesOK'  BY <1>1, <1>4 DEF JoinAsk, JoinStates
    <2> QED  BY <2>2, <2>3 DEF ServeInv
  <1>5. CASE JoinReceive(p)
    <2>1. ChannelInv'  BY <1>0, <1>5, ReceiveKeeps DEF JoinReceive, Ends
    <2>2. UsesOK'  BY <1>1, <1>5 DEF JoinReceive, JoinStates
    <2> QED  BY <2>1, <2>2 DEF ServeInv
  <1>6. CASE Truncate(p)
    <2>1. ChannelInv'  BY <1>0, <1>6, ChannelStutters DEF Truncate
    <2>2. UsesOK'  BY <1>1, <1>6 DEF Truncate, JoinStates
    <2> QED  BY <2>1, <2>2 DEF ServeInv
  <1>7. CASE FinishJoin(p)
    BY <1>7, EndJoinKeeps DEF FinishJoin, JoinStates
  <1>8. CASE WrongIdentity(p)
    BY <1>8, EndJoinKeeps DEF WrongIdentity, JoinStates
  <1>9. CASE Refused(p)
    BY <1>9, EndJoinKeeps DEF Refused, JoinStates
  <1>10. CASE JoinReadFails(p)
    BY <1>10, EndJoinKeeps DEF JoinReadFails, JoinStates
  <1> QED
    BY <1>2, <1>3, <1>4, <1>5, <1>6, <1>7, <1>8, <1>9, <1>10 DEF JoinStep

LEMMA PeersKeep ==
  ASSUME ServeInv,
         \/ \E p \in Peers : StartJoin(p) \/ JoinStep(p) \/ JoinDies(p) \/ DialElsewhere(p)
         \/ \E c \in Conns : OtherAnswers(c) \/ CutStream(c) \/ FallSilent(c)
  PROVE  ServeInv'
  <1>0. ChannelInv /\ UsesOK  BY DEF ServeInv
  <1>1. ASSUME NEW p \in Peers, Dial(p)
        PROVE  ServeInv'
    BY <1>0, <1>1, DialKeepsUses, ConnectKeeps DEF ServeInv
  <1>2. ASSUME NEW p \in Peers, JoinDies(p)
        PROVE  ServeInv'
    <2>1. conn[p] \in Conns  BY <1>0, <1>2 DEF JoinDies, UsesOK
    <2>2. ChannelInv'  BY <1>0, <1>2, <2>1, CloseAllKeeps DEF JoinDies, Close, Ends
    <2>3. UsesOK'
      BY <1>0, <1>2, JoinKeepsUses DEF JoinDies, Forget, None, JoinStates
    <2> QED  BY <2>2, <2>3 DEF ServeInv
  <1>3. ASSUME UNCHANGED <<identityVars, serverVars, join, conn>>
        PROVE  UsesOK'
    BY <1>0, <1>3 DEF UsesOK, identityVars, serverVars
  <1>4. ASSUME NEW c \in Conns, OtherAnswers(c)
        PROVE  ServeInv'
    <2>1. Stranger \in Ids  BY DEF Stranger, Ids
    <2>2. ChannelInv'  BY <1>0, <1>4, <2>1, AnswerHelloKeeps DEF OtherAnswers
    <2> QED  BY <1>3, <1>4, <2>2 DEF OtherAnswers, joinVars, ServeInv
  <1>5. ASSUME NEW c \in Conns, CutStream(c)
        PROVE  ServeInv'
    <2>1. ChannelInv'  BY <1>0, <1>5, CutKeeps DEF CutStream
    <2> QED  BY <1>3, <1>5, <2>1 DEF CutStream, joinVars, ServeInv
  <1>6. ASSUME NEW c \in Conns, FallSilent(c)
        PROVE  ServeInv'
    <2>1. ChannelInv'  BY <1>0, <1>6, ChannelStutters DEF FallSilent
    <2> QED  BY <1>3, <1>6, <2>1 DEF FallSilent, joinVars, ServeInv
  <1> QED
    BY <1>1, <1>2, <1>4, <1>5, <1>6, JoinStepKeeps DEF StartJoin, DialElsewhere

-------------------------------------------------------------------------------
LEMMA ServeInvHolds == ServeSpec => []ServeInv
  <1>1. ServeInit => ServeInv
    <2> SUFFICES ASSUME ServeInit PROVE ServeInv
      OBVIOUS
    <2>1. /\ stream = [c \in Conns |-> "none"]
          /\ ends = [c \in Conns |-> [e \in Ends |-> NewEnd]]
          /\ wire = [c \in Conns |-> [e \in Ends |-> <<>>]]
          /\ sealed = {}
      BY DEF ServeInit, ChannelInit
    <2>2. NewEnd \in EndStates /\ NewEnd.stage = "none" /\ NewEnd.sent = 0
      BY DEF NewEnd, EndStates, Stages, NoKey, Nobody
    <2>3. ASSUME NEW c \in Conns
          PROVE  LinkOK(c, stream[c], ends[c], wire[c])
      <3>1. LinkTypeOK(stream[c], ends[c], wire[c])  BY <2>1, <2>2, RunEmpty DEF LinkTypeOK
      <3>2. ASSUME NEW e \in Ends
            PROVE  /\ EndOK(c, stream[c], ends[c][e])
                   /\ InOrder(c, e, stream[c], ends[c][e], ends[c][Other(e)], wire[c][e])
        <4>1. ends[c][e] = NewEnd /\ ends[c][Other(e)] = NewEnd /\ wire[c][e] = <<>>
          BY <2>1, Sides
        <4>2. Run(c, e, <<>>, NextRead(NewEnd)) /\ Len(<<>>) = 0  BY RunEmpty
        <4>3. NextRead(NewEnd) = -1 /\ NextWritten(NewEnd) = -1  BY <2>2 DEF NextRead, NextWritten
        <4> QED  BY <2>2, <4>1, <4>2, <4>3 DEF EndOK, InOrder
      <3> QED  BY <3>1, <3>2 DEF LinkOK
    <2>4. LinksOK  BY <2>1, <2>2, <2>3, RunEmpty DEF LinksOK
    <2>5. SealedOK  BY <2>1 DEF SealedOK
    <2> QED  BY <2>4, <2>5, UsesInit DEF ServeInv, ChannelInv
  <1>2. ServeInv /\ [ServeNext]_serveVars => ServeInv'
    <2> SUFFICES ASSUME ServeInv, [ServeNext]_serveVars PROVE ServeInv'
      OBVIOUS
    <2>1. CASE ServeNext  BY <2>1, ServerKeeps, PeersKeep DEF ServeNext
    <2>2. CASE UNCHANGED serveVars
      <3>1. ChannelInv'  BY <2>2, ChannelStutters DEF serveVars, ServeInv
      <3>2. UsesOK'
        BY <2>2 DEF serveVars, ServeInv, UsesOK, identityVars, serverVars, joinVars
      <3> QED  BY <3>1, <3>2 DEF ServeInv
    <2> QED  BY <2>1, <2>2
  <1> QED  BY <1>1, <1>2, PTL DEF ServeSpec

(* No two messages on any connection are ever encrypted under the same key *)
(* and nonce, whatever is cut, dropped, refused or restarted (send_nonce). *)
THEOREM NoncesAreUsedOnce == ServeSpec => []NoncesOnce
  <1>1. ServeInv => NoncesOnce  BY InvariantImplies DEF ServeInv
  <1> QED  BY <1>1, ServeInvHolds, PTL

(* An end that has agreed on a key can open everything that reaches it:    *)
(* no frame is skipped, repeated or of another key (recv_nonce).           *)
THEOREM ArrivingFramesOpen == ServeSpec => []FramesOpen
  <1>1. ServeInv => FramesOpen  BY InvariantImplies DEF ServeInv
  <1> QED  BY <1>1, ServeInvHolds, PTL
===============================================================================
