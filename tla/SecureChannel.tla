------------------------------ MODULE SecureChannel ------------------------------
(***************************************************************************)
(* Connections between two nodes: the handshake of net::handshake, and the *)
(* encrypted frames that follow it, over a byte stream that keeps its      *)
(* order but may be cut, and of which the tail may be lost when an end     *)
(* closes it.  Signatures, key agreement and encryption are opaque: a      *)
(* hello proves who sent it, a key is the pair of ephemeral keys it was    *)
(* agreed from, a frame opens under the key and nonce it was sealed with.  *)
(* What is sent when is up to the modules that use a channel.              *)
(***************************************************************************)
EXTENDS Integers, Sequences

CONSTANT Conns    \* connections

VARIABLES
  stream,    \* stream[c]: "none", "open" or "cut"
  ends,      \* ends[c][e]: what end e of connection c knows
  wire,      \* wire[c][e]: frames that end e has written and the other not read
  sealed     \* history: what has been encrypted, under which key and nonce

channelVars == <<stream, ends, wire, sealed>>

Ends == {"dial", "serve"}
Other(e) == IF e = "dial" THEN "serve" ELSE "dial"

(* Both directions use one key; the parity keeps their nonces apart.       *)
OneParity(e) == 0                                                       \* mutant
Parity(e) == IF e = "dial" THEN 0 ELSE 1
Nonce(e, counter) == 2 * counter + Parity(e)

(* Every end of every connection draws an ephemeral key of its own.        *)
Ephemeral(c, e) == <<c, e>>
NoKey == {}
InMyOrder(mine, theirs) == <<mine, theirs>>                             \* mutant
SessionKey(mine, theirs) == {mine, theirs}

Hello(c, e, id) == [kind |-> "hello", id |-> id, ephemeral |-> Ephemeral(c, e)]
Frame(key, nonce, body) == [kind |-> "frame", key |-> key, nonce |-> nonce, body |-> body]

Nobody == {}
NewEnd == [stage |-> "none", peer |-> Nobody, key |-> NoKey, sent |-> 0, received |-> 0]

ChannelInit ==
  /\ stream = [c \in Conns |-> "none"]
  /\ ends = [c \in Conns |-> [e \in Ends |-> NewEnd]]
  /\ wire = [c \in Conns |-> [e \in Ends |-> <<>>]]
  /\ sealed = {}

Closed(c, e) == ends[c][e].stage = "closed"
Broken(c, e) == stream[c] = "cut" \/ Closed(c, Other(e))

(* A frame written to a broken stream is lost; the writer learns of it     *)
(* when it reads next, at the latest.                                      *)
Written(c, e, frame) == IF Broken(c, e) THEN wire[c][e] ELSE Append(wire[c][e], frame)

Arrived(c, e) == wire[c][Other(e)] # <<>>
FirstFrame(c, e) == Head(wire[c][Other(e)])

-------------------------------------------------------------------------------
(* TcpStream::connect.                                                     *)
Connect(c) ==
  /\ stream[c] = "none"
  /\ stream' = [stream EXCEPT ![c] = "open"]
  /\ ends' = [ends EXCEPT ![c]["dial"].stage = "open"]
  /\ UNCHANGED <<wire, sealed>>

(* initiator: the hello goes out.                                          *)
OfferHello(c, id) ==
  /\ ends[c]["dial"].stage = "open"
  /\ ends' = [ends EXCEPT ![c]["dial"].stage = "offered"]
  /\ wire' = [wire EXCEPT ![c]["dial"] = Written(c, "dial", Hello(c, "dial", id))]
  /\ UNCHANGED <<stream, sealed>>

Ready(c, e, hello) ==
  ends' = [ends EXCEPT ![c][e] =
             [NewEnd EXCEPT !.stage = "ready", !.peer = hello.id,
                            !.key = SessionKey(Ephemeral(c, e), hello.ephemeral)]]

(* responder: reads the hello and answers with its own.                    *)
AnswerHello(c, id) ==
  /\ stream[c] # "none" /\ ends[c]["serve"].stage = "none"
  /\ Arrived(c, "serve") /\ FirstFrame(c, "serve").kind = "hello"
  /\ Ready(c, "serve", FirstFrame(c, "serve"))
  /\ wire' = [wire EXCEPT ![c]["dial"] = Tail(@),
                          ![c]["serve"] = Written(c, "serve", Hello(c, "serve", id))]
  /\ UNCHANGED <<stream, sealed>>

(* initiator: the answer has to come from the identity of the invite.      *)
HelloFrom(c) == FirstFrame(c, "dial").id
AwaitsHello(c) ==
  /\ ends[c]["dial"].stage = "offered"
  /\ Arrived(c, "dial") /\ FirstFrame(c, "dial").kind = "hello"

IsPinned(c, pinned) == HelloFrom(c) = pinned

FinishHello(c, pinned) ==
  /\ AwaitsHello(c) /\ IsPinned(c, pinned)
  /\ Ready(c, "dial", FirstFrame(c, "dial"))
  /\ wire' = [wire EXCEPT ![c]["serve"] = Tail(@)]
  /\ UNCHANGED <<stream, sealed>>

-------------------------------------------------------------------------------
(* Ends are dropped.  Frames that such an end has not read make the kernel  *)
(* reset the stream, which may destroy what it has written and nobody has  *)
(* read.                                                                   *)
Dropped == [NewEnd EXCEPT !.stage = "closed"]
CloseAll(dropped, e) ==
  /\ \A c \in dropped : stream[c] # "none" /\ ~Closed(c, e)
  /\ ends' = [c \in Conns |-> IF c \in dropped THEN [ends[c] EXCEPT ![e] = Dropped]
                             ELSE ends[c]]
  /\ \E reset \in SUBSET {c \in dropped : Arrived(c, e)} :
       wire' = [c \in Conns |->
                  IF c \in dropped
                  THEN [wire[c] EXCEPT ![Other(e)] = <<>>,
                                       ![e] = IF c \in reset THEN <<>> ELSE @]
                  ELSE wire[c]]
  /\ UNCHANGED <<stream, sealed>>
Close(c, e) == CloseAll({c}, e)

(* send takes the next nonce before anything else.                         *)
NextNonce(c, e) == Nonce(e, ends[c][e].sent)
Sealed(c, e, body) ==
  [key |-> ends[c][e].key, nonce |-> NextNonce(c, e), by |-> <<c, e>>, body |-> body]
Seal(c, e, body) ==
  /\ ends[c][e].stage = "ready"
  /\ sealed' = sealed \union {Sealed(c, e, body)}

Send(c, e, body) ==
  /\ Seal(c, e, body)
  /\ ends' = [ends EXCEPT ![c][e].sent = @ + 1]
  /\ wire' = [wire EXCEPT ![c][e] =
       Written(c, e, Frame(ends[c][e].key, NextNonce(c, e), body))]
  /\ UNCHANGED stream

(* The last message of an end, which is then dropped.  write_frame refuses *)
(* one that is larger than MAX_FRAME_LEN.                                  *)
SendLast(c, e, body, fits) ==
  /\ Seal(c, e, body)
  /\ ends' = [ends EXCEPT ![c][e] = Dropped]
  /\ \E reset \in {FALSE, Arrived(c, e)} :
       wire' = [wire EXCEPT
         ![c][e] = IF reset THEN <<>>
                   ELSE IF fits
                   THEN Written(c, e, Frame(ends[c][e].key, NextNonce(c, e), body)) ELSE @,
         ![c][Other(e)] = <<>>]
  /\ UNCHANGED stream

(* recv counts what it reads, and opens it if it is what comes next.       *)
ExpectsOwnNonce(c, e) ==                                                \* mutant
  Arrived(c, e) /\ FirstFrame(c, e).nonce = Nonce(e, ends[c][e].received)
Opens(c, e) ==
  /\ Arrived(c, e)
  /\ FirstFrame(c, e).kind = "frame"
  /\ FirstFrame(c, e).key = ends[c][e].key
  /\ FirstFrame(c, e).nonce = Nonce(Other(e), ends[c][e].received)
Receive(c, e) ==
  /\ ends[c][e].stage = "ready" /\ Opens(c, e)
  /\ ends' = [ends EXCEPT ![c][e].received = @ + 1]
  /\ wire' = [wire EXCEPT ![c][Other(e)] = Tail(@)]
  /\ UNCHANGED <<stream, sealed>>

(* The stream is at its end, or what has arrived does not open.            *)
NoticesCutsOnly(c, e) == ~Arrived(c, e) /\ stream[c] = "cut"            \* mutant
ReadFails(c, e) ==
  \/ ~Arrived(c, e) /\ Broken(c, e)
  \/ ends[c][e].stage = "ready" /\ Arrived(c, e) /\ ~Opens(c, e)

(* The stream is cut; what is under way may or may not arrive.             *)
Cut(c) ==
  /\ stream[c] = "open"
  /\ stream' = [stream EXCEPT ![c] = "cut"]
  /\ \E lost \in SUBSET Ends :
       wire' = [wire EXCEPT ![c] = [e \in Ends |-> IF e \in lost THEN <<>> ELSE @[e]]]
  /\ UNCHANGED <<ends, sealed>>

-------------------------------------------------------------------------------
(* No two messages are encrypted under the same key and nonce, whichever   *)
(* end sends them and whether or not they are written (send_nonce).        *)
NoncesOnce ==
  \A x, y \in sealed : x.key = y.key /\ x.nonce = y.nonce => x = y

(* What arrives opens: an end that has agreed on a key reads only frames   *)
(* of that key, with the nonces it expects (send_nonce, recv_nonce).       *)
FramesOpen ==
  \A c \in Conns, e \in Ends :
    (ends[c][e].stage = "ready" /\ Arrived(c, e)) => Opens(c, e)
===============================================================================
