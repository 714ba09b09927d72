------------------------------- MODULE GrantProofs -------------------------------
(***************************************************************************)
(* What the console promises peers and their administrator, for any number *)
(* of peers, connections, changes and faults: only a peer in the keyring   *)
(* ever has anything of the vault on its disk, from the node that its      *)
(* invite names; a copy is whole and no older than its join; a join fails  *)
(* only for a reason; invites name the identity that serves.               *)
(*                                                                         *)
(* Each part follows one connection from its join to the server.           *)
(* GrantInv: it has one owner, the hellos on it are its owner's, so the    *)
(* server knows whom it answers, and what it seals for a peer without a    *)
(* slot is a refusal.  RecentOK: what it seals for the others is the vault *)
(* as it is at that time.  FairInv: the server leaves the connection only  *)
(* when it has said all that the join has to read.  The identity file has  *)
(* invariants of its own, SettledOK and NamesOK.                           *)
(***************************************************************************)
EXTENDS ServeProofs

IdentityOK ==
  /\ idFile \in Int /\ idFile >= -1 /\ generated \in Nat
  /\ loaded \in [Procs -> Nat] /\ loader \in [Procs -> {"off", "generated", "opened", "done"}]
  /\ \A q \in Procs : loader[q] # "off" => loaded[q] >= 1
  /\ invite \in Nat

Asking == {"ask", "wait", "refused", "received", "truncated"}
JoinsOK ==
  /\ pinned \in [Peers -> Nat] /\ copy = [p \in Peers |-> copy[p]]
  /\ \A p \in Peers : join[p] # "idle" => stream[conn[p]] # "none" /\ pinned[p] >= 1
  /\ \A p, q \in Peers : (join[p] # "idle" /\ join[q] # "idle" /\ conn[p] = conn[q]) => p = q
  /\ \A p \in Peers : join[p] \in Asking => conn[p] \notin elsewhere
  /\ \A p \in Peers : join[p] \in {"received", "truncated"} => p \in Granted
  /\ \A p \in Peers : copy[p] # None => p \in Granted

ServingOK ==
  /\ server \in Busy => stream[serving] # "none" /\ serving \notin elsewhere
  /\ server \in {"request", "answer"} =>
       ends[serving]["serve"].stage = "ready" /\ ends[serving]["serve"].peer \in Granted

(* What may be on a connection of peer p, in either direction.             *)
FromPeer(p) == {m \in Messages : m.kind = "hello" => m.id = p}
ToPeer(p, astray) ==
  {m \in Messages : /\ (m.kind = "frame" /\ p \notin Granted) => m.body = Refusal
                    /\ (m.kind = "hello" /\ astray) => m.id = Stranger}
Owned(p, c) ==
  /\ wire[c]["dial"] \in Seq(FromPeer(p))
  /\ wire[c]["serve"] \in Seq(ToPeer(p, c \in elsewhere))
  /\ ends[c]["serve"].stage = "ready" => ends[c]["serve"].peer = p
OwnedOK == \A p \in Peers, c \in Conns : (join[p] # "idle" /\ conn[p] = c) => Owned(p, c)

GrantInv == ServeInv /\ IdentityOK /\ JoinsOK /\ ServingOK /\ OwnedOK

-------------------------------------------------------------------------------
(* A direction of a connection loses, delivers or gains a message.         *)
Moves(s, t, S) ==
  \/ t = s \/ t = <<>> \/ (s # <<>> /\ t = Tail(s))
  \/ \E m \in S : t = Append(s, m)

LEMMA MovesWithin ==
  ASSUME NEW S, NEW s \in Seq(S), NEW t, Moves(s, t, S)
  PROVE  t \in Seq(S)
  <1>1. CASE t = s  BY <1>1
  <1>2. CASE t = <<>>  BY <1>2
  <1>3. CASE s # <<>> /\ t = Tail(s)  BY <1>3
  <1>4. CASE \E m \in S : t = Append(s, m)  BY <1>4
  <1> QED  BY <1>1, <1>2, <1>3, <1>4 DEF Moves

LEMMA HeadWithin ==
  ASSUME NEW S, NEW s \in Seq(S), s # <<>>
  PROVE  Head(s) \in S
  OBVIOUS

(* A connection stays its owner's.                                         *)
LEMMA OwnedMoves ==
  ASSUME NEW p, NEW c, Owned(p, c), elsewhere' = elsewhere,
         Moves(wire[c]["dial"], wire'[c]["dial"], FromPeer(p)),
         Moves(wire[c]["serve"], wire'[c]["serve"], ToPeer(p, c \in elsewhere)),
         ends'[c]["serve"].stage = "ready" => ends'[c]["serve"].peer = p
  PROVE  Owned(p, c)'
  <1>1. wire'[c]["dial"] \in Seq(FromPeer(p))  BY MovesWithin DEF Owned
  <1>2. wire'[c]["serve"] \in Seq(ToPeer(p, c \in elsewhere))  BY MovesWithin DEF Owned
  <1>3. FromPeer(p)' = FromPeer(p) /\ ToPeer(p, c \in elsewhere)' = ToPeer(p, c \in elsewhere)
    BY DEF FromPeer, ToPeer
  <1> QED  BY <1>1, <1>2, <1>3 DEF Owned

LEMMA OwnedUnmoved ==
  ASSUME NEW p, NEW c, Owned(p, c), (c \in elsewhere') = (c \in elsewhere),
         wire'[c] = wire[c], ends'[c]["serve"] = ends[c]["serve"]
  PROVE  Owned(p, c)'
  <1>1. ToPeer(p, c \in elsewhere)' = ToPeer(p, c \in elsewhere)
    BY DEF ToPeer
  <1> QED  BY <1>1 DEF Owned, FromPeer

-------------------------------------------------------------------------------
(* Every step of a channel leaves connections to their owners, if what it  *)
(* writes is the owner's or for the owner.                                 *)
LEMMA LinkTypes ==
  ASSUME ServeInv
  PROVE  /\ stream \in [Conns -> {"none", "open", "cut"}]
         /\ ends \in [Conns -> [Ends -> EndStates]]
         /\ wire \in [Conns -> [Ends -> Seq(Messages)]]
         /\ "dial" \in Ends /\ "serve" \in Ends /\ LinksOK
  BY DEF ServeInv, ChannelInv, LinksOK, Ends

LEMMA WrittenMoves ==
  ASSUME NEW c, NEW e, NEW S, NEW m \in S
  PROVE  Moves(wire[c][e], Written(c, e, m), S)
  BY DEF Written, Moves

LEMMA ConnectOwned ==
  ASSUME ServeInv, NEW d \in Conns, Connect(d), NEW p, NEW c \in Conns,
         Owned(p, c), (c \in elsewhere') = (c \in elsewhere)
  PROVE  Owned(p, c)'
  <1>1. wire'[c] = wire[c] /\ ends'[c]["serve"] = ends[c]["serve"]
    BY LinkTypes DEF Connect
  <1> QED  BY <1>1, OwnedUnmoved

LEMMA OfferHelloOwned ==
  ASSUME ServeInv, NEW d \in Conns, NEW id \in Ids, OfferHello(d, id), NEW p, NEW c \in Conns,
         Owned(p, c), elsewhere' = elsewhere, c = d => id = p
  PROVE  Owned(p, c)'
  <1>1. ends'[c]["serve"] = ends[c]["serve"]
    BY LinkTypes DEF OfferHello
  <1>2. CASE c # d
    BY <1>1, <1>2, LinkTypes, OwnedUnmoved DEF OfferHello
  <1>3. CASE c = d
    <2>1. wire'[c]["serve"] = wire[c]["serve"] /\ wire'[c]["dial"] = Written(c, "dial", Hello(c, "dial", id))
      BY <1>3, LinkTypes DEF OfferHello
    <2>2. Hello(c, "dial", id) \in FromPeer(p)
      BY <1>3, LinkTypes DEF Hello, FromPeer, Messages, Hellos, Draws, Ephemeral
    <2>3. Moves(wire[c]["dial"], wire'[c]["dial"], FromPeer(p))
      BY <2>1, <2>2, WrittenMoves
    <2>4. Moves(wire[c]["serve"], wire'[c]["serve"], ToPeer(p, c \in elsewhere))
      BY <2>1 DEF Moves
    <2> QED  BY <1>1, <2>3, <2>4, OwnedMoves DEF Owned
  <1> QED  BY <1>2, <1>3

LEMMA AnswerHelloOwned ==
  ASSUME ServeInv, NEW d \in Conns, NEW id \in Ids, AnswerHello(d, id), NEW p, NEW c \in Conns,
         Owned(p, c), elsewhere' = elsewhere, (c = d /\ c \in elsewhere) => id = Stranger
  PROVE  Owned(p, c)'
  <1>1. CASE c # d
    BY <1>1, LinkTypes, OwnedUnmoved DEF AnswerHello, Ready
  <1>2. CASE c = d
    <2>1. /\ wire[c]["dial"] # <<>> /\ wire'[c]["dial"] = Tail(wire[c]["dial"])
          /\ wire'[c]["serve"] = Written(c, "serve", Hello(c, "serve", id))
          /\ FirstFrame(c, "serve") = Head(wire[c]["dial"])
          /\ FirstFrame(c, "serve").kind = "hello"
      BY <1>2, LinkTypes DEF AnswerHello, Arrived, FirstFrame, Other
    <2>2. Hello(c, "serve", id) \in ToPeer(p, c \in elsewhere)
      BY <1>2, LinkTypes DEF Hello, ToPeer, Messages, Hellos, Draws, Ephemeral
    <2>3. Moves(wire[c]["serve"], wire'[c]["serve"], ToPeer(p, c \in elsewhere))
      BY <2>1, <2>2, WrittenMoves
    <2>4. Moves(wire[c]["dial"], wire'[c]["dial"], FromPeer(p))
      BY <2>1 DEF Moves
    <2>5. Head(wire[c]["dial"]) \in FromPeer(p)
      BY <2>1, HeadWithin DEF Owned
    <2>6. ends'[c]["serve"].peer = FirstFrame(c, "serve").id
      BY <1>2, AnswerHelloKeeps DEF ServeInv
    <2>7. ends'[c]["serve"].peer = p
      BY <2>1, <2>5, <2>6 DEF FromPeer
    <2> QED  BY <2>3, <2>4, <2>7, OwnedMoves
  <1> QED  BY <1>1, <1>2

LEMMA FinishHelloOwned ==
  ASSUME ServeInv, NEW d \in Conns, NEW pin, FinishHello(d, pin), NEW p, NEW c \in Conns,
         Owned(p, c), elsewhere' = elsewhere
  PROVE  Owned(p, c)'
  <1>1. ends'[c]["serve"] = ends[c]["serve"]
    BY LinkTypes DEF FinishHello, Ready
  <1>2. CASE c # d
    BY <1>1, <1>2, LinkTypes, OwnedUnmoved DEF FinishHello
  <1>3. CASE c = d
    <2>1. /\ wire[c]["serve"] # <<>> /\ wire'[c]["serve"] = Tail(wire[c]["serve"])
          /\ wire'[c]["dial"] = wire[c]["dial"]
      BY <1>3, LinkTypes DEF FinishHello, AwaitsHello, Arrived, Other
    <2>2. /\ Moves(wire[c]["dial"], wire'[c]["dial"], FromPeer(p))
          /\ Moves(wire[c]["serve"], wire'[c]["serve"], ToPeer(p, c \in elsewhere))
      BY <2>1 DEF Moves
    <2> QED  BY <1>1, <2>2, OwnedMoves DEF Owned
  <1> QED  BY <1>2, <1>3

LEMMA SendOwned ==
  ASSUME ServeInv, NEW d \in Conns, NEW body \in Bodies, Send(d, "dial", body),
         NEW p, NEW c \in Conns, Owned(p, c), elsewhere' = elsewhere
  PROVE  Owned(p, c)'
  <1>1. ends'[c]["serve"] = ends[c]["serve"]
    BY LinkTypes DEF Send
  <1>2. CASE c # d
    BY <1>1, <1>2, LinkTypes, OwnedUnmoved DEF Send
  <1>3. CASE c = d
    <2>1. /\ wire'[c]["serve"] = wire[c]["serve"]
          /\ wire'[c]["dial"] = Written(c, "dial", FrameOf(c, "dial", body))
      BY <1>3, LinkTypes DEF Send, FrameOf
    <2>2. FrameOf(c, "dial", body) \in Messages
      BY <1>3, LinkTypes, FrameIsNext DEF Send, Seal
    <2>3. FrameOf(c, "dial", body) \in FromPeer(p)
      BY <2>2 DEF FromPeer, FrameOf, Frame
    <2>4. Moves(wire[c]["dial"], wire'[c]["dial"], FromPeer(p))
      BY <2>1, <2>3, WrittenMoves
    <2>5. Moves(wire[c]["serve"], wire'[c]["serve"], ToPeer(p, c \in elsewhere))
      BY <2>1 DEF Moves
    <2> QED  BY <1>1, <2>4, <2>5, OwnedMoves DEF Owned
  <1> QED  BY <1>2, <1>3

LEMMA SendLastOwned ==
  ASSUME ServeInv, NEW d \in Conns, NEW body \in Bodies, NEW fits \in BOOLEAN,
         SendLast(d, "serve", body, fits), NEW p, NEW c \in Conns, Owned(p, c),
         elsewhere' = elsewhere, (c = d /\ p \notin Granted) => body = Refusal
  PROVE  Owned(p, c)'
  <1>1. CASE c # d
    BY <1>1, LinkTypes, OwnedUnmoved DEF SendLast
  <1>2. CASE c = d
    <2>1. /\ wire'[c]["dial"] = <<>>
          /\ wire'[c]["serve"] \in {<<>>, Written(c, "serve", FrameOf(c, "serve", body)), wire[c]["serve"]}
      BY <1>2, LinkTypes DEF SendLast, FrameOf, Other
    <2>2. FrameOf(c, "serve", body) \in Messages
      BY <1>2, LinkTypes, FrameIsNext DEF SendLast, Seal
    <2>3. FrameOf(c, "serve", body) \in ToPeer(p, c \in elsewhere)
      BY <1>2, <2>2 DEF ToPeer, FrameOf, Frame
    <2>4. Moves(wire[c]["serve"], wire'[c]["serve"], ToPeer(p, c \in elsewhere))
      BY <2>1, <2>3, WrittenMoves DEF Moves
    <2>5. Moves(wire[c]["dial"], wire'[c]["dial"], FromPeer(p))
      BY <2>1 DEF Moves
    <2>6. ends'[c]["serve"].stage = "closed"
      BY <1>2, LinkTypes DEF SendLast, Dropped, NewEnd
    <2> QED  BY <2>4, <2>5, <2>6, OwnedMoves
  <1> QED  BY <1>1, <1>2

LEMMA ReceiveOwned ==
  ASSUME ServeInv, NEW d \in Conns, NEW e \in Ends, Receive(d, e), NEW p, NEW c \in Conns,
         Owned(p, c), elsewhere' = elsewhere
  PROVE  Owned(p, c)' /\ ends'[c]["serve"].stage = ends[c]["serve"].stage
         /\ ends'[c]["serve"].peer = ends[c]["serve"].peer
  <1>1. /\ ends'[c]["serve"].stage = ends[c]["serve"].stage
        /\ ends'[c]["serve"].peer = ends[c]["serve"].peer
    <2>1. CASE c # d \/ e # "serve"
      BY <2>1, LinkTypes DEF Receive
    <2>2. CASE c = d /\ e = "serve"
      <3>1. ends[c]["serve"] \in EndStates  BY LinkTypes
      <3>2. ends'[c]["serve"] = [ends[c]["serve"] EXCEPT !.received = @ + 1]
        BY <2>2, LinkTypes DEF Receive
      <3> QED  BY <3>1, <3>2 DEF EndStates
    <2> QED  BY <2>1, <2>2
  <1>2. /\ wire[d][Other(e)] # <<>>
        /\ \A f \in Ends : wire'[c][f] = wire[c][f]
                          \/ (wire[c][f] # <<>> /\ wire'[c][f] = Tail(wire[c][f]))
    <2>1. wire[d][Other(e)] # <<>> /\ wire' = [wire EXCEPT ![d][Other(e)] = Tail(@)]
      BY DEF Receive, Opens, Arrived
    <2>2. Other(e) \in Ends  BY Sides
    <2> QED  BY <2>1, <2>2, LinkTypes
  <1>3. /\ Moves(wire[c]["dial"], wire'[c]["dial"], FromPeer(p))
        /\ Moves(wire[c]["serve"], wire'[c]["serve"], ToPeer(p, c \in elsewhere))
    BY <1>2, LinkTypes DEF Moves
  <1> QED  BY <1>1, <1>3, OwnedMoves DEF Owned

LEMMA CloseAllOwned ==
  ASSUME ServeInv, NEW dropped, NEW e \in Ends, CloseAll(dropped, e), NEW p, NEW c \in Conns,
         Owned(p, c), elsewhere' = elsewhere
  PROVE  Owned(p, c)'
  <1>1. CASE c \notin dropped
    BY <1>1, LinkTypes, OwnedUnmoved DEF CloseAll
  <1>2. CASE c \in dropped
    <2>1. ends'[c] = [ends[c] EXCEPT ![e] = Dropped]
      BY <1>2 DEF CloseAll
    <2>2. ends'[c]["serve"] = Dropped \/ ends'[c]["serve"] = ends[c]["serve"]
      BY <2>1, LinkTypes
    <2>3. PICK reset : wire'[c] = [wire[c] EXCEPT ![Other(e)] = <<>>, ![e] = IF c \in reset THEN <<>> ELSE @]
      BY <1>2 DEF CloseAll
    <2>4. \A f \in Ends : wire'[c][f] = <<>> \/ wire'[c][f] = wire[c][f]
      BY <2>3, Sides, LinkTypes
    <2>5. /\ Moves(wire[c]["dial"], wire'[c]["dial"], FromPeer(p))
          /\ Moves(wire[c]["serve"], wire'[c]["serve"], ToPeer(p, c \in elsewhere))
      BY <2>4, LinkTypes DEF Moves
    <2>6. Dropped.stage = "closed"  BY DEF Dropped, NewEnd
    <2> QED  BY <2>2, <2>5, <2>6, OwnedMoves DEF Owned
  <1> QED  BY <1>1, <1>2

LEMMA CutOwned ==
  ASSUME ServeInv, NEW d \in Conns, Cut(d), NEW p, NEW c \in Conns,
         Owned(p, c), elsewhere' = elsewhere
  PROVE  Owned(p, c)'
  <1>1. \A f \in Ends : wire'[c][f] = <<>> \/ wire'[c][f] = wire[c][f]
    BY LinkTypes DEF Cut
  <1>2. /\ Moves(wire[c]["dial"], wire'[c]["dial"], FromPeer(p))
        /\ Moves(wire[c]["serve"], wire'[c]["serve"], ToPeer(p, c \in elsewhere))
    BY <1>1, LinkTypes DEF Moves
  <1> QED  BY <1>2, OwnedMoves DEF Owned, Cut

-------------------------------------------------------------------------------
(* What the steps of the program have in common.                           *)
LEMMA IdentityKept ==
  ASSUME IdentityOK, invite' = invite, NEW q \in Procs,
         LoadIdentity(q) \/ TruncateIdentity(q) \/ WriteIdentity(q) \/ Unload(q) \/ LoseIdentity
  PROVE  IdentityOK'
  <1>1. CASE LoadIdentity(q)
    <2>1. /\ idFile' = idFile /\ generated' \in Nat
          /\ loaded' \in [Procs -> Nat]
          /\ loader' \in [Procs -> {"off", "generated", "opened", "done"}]
      BY <1>1 DEF IdentityOK, LoadIdentity, Missing, Damaged
    <2>2. loaded'[q] >= 1 /\ \A p \in Procs \ {q} : loaded'[p] = loaded[p] /\ loader'[p] = loader[p]
      BY <1>1 DEF IdentityOK, LoadIdentity, Missing, Damaged
    <2>3. \A p \in Procs : loader'[p] # "off" => loaded'[p] >= 1
      BY <2>2 DEF IdentityOK
    <2> QED  BY <2>1, <2>3 DEF IdentityOK
  <1>2. CASE TruncateIdentity(q) \/ WriteIdentity(q)
    <2>1. /\ loaded' = loaded /\ generated' = generated /\ loader[q] # "off"
          /\ loader' \in [Procs -> {"off", "generated", "opened", "done"}]
          /\ \A p \in Procs \ {q} : loader'[p] = loader[p]
      BY <1>2 DEF IdentityOK, TruncateIdentity, WriteIdentity
    <2>2. idFile' \in Int /\ idFile' >= -1
      BY <1>2 DEF IdentityOK, TruncateIdentity, WriteIdentity, Damaged
    <2>3. \A p \in Procs : loader'[p] # "off" => loaded'[p] >= 1
      BY <2>1 DEF IdentityOK
    <2> QED  BY <2>1, <2>2, <2>3 DEF IdentityOK
  <1>3. CASE Unload(q)
    <2>1. /\ idFile' = idFile /\ generated' = generated /\ loaded' \in [Procs -> Nat]
          /\ loader' \in [Procs -> {"off", "generated", "opened", "done"}]
          /\ loader'[q] = "off"
          /\ \A p \in Procs \ {q} : loader'[p] = loader[p] /\ loaded'[p] = loaded[p]
      BY <1>3 DEF IdentityOK, Unload, Missing
    <2> QED  BY <2>1 DEF IdentityOK
  <1>4. CASE LoseIdentity
    BY <1>4 DEF IdentityOK, LoseIdentity, Damaged
  <1> QED  BY <1>1, <1>2, <1>3, <1>4

LEMMA IdentityStutters ==
  ASSUME IdentityOK, UNCHANGED identityVars, invite' = invite
  PROVE  IdentityOK'
  BY DEF IdentityOK, identityVars

LEMMA JoinsStutter ==
  ASSUME JoinsOK, UNCHANGED <<join, conn, pinned, copy, elsewhere>>, UsesOK,
         \A c \in Conns : stream[c] # "none" => stream'[c] # "none"
  PROVE  JoinsOK'
  BY DEF JoinsOK, UsesOK

LEMMA OwnersStay ==
  ASSUME OwnedOK, UNCHANGED <<join, conn>>,
         \A p \in Peers, c \in Conns : (join[p] # "idle" /\ conn[p] = c /\ Owned(p, c)) => Owned(p, c)'
  PROVE  OwnedOK'
  BY DEF OwnedOK

LEMMA OwnersStutter ==
  ASSUME OwnedOK, UNCHANGED <<join, conn, channelVars, elsewhere>>
  PROVE  OwnedOK'
  <1>1. ASSUME NEW p \in Peers, NEW c \in Conns, Owned(p, c)
        PROVE  Owned(p, c)'
    BY <1>1, OwnedUnmoved DEF channelVars
  <1> QED  BY <1>1, OwnersStay

(* The steps of the server and of `whoami`.                                *)
LEMMA ServerGrants ==
  ASSUME GrantInv,
         \/ StartWhoami \/ PrintInvite \/ StartServe \/ ServerStep
         \/ \E q \in Procs : CreateIdentity(q)
         \/ \E line \in {"command", "quit"} : TypeLine(line)
         \/ ServeDies \/ WhoamiDies \/ IdentityLost
  PROVE  IdentityOK' /\ JoinsOK' /\ ServingOK' /\ OwnedOK'
  <1> USE ProcsThereAre
  <1>0. /\ ServeInv /\ UsesOK /\ IdentityOK /\ JoinsOK /\ ServingOK /\ OwnedOK
        /\ version \in Int /\ loaded["serve"] \in Ids
    BY DEF GrantInv, ServeInv, UsesOK, Ids
  <1>1. CASE StartWhoami
    <2>1. IdentityOK'  BY <1>0, <1>1, IdentityKept DEF StartWhoami, serverVars
    <2>2. JoinsOK' /\ OwnedOK'
      BY <1>0, <1>1, JoinsStutter, OwnersStutter DEF StartWhoami, joinVars, faultVars, channelVars
    <2>3. ServingOK'  BY <1>0, <1>1 DEF StartWhoami, serverVars, faultVars, channelVars, ServingOK
    <2> QED  BY <2>1, <2>2, <2>3
  <1>2. CASE PrintInvite
    <2>1. IdentityOK'
      <3>1. loaded["whoami"] \in Nat  BY <1>0 DEF IdentityOK
      <3> QED  BY <1>0, <1>2, <3>1 DEF PrintInvite, Unload, IdentityOK, Missing
    <2>2. JoinsOK' /\ OwnedOK'
      BY <1>0, <1>2, JoinsStutter, OwnersStutter DEF PrintInvite, joinVars, faultVars, channelVars
    <2>3. ServingOK'  BY <1>0, <1>2 DEF PrintInvite, faultVars, channelVars, ServingOK
    <2> QED  BY <2>1, <2>2, <2>3
  <1>3. CASE StartServe
    <2>1. IdentityOK'  BY <1>0, <1>3, IdentityKept DEF StartServe
    <2>2. JoinsOK' /\ OwnedOK'
      BY <1>0, <1>3, JoinsStutter, OwnersStutter DEF StartServe, joinVars, faultVars, channelVars
    <2>3. ServingOK'  BY <1>0, <1>3 DEF StartServe, Busy, ServingOK
    <2> QED  BY <2>1, <2>2, <2>3
  <1>4. CASE Listen
    <2>1. IdentityOK'  BY <1>0, <1>4, IdentityStutters DEF Listen
    <2>2. JoinsOK' /\ OwnedOK'
      BY <1>0, <1>4, JoinsStutter, OwnersStutter DEF Listen, joinVars, faultVars, channelVars
    <2>3. ServingOK'  BY <1>0, <1>4 DEF Listen, Busy, ServingOK
    <2> QED  BY <2>1, <2>2, <2>3
  <1>5. CASE AcceptPeer
    <2>1. IdentityOK'  BY <1>0, <1>5, IdentityKept DEF AcceptPeer
    <2>2. JoinsOK' /\ OwnedOK'
      BY <1>0, <1>5, JoinsStutter, OwnersStutter DEF AcceptPeer, joinVars, faultVars, channelVars
    <2>3. ServingOK'
      BY <1>0, <1>5 DEF AcceptPeer, Waiting, Busy, ServingOK, faultVars, channelVars
    <2> QED  BY <2>1, <2>2, <2>3
  <1>6. CASE AnswerPeer
    <2>1. /\ serving \in Conns /\ serving \notin elsewhere /\ stream[serving] # "none"
          /\ AnswerHello(serving, loaded["serve"]) /\ serving' = serving
          /\ UNCHANGED <<identityVars, invite, joinVars, faultVars, stream>>
          /\ server' = IF IsGranted(ends'[serving]["serve"].peer) THEN "request" ELSE "refuse"
      BY <1>0, <1>6 DEF AnswerPeer, AnswerHello, ServeUnchanged, UsesOK, ServingOK, Busy
    <2>2. IdentityOK'  BY <1>0, <2>1, IdentityStutters
    <2>3. JoinsOK'  BY <1>0, <2>1, JoinsStutter DEF joinVars, faultVars
    <2>4. OwnedOK'
      BY <1>0, <2>1, AnswerHelloOwned, OwnersStay DEF joinVars, faultVars
    <2>5. ends'[serving]["serve"].stage = "ready"
      BY <1>0, <2>1, LinkTypes DEF AnswerHello, Ready, NewEnd
    <2>6. ServingOK'  BY <2>1, <2>5 DEF ServingOK, IsGranted, faultVars
    <2> QED  BY <2>2, <2>3, <2>4, <2>6
  <1>7. CASE Refuse
    <2>1. /\ serving \in Conns /\ SendLast(serving, "serve", Refusal, TRUE) /\ server' = "select"
          /\ UNCHANGED <<identityVars, invite, joinVars, faultVars, stream>> /\ Refusal \in Bodies
      <3>1. Refusal \in Bodies  BY DEF Refusal, Bodies, Torn
      <3>2. serving \in Conns  BY <1>0, <1>7 DEF Refuse, UsesOK, Busy
      <3>3. stream' = stream  BY <1>7 DEF Refuse, SendLast
      <3> QED  BY <1>7, <3>1, <3>2, <3>3 DEF Refuse, BackToSelect, ServeUnchanged
    <2>2. IdentityOK'  BY <1>0, <2>1, IdentityStutters
    <2>3. JoinsOK'  BY <1>0, <2>1, JoinsStutter DEF joinVars, faultVars
    <2>4. OwnedOK'
      BY <1>0, <2>1, SendLastOwned, OwnersStay DEF joinVars, faultVars
    <2>5. ServingOK'  BY <2>1 DEF ServingOK, Busy
    <2> QED  BY <2>2, <2>3, <2>4, <2>5
  <1>8. CASE ReadRequest
    <2>1. /\ serving \in Conns /\ Receive(serving, "serve") /\ server = "request" /\ serving' = serving
          /\ UNCHANGED <<identityVars, invite, joinVars, faultVars, stream>> /\ server' = "answer"
      BY <1>0, <1>8 DEF ReadRequest, Receive, ServeUnchanged, UsesOK, Busy
    <2>2. IdentityOK'  BY <1>0, <2>1, IdentityStutters
    <2>3. JoinsOK'  BY <1>0, <2>1, JoinsStutter DEF joinVars, faultVars
    <2>4. OwnedOK'
      BY <1>0, <2>1, ReceiveOwned, OwnersStay, LinkTypes DEF joinVars, faultVars
    <2>5. /\ ends'[serving]["serve"].stage = ends[serving]["serve"].stage
          /\ ends'[serving]["serve"].peer = ends[serving]["serve"].peer
      <3>1. ends[serving]["serve"] \in EndStates  BY <1>0, <2>1, LinkTypes
      <3>2. ends'[serving]["serve"] = [ends[serving]["serve"] EXCEPT !.received = @ + 1]
        BY <1>0, <2>1, LinkTypes DEF Receive
      <3> QED  BY <3>1, <3>2 DEF EndStates
    <2>6. ServingOK'  BY <1>0, <2>1, <2>5 DEF ServingOK, Busy, faultVars
    <2> QED  BY <2>2, <2>3, <2>4, <2>6
  <1>9. CASE SendCopy
    <2>1. /\ serving \in Conns /\ SendLast(serving, "serve", Copy(Exported), FitsFrame)
          /\ server = "answer" /\ server' = "select" /\ Copy(Exported) \in Bodies
          /\ UNCHANGED <<identityVars, invite, joinVars, faultVars, stream>>
      BY <1>0, <1>9
      DEF SendCopy, SendLast, BackToSelect, ServeUnchanged, UsesOK, Busy, Copy, Exported, Bodies
    <2>2. IdentityOK'  BY <1>0, <2>1, IdentityStutters
    <2>3. JoinsOK'  BY <1>0, <2>1, JoinsStutter DEF joinVars, faultVars
    <2>4. ASSUME NEW p \in Peers, Owned(p, serving) PROVE p \in Granted
      BY <1>0, <2>1, <2>4 DEF Owned, ServingOK
    <2>5. OwnedOK'
      BY <1>0, <2>1, <2>4, SendLastOwned, OwnersStay, ServeBounds DEF joinVars, faultVars
    <2>6. ServingOK'  BY <2>1 DEF ServingOK, Busy
    <2> QED  BY <2>2, <2>3, <2>5, <2>6
  <1>10. CASE PeerFails
    <2>1. /\ CloseAll({serving}, "serve") /\ server' = "select"
          /\ UNCHANGED <<identityVars, invite, joinVars, faultVars, stream>>
      BY <1>10 DEF PeerFails, Close, CloseAll, BackToSelect, ServeUnchanged
    <2>2. IdentityOK'  BY <1>0, <2>1, IdentityStutters
    <2>3. JoinsOK'  BY <1>0, <2>1, JoinsStutter DEF joinVars, faultVars
    <2>4. OwnedOK'
      BY <1>0, <2>1, CloseAllOwned, OwnersStay, LinkTypes DEF joinVars, faultVars
    <2>5. ServingOK'  BY <2>1 DEF ServingOK, Busy
    <2> QED  BY <2>2, <2>3, <2>4, <2>5
  <1>11. CASE HandleLine
    <2>1. IdentityOK'  BY <1>0, <1>11, IdentityStutters DEF HandleLine
    <2>2. JoinsOK' /\ OwnedOK'
      BY <1>0, <1>11, JoinsStutter, OwnersStutter DEF HandleLine, joinVars, faultVars, channelVars
    <2>3. ServingOK'  BY <1>0, <1>11 DEF HandleLine, faultVars, channelVars, ServingOK
    <2> QED  BY <2>1, <2>2, <2>3
  <1>12. ASSUME NEW to \in {"off", "ended"}, Exit(to)
         PROVE  IdentityOK' /\ JoinsOK' /\ ServingOK' /\ OwnedOK'
    <2>1. /\ CloseAll(Connected, "serve") /\ server' = to /\ Unload("serve")
          /\ UNCHANGED <<invite, joinVars, elsewhere, stream>>
      BY <1>12 DEF Exit, CloseAll
    <2>2. IdentityOK'  BY <1>0, <2>1, IdentityKept
    <2>3. JoinsOK'  BY <1>0, <2>1, JoinsStutter DEF joinVars
    <2>4. OwnedOK'
      BY <1>0, <2>1, CloseAllOwned, OwnersStay, LinkTypes DEF joinVars
    <2>5. ServingOK'  BY <2>1 DEF ServingOK, Busy
    <2> QED  BY <2>2, <2>3, <2>4, <2>5
  <1>13. ASSUME NEW q \in Procs, CreateIdentity(q)
         PROVE  IdentityOK' /\ JoinsOK' /\ ServingOK' /\ OwnedOK'
    <2>1. IdentityOK'  BY <1>0, <1>13, IdentityKept DEF CreateIdentity, serverVars
    <2>2. JoinsOK' /\ OwnedOK'
      BY <1>0, <1>13, JoinsStutter, OwnersStutter DEF CreateIdentity, joinVars, faultVars, channelVars
    <2>3. ServingOK'  BY <1>0, <1>13 DEF CreateIdentity, serverVars, faultVars, channelVars, ServingOK
    <2> QED  BY <2>1, <2>2, <2>3
  <1>14. ASSUME NEW line, TypeLine(line)
         PROVE  IdentityOK' /\ JoinsOK' /\ ServingOK' /\ OwnedOK'
    <2>1. IdentityOK'  BY <1>0, <1>14, IdentityStutters DEF TypeLine
    <2>2. JoinsOK' /\ OwnedOK'
      BY <1>0, <1>14, JoinsStutter, OwnersStutter DEF TypeLine, joinVars, faultVars, channelVars
    <2>3. ServingOK'  BY <1>0, <1>14 DEF TypeLine, faultVars, channelVars, ServingOK
    <2> QED  BY <2>1, <2>2, <2>3
  <1>15. CASE WhoamiDies \/ IdentityLost
    <2>1. IdentityOK'  BY <1>0, <1>15, IdentityKept DEF WhoamiDies, IdentityLost, serverVars
    <2>2. JoinsOK' /\ OwnedOK'
      BY <1>0, <1>15, JoinsStutter, OwnersStutter DEF WhoamiDies, IdentityLost, joinVars, channelVars
    <2>3. ServingOK'
      BY <1>0, <1>15 DEF WhoamiDies, IdentityLost, serverVars, channelVars, ServingOK
    <2> QED  BY <2>1, <2>2, <2>3
  <1> QED
    BY <1>1, <1>2, <1>3, <1>4, <1>5, <1>6, <1>7, <1>8, <1>9, <1>10, <1>11, <1>12, <1>13, <1>14,
       <1>15 DEF ServerStep, Quit, ServeDies

-------------------------------------------------------------------------------
(* A peer that dials gets a connection that nobody has used.               *)
LEMMA DialGrants ==
  ASSUME GrantInv, NEW p \in Peers, Dial(p), NEW c \in Conns, conn'[p] = c,
         elsewhere' = elsewhere \/ elsewhere' = elsewhere \union {c}
  PROVE  IdentityOK' /\ JoinsOK' /\ ServingOK' /\ OwnedOK'
  <1>0. /\ ServeInv /\ UsesOK /\ IdentityOK /\ JoinsOK /\ ServingOK /\ OwnedOK
    BY DEF GrantInv, ServeInv
  <1>1. /\ Connect(c) /\ conn' = [conn EXCEPT ![p] = c] /\ join[p] = "idle" /\ invite # None
        /\ join' = [join EXCEPT ![p] = "connected"]
        /\ pinned' = [pinned EXCEPT ![p] = invite]
        /\ copy' = copy /\ UNCHANGED <<identityVars, serverVars>>
    <2>1. PICK d \in Conns : Connect(d) /\ conn' = [conn EXCEPT ![p] = d]
      BY DEF Dial, Unused
    <2>2. d = c  BY <1>0, <2>1 DEF UsesOK
    <2> QED  BY <2>1, <2>2 DEF Dial
  <1>2. /\ stream[c] = "none" /\ stream'[c] = "open" /\ wire' = wire
        /\ \A d \in Conns \ {c} : stream'[d] = stream[d] /\ ends'[d] = ends[d]
        /\ ends'[c]["serve"] = ends[c]["serve"]
    BY <1>0, <1>1, LinkTypes DEF Connect
  <1>3. /\ \A q \in Peers \ {p} : /\ join'[q] = join[q] /\ conn'[q] = conn[q]
                                  /\ pinned'[q] = pinned[q]
        /\ join'[p] = "connected" /\ pinned'[p] = invite /\ invite \in Nat /\ invite >= 1
        /\ pinned' \in [Peers -> Nat]
    BY <1>0, <1>1 DEF UsesOK, JoinsOK, IdentityOK, None
  <1>4. \A q \in Peers \ {p} : join[q] # "idle" => conn[q] # c /\ stream[conn[q]] # "none" /\ conn[q] \in Conns
    BY <1>0, <1>2 DEF JoinsOK, UsesOK
  <1>5. IdentityOK'  BY <1>0, <1>1, IdentityStutters DEF serverVars
  <1>6. JoinsOK'
    <2>1. pinned' \in [Peers -> Nat] /\ copy' = [q \in Peers |-> copy'[q]]
      BY <1>0, <1>1, <1>3 DEF JoinsOK
    <2>2. \A q \in Peers : join'[q] # "idle" => stream'[conn'[q]] # "none" /\ pinned'[q] >= 1
      BY <1>0, <1>2, <1>3, <1>4 DEF JoinsOK
    <2>3. \A q, r \in Peers : (join'[q] # "idle" /\ join'[r] # "idle" /\ conn'[q] = conn'[r]) => q = r
      BY <1>0, <1>3, <1>4 DEF JoinsOK
    <2>4. \A q \in Peers : join'[q] \in Asking => conn'[q] \notin elsewhere'
      BY <1>0, <1>3, <1>4 DEF JoinsOK, Asking
    <2>5. /\ \A q \in Peers : join'[q] \in {"received", "truncated"} => q \in Granted
          /\ \A q \in Peers : copy'[q] # None => q \in Granted
      BY <1>0, <1>1, <1>3 DEF JoinsOK
    <2> QED  BY <2>1, <2>2, <2>3, <2>4, <2>5 DEF JoinsOK
  <1>7. ServingOK'
    <2>1. server \in Busy => serving \in Conns /\ serving # c
      BY <1>0, <1>2 DEF ServingOK, UsesOK
    <2>2. server' = server /\ serving' = serving  BY <1>1 DEF serverVars
    <2>3. server \in Busy => stream'[serving] = stream[serving] /\ ends'[serving] = ends[serving]
                             /\ (serving \notin elsewhere => serving \notin elsewhere')
      BY <1>2, <2>1
    <2> QED  BY <1>0, <2>2, <2>3 DEF ServingOK, Busy
  <1>8. OwnedOK'
    <2>1. ASSUME NEW q \in Peers \ {p}, NEW d \in Conns, join'[q] # "idle", conn'[q] = d
          PROVE  Owned(q, d)'
      <3>1. Owned(q, d) /\ d # c  BY <1>0, <1>3, <1>4, <2>1 DEF OwnedOK
      <3>2. (d \in elsewhere') = (d \in elsewhere)  BY <3>1
      <3> QED  BY <1>2, <3>1, <3>2, OwnedUnmoved
    <2>2. Owned(p, c)'
      <3>1. /\ EndFacts(c, "serve") /\ Other("serve") = "dial"
            /\ EndFacts(c, "dial") /\ Other("dial") = "serve"
        BY <1>0, LinkTypes, TypesOfLinks DEF Other
      <3>2. ends[c]["dial"].stage = "none" /\ ends[c]["serve"].stage = "none"
        BY <1>2, <3>1 DEF EndFacts, EndOK
      <3>3. wire[c]["dial"] = <<>> /\ wire[c]["serve"] = <<>>
        <4>1. /\ NextRead(ends[c]["serve"]) + Len(wire[c]["dial"]) = NextWritten(ends[c]["dial"])
              /\ NextRead(ends[c]["dial"]) + Len(wire[c]["serve"]) = NextWritten(ends[c]["serve"])
          BY <1>2, <3>1, <3>2 DEF EndFacts, InOrder
        <4>2. /\ NextRead(ends[c]["serve"]) = -1 /\ NextWritten(ends[c]["dial"]) = -1
              /\ NextRead(ends[c]["dial"]) = -1 /\ NextWritten(ends[c]["serve"]) = -1
          BY <3>2 DEF NextRead, NextWritten
        <4>3. wire[c]["dial"] \in Seq(Messages) /\ wire[c]["serve"] \in Seq(Messages)
          BY <3>1 DEF EndFacts
        <4>4. Len(wire[c]["dial"]) = 0 /\ Len(wire[c]["serve"]) = 0
          BY <4>1, <4>2, <4>3
        <4> QED  BY <4>3, <4>4
      <3>4. /\ wire'[c]["dial"] = <<>> /\ wire'[c]["serve"] = <<>>
            /\ ends'[c]["serve"].stage = "none"
        BY <1>2, <3>2, <3>3
      <3> QED  BY <3>4 DEF Owned
    <2>3. ASSUME NEW q \in Peers, NEW d \in Conns, join'[q] # "idle", conn'[q] = d
          PROVE  Owned(q, d)'
      <3>1. CASE q = p
        <4>1. d = c  BY <2>3, <3>1
        <4> QED  BY <2>2, <3>1, <4>1
      <3>2. CASE q # p
        BY <2>1, <2>3, <3>2
      <3> QED  BY <3>1, <3>2
    <2> QED  BY <2>3 DEF OwnedOK
  <1> QED  BY <1>5, <1>6, <1>7, <1>8

-------------------------------------------------------------------------------
(* The other steps of a join.                                              *)
ServeEndsStay ==
  /\ \A c \in Conns : stream[c] # "none" => stream'[c] # "none"
  /\ \A c \in Conns : ends'[c]["serve"] = ends[c]["serve"]

LEMMA ServingStutters ==
  ASSUME GrantInv, ServeEndsStay, UNCHANGED <<server, serving, elsewhere>>
  PROVE  ServingOK'
  <1>1. server \in Busy => serving \in Conns  BY DEF GrantInv, ServeInv, UsesOK
  <1> QED  BY <1>1 DEF GrantInv, ServingOK, ServeEndsStay, Busy

(* Peer p moves on with its connection.                                    *)
LEMMA JoinsMove ==
  ASSUME GrantInv, NEW p \in Peers, NEW to \in JoinStates \ {"idle"}, join[p] # "idle",
         join' = [join EXCEPT ![p] = to], UNCHANGED <<conn, pinned, elsewhere>>,
         \A c \in Conns : stream[c] # "none" => stream'[c] # "none",
         to \in Asking => join[p] \in Asking \/ conn[p] \notin elsewhere,
         to \in {"received", "truncated"} => p \in Granted,
         copy' = copy \/ (p \in Granted /\ \E v : copy' = [copy EXCEPT ![p] = v])
  PROVE  JoinsOK'
  <1>0. JoinsOK /\ UsesOK  BY DEF GrantInv, ServeInv
  <1>1. join'[p] = to /\ \A q \in Peers \ {p} : join'[q] = join[q] /\ copy'[q] = copy[q]
    BY <1>0 DEF JoinsOK, UsesOK
  <1>2. \A q \in Peers : join'[q] # "idle" => join[q] # "idle" /\ conn[q] \in Conns
    BY <1>0, <1>1 DEF UsesOK
  <1>3. pinned' \in [Peers -> Nat] /\ copy' = [q \in Peers |-> copy'[q]]
    BY <1>0 DEF JoinsOK
  <1>4. \A q \in Peers : join'[q] # "idle" => stream'[conn'[q]] # "none" /\ pinned'[q] >= 1
    BY <1>0, <1>2 DEF JoinsOK
  <1>5. \A q, r \in Peers : (join'[q] # "idle" /\ join'[r] # "idle" /\ conn'[q] = conn'[r]) => q = r
    BY <1>0, <1>2 DEF JoinsOK
  <1>6. \A q \in Peers : join'[q] \in Asking => conn'[q] \notin elsewhere'
    BY <1>0, <1>1 DEF JoinsOK
  <1>7. /\ \A q \in Peers : join'[q] \in {"received", "truncated"} => q \in Granted
        /\ \A q \in Peers : copy'[q] # None => q \in Granted
    BY <1>0, <1>1 DEF JoinsOK
  <1> QED  BY <1>3, <1>4, <1>5, <1>6, <1>7 DEF JoinsOK

LEMMA OwnersMove ==
  ASSUME OwnedOK, NEW p \in Peers, NEW to, join[p] # "idle", join \in [Peers -> JoinStates],
         join' = [join EXCEPT ![p] = to], conn' = conn,
         \A q \in Peers, c \in Conns : (join[q] # "idle" /\ conn[q] = c /\ Owned(q, c)) => Owned(q, c)'
  PROVE  OwnedOK'
  <1>1. \A q \in Peers : join'[q] # "idle" => join[q] # "idle"  OBVIOUS
  <1> QED  BY <1>1 DEF OwnedOK

(* Peer p gives up its connection.                                         *)
LEMMA EndGrants ==
  ASSUME GrantInv, NEW p \in Peers, join[p] # "idle", join' = [join EXCEPT ![p] = "idle"],
         Close(conn[p], "dial"), Forget(p), UNCHANGED <<identityVars, serverVars, elsewhere>>,
         copy' = copy \/ (p \in Granted /\ \E v : copy' = [copy EXCEPT ![p] = v])
  PROVE  IdentityOK' /\ JoinsOK' /\ ServingOK' /\ OwnedOK'
  <1>0. /\ ServeInv /\ UsesOK /\ IdentityOK /\ JoinsOK /\ ServingOK /\ OwnedOK
    BY DEF GrantInv, ServeInv
  <1>1. join'[p] = "idle" /\ \A q \in Peers \ {p} : /\ join'[q] = join[q] /\ copy'[q] = copy[q]
                                                  /\ conn'[q] = conn[q] /\ pinned'[q] = pinned[q]
    BY <1>0 DEF JoinsOK, UsesOK, Forget
  <1>2. stream' = stream  BY DEF Close, CloseAll
  <1>3. ServeEndsStay
    <2>1. ASSUME NEW c \in Conns PROVE ends'[c]["serve"] = ends[c]["serve"]
      <3>1. ends'[c] = ends[c] \/ ends'[c] = [ends[c] EXCEPT !["dial"] = Dropped]
        BY DEF Close, CloseAll
      <3> QED  BY <1>0, <3>1, LinkTypes
    <2> QED  BY <1>2, <2>1 DEF ServeEndsStay
  <1>4. IdentityOK'  BY <1>0, IdentityStutters DEF serverVars
  <1>5. ServingOK'  BY <1>3, ServingStutters DEF serverVars
  <1>6. JoinsOK'
    <2>1. pinned' \in [Peers -> Nat] /\ copy' = [q \in Peers |-> copy'[q]]
      BY <1>0 DEF JoinsOK, Forget, None
    <2>2. \A q \in Peers : join'[q] # "idle" => stream'[conn'[q]] # "none" /\ pinned'[q] >= 1
      BY <1>0, <1>1, <1>2 DEF JoinsOK
    <2>3. \A q, r \in Peers : (join'[q] # "idle" /\ join'[r] # "idle" /\ conn'[q] = conn'[r]) => q = r
      BY <1>0, <1>1 DEF JoinsOK
    <2>4. \A q \in Peers : join'[q] \in Asking => conn'[q] \notin elsewhere'
      BY <1>0, <1>1 DEF JoinsOK, Asking
    <2>5. /\ \A q \in Peers : join'[q] \in {"received", "truncated"} => q \in Granted
          /\ \A q \in Peers : copy'[q] # None => q \in Granted
      BY <1>0, <1>1 DEF JoinsOK
    <2> QED  BY <2>1, <2>2, <2>3, <2>4, <2>5 DEF JoinsOK
  <1>7. OwnedOK'
    <2>1. ASSUME NEW q \in Peers, NEW c \in Conns, join'[q] # "idle", conn'[q] = c
          PROVE  Owned(q, c)'
      <3>1. Owned(q, c)  BY <1>0, <1>1, <2>1 DEF OwnedOK
      <3> QED  BY <1>0, <3>1, CloseAllOwned, LinkTypes DEF Close
    <2> QED  BY <2>1 DEF OwnedOK
  <1> QED  BY <1>4, <1>5, <1>6, <1>7

LEMMA JoinStepGrants ==
  ASSUME GrantInv, NEW p \in Peers, JoinStep(p)
  PROVE  IdentityOK' /\ JoinsOK' /\ ServingOK' /\ OwnedOK'
  <1>0. /\ ServeInv /\ UsesOK /\ IdentityOK /\ JoinsOK /\ ServingOK /\ OwnedOK
        /\ join \in [Peers -> JoinStates] /\ p \in Ids
        /\ join[p] # "idle" => conn[p] \in Conns /\ Owned(p, conn[p])
    BY DEF GrantInv, ServeInv, UsesOK, Ids, OwnedOK
  <1>1. ASSUME NEW at, NEW to, Step(p, at, to)
        PROVE  /\ IdentityOK' /\ join[p] = at /\ join' = [join EXCEPT ![p] = to]
               /\ UNCHANGED <<server, serving, elsewhere>> /\ UNCHANGED serverVars
    BY <1>0, <1>1, IdentityStutters DEF Step, serverVars, faultVars
  <1>2. CASE JoinHello(p)
    <2>1. /\ join[p] = "connected" /\ join' = [join EXCEPT ![p] = "hello"] /\ IdentityOK'
          /\ UNCHANGED <<server, serving, elsewhere, conn, pinned, copy>>
          /\ OfferHello(conn[p], p) /\ stream' = stream
      BY <1>1, <1>2 DEF JoinHello, OfferHello
    <2>2. ServeEndsStay
      BY <1>0, <2>1, LinkTypes DEF ServeEndsStay, OfferHello
    <2>3. ASSUME NEW q \in Peers, NEW c \in Conns, join[q] # "idle", conn[q] = c, Owned(q, c)
          PROVE  Owned(q, c)'
      <3>1. c = conn[p] => q = p  BY <1>0, <2>1, <2>3 DEF JoinsOK
      <3> QED  BY <1>0, <2>1, <2>3, <3>1, OfferHelloOwned
    <2>4. OwnedOK'  BY <1>0, <2>1, <2>3, OwnersMove
    <2>5. JoinsOK'  BY <2>1, JoinsMove DEF JoinStates, Asking
    <2> QED  BY <2>1, <2>2, <2>4, <2>5, ServingStutters
  <1>3. CASE JoinVerify(p)
    <2>1. /\ join[p] = "hello" /\ join' = [join EXCEPT ![p] = "ask"] /\ IdentityOK'
          /\ UNCHANGED <<server, serving, elsewhere, conn, pinned, copy>>
          /\ FinishHello(conn[p], pinned[p]) /\ stream' = stream
      BY <1>1, <1>3 DEF JoinVerify, FinishHello
    <2>2. ServeEndsStay
      BY <1>0, <2>1, LinkTypes DEF ServeEndsStay, FinishHello, Ready
    <2>3. conn[p] \notin elsewhere
      <3>1. /\ wire[conn[p]]["serve"] # <<>>
            /\ Head(wire[conn[p]]["serve"]).kind = "hello"
            /\ Head(wire[conn[p]]["serve"]).id = pinned[p]
        BY <2>1 DEF FinishHello, AwaitsHello, IsPinned, HelloFrom, Arrived, FirstFrame, Other
      <3>2. Head(wire[conn[p]]["serve"]) \in ToPeer(p, conn[p] \in elsewhere)
        BY <1>0, <2>1, <3>1, HeadWithin DEF Owned
      <3>3. pinned[p] \in Nat  BY <1>0 DEF JoinsOK
      <3> QED  BY <3>1, <3>2, <3>3 DEF ToPeer, Stranger
    <2>4. OwnedOK'  BY <1>0, <2>1, FinishHelloOwned, OwnersMove
    <2>5. JoinsOK'  BY <2>1, <2>3, JoinsMove DEF JoinStates
    <2> QED  BY <2>1, <2>2, <2>4, <2>5, ServingStutters
  <1>4. CASE JoinAsk(p)
    <2>1. /\ join[p] = "ask" /\ join' = [join EXCEPT ![p] = "wait"] /\ IdentityOK'
          /\ UNCHANGED <<server, serving, elsewhere, conn, pinned, copy>>
          /\ Send(conn[p], "dial", ChainState) /\ stream' = stream
      BY <1>1, <1>4 DEF JoinAsk, Send
    <2>2. ServeEndsStay
      BY <1>0, <2>1, LinkTypes DEF ServeEndsStay, Send
    <2>3. ChainState \in Bodies  BY DEF ChainState, None, Bodies
    <2>4. OwnedOK'  BY <1>0, <2>1, <2>3, SendOwned, OwnersMove
    <2>5. JoinsOK'  BY <2>1, JoinsMove DEF JoinStates, Asking
    <2> QED  BY <2>1, <2>2, <2>4, <2>5, ServingStutters
  <1>5. CASE JoinReceive(p)
    <2> DEFINE frame == FirstFrame(conn[p], "dial")
    <2>1. PICK to \in {"refused", "received"} :
            /\ join[p] = "wait" /\ join' = [join EXCEPT ![p] = to] /\ IdentityOK'
            /\ to = "received" => frame.body # Refusal
            /\ UNCHANGED <<server, serving, elsewhere, conn, pinned, copy>>
            /\ Receive(conn[p], "dial") /\ stream' = stream
      BY <1>1, <1>5 DEF JoinReceive, Receive
    <2>2. ServeEndsStay
      BY <1>0, <2>1, LinkTypes DEF ServeEndsStay, Receive
    <2>3. to = "received" => p \in Granted
      <3>1. wire[conn[p]]["serve"] # <<>> /\ frame = Head(wire[conn[p]]["serve"]) /\ frame.kind = "frame"
        BY <2>1 DEF Receive, Opens, Arrived, FirstFrame, Other
      <3>2. frame \in ToPeer(p, conn[p] \in elsewhere)
        BY <1>0, <2>1, <3>1, HeadWithin DEF Owned
      <3> QED  BY <2>1, <3>1, <3>2 DEF ToPeer
    <2>4. OwnedOK'
      <3>1. "dial" \in Ends  BY DEF Ends
      <3> QED  BY <1>0, <2>1, <3>1, ReceiveOwned, OwnersMove
    <2>5. JoinsOK'
      <3>1. to \in JoinStates \ {"idle"}  BY DEF JoinStates
      <3> QED  BY <2>1, <2>3, <3>1, JoinsMove DEF Asking
    <2> QED  BY <2>1, <2>2, <2>4, <2>5, ServingStutters
  <1>6. CASE Truncate(p)
    <2>1. /\ join[p] = "received" /\ join' = [join EXCEPT ![p] = "truncated"] /\ IdentityOK'
          /\ UNCHANGED <<server, serving, elsewhere, conn, pinned, channelVars>>
          /\ copy' = [copy EXCEPT ![p] = Torn] /\ p \in Granted
      BY <1>0, <1>1, <1>6 DEF Truncate, JoinsOK
    <2>2. ServeEndsStay  BY <2>1 DEF ServeEndsStay, channelVars
    <2>3. OwnedOK'
      BY <1>0, <2>1, OwnedUnmoved, OwnersMove DEF channelVars
    <2>4. JoinsOK'
      <3>1. \E v : copy' = [copy EXCEPT ![p] = v]  BY <2>1
      <3>2. "truncated" \in JoinStates \ {"idle"} /\ join[p] \in Asking /\ join[p] # "idle"
        BY <2>1 DEF JoinStates, Asking
      <3> QED  BY <2>1, <2>2, <3>1, <3>2, JoinsMove DEF ServeEndsStay
    <2> QED  BY <2>1, <2>2, <2>3, <2>4, ServingStutters
  <1>7. ASSUME NEW at \in JoinStates \ {"idle"}, NEW how, EndJoin(p, at, how),
               copy' = copy \/ (p \in Granted /\ \E v : copy' = [copy EXCEPT ![p] = v])
        PROVE  IdentityOK' /\ JoinsOK' /\ ServingOK' /\ OwnedOK'
    BY <1>7, EndGrants DEF EndJoin, Step, faultVars
  <1>8. CASE FinishJoin(p)
    <2>1. p \in Granted  BY <1>0, <1>8 DEF FinishJoin, EndJoin, Step, JoinsOK
    <2> QED  BY <1>7, <1>8, <2>1 DEF FinishJoin, JoinStates
  <1>9. CASE WrongIdentity(p) \/ Refused(p) \/ JoinReadFails(p)
    BY <1>7, <1>9 DEF WrongIdentity, Refused, JoinReadFails, JoinStates
  <1> QED
    BY <1>2, <1>3, <1>4, <1>5, <1>6, <1>8, <1>9 DEF JoinStep

LEMMA PeersGrant ==
  ASSUME GrantInv,
         \/ \E p \in Peers : StartJoin(p) \/ JoinStep(p) \/ JoinDies(p) \/ DialElsewhere(p)
         \/ \E c \in Conns : OtherAnswers(c) \/ CutStream(c) \/ FallSilent(c)
  PROVE  IdentityOK' /\ JoinsOK' /\ ServingOK' /\ OwnedOK'
  <1>0. /\ ServeInv /\ UsesOK /\ IdentityOK /\ JoinsOK /\ ServingOK /\ OwnedOK
    BY DEF GrantInv, ServeInv
  <1>1. ASSUME NEW p \in Peers, StartJoin(p) \/ DialElsewhere(p)
        PROVE  IdentityOK' /\ JoinsOK' /\ ServingOK' /\ OwnedOK'
    <2>1. Dial(p)  BY <1>1 DEF StartJoin, DialElsewhere
    <2>2. PICK c \in Conns : conn' = [conn EXCEPT ![p] = c]  BY <2>1 DEF Dial, Unused
    <2>3. conn'[p] = c  BY <1>0, <2>2 DEF UsesOK
    <2>4. elsewhere' = elsewhere \/ elsewhere' = elsewhere \union {c}
      BY <1>1, <2>3 DEF StartJoin, DialElsewhere
    <2> QED  BY <2>1, <2>3, <2>4, DialGrants
  <1>2. ASSUME NEW p \in Peers, JoinDies(p)
        PROVE  IdentityOK' /\ JoinsOK' /\ ServingOK' /\ OwnedOK'
    BY <1>2, EndGrants DEF JoinDies
  <1>3. ASSUME UNCHANGED <<identityVars, serverVars, joinVars, elsewhere>>, ServeEndsStay,
               \A p \in Peers, c \in Conns : (join[p] # "idle" /\ conn[p] = c /\ Owned(p, c)) => Owned(p, c)'
        PROVE  IdentityOK' /\ JoinsOK' /\ ServingOK' /\ OwnedOK'
    <2>1. IdentityOK'  BY <1>0, <1>3, IdentityStutters DEF serverVars
    <2>2. JoinsOK'  BY <1>0, <1>3, JoinsStutter DEF joinVars, ServeEndsStay
    <2>3. ServingOK'  BY <1>3, ServingStutters DEF serverVars
    <2>4. OwnedOK'  BY <1>0, <1>3, OwnersStay DEF joinVars
    <2> QED  BY <2>1, <2>2, <2>3, <2>4
  <1>4. ASSUME NEW d \in Conns, OtherAnswers(d)
        PROVE  IdentityOK' /\ JoinsOK' /\ ServingOK' /\ OwnedOK'
    <2>1. /\ d \in elsewhere /\ AnswerHello(d, Stranger) /\ stream' = stream
          /\ UNCHANGED <<identityVars, serverVars, joinVars, elsewhere>> /\ Stranger \in Ids
      BY <1>4 DEF OtherAnswers, AnswerHello, faultVars, Stranger, Ids
    <2>2. IdentityOK'  BY <1>0, <2>1, IdentityStutters DEF serverVars
    <2>3. JoinsOK'  BY <1>0, <2>1, JoinsStutter DEF joinVars
    <2>4. ServingOK'
      <3>1. \A c \in Conns \ {d} : ends'[c] = ends[c]
        BY <1>0, <2>1, LinkTypes DEF AnswerHello, Ready
      <3>2. server \in Busy => serving \in Conns \ {d}
        BY <1>0, <2>1 DEF ServingOK, UsesOK
      <3> QED  BY <1>0, <2>1, <3>1, <3>2 DEF ServingOK, serverVars, Busy
    <2>5. OwnedOK'
      BY <1>0, <2>1, AnswerHelloOwned, OwnersStay DEF joinVars
    <2> QED  BY <2>2, <2>3, <2>4, <2>5
  <1>5. ASSUME NEW d \in Conns, CutStream(d)
        PROVE  IdentityOK' /\ JoinsOK' /\ ServingOK' /\ OwnedOK'
    <2>1. Cut(d) /\ UNCHANGED <<identityVars, serverVars, joinVars, elsewhere>>
      BY <1>5 DEF CutStream
    <2>2. ServeEndsStay
      BY <1>0, <2>1, LinkTypes DEF ServeEndsStay, Cut
    <2> QED  BY <1>0, <1>3, <2>1, <2>2, CutOwned
  <1>6. ASSUME NEW d \in Conns, FallSilent(d)
        PROVE  IdentityOK' /\ JoinsOK' /\ ServingOK' /\ OwnedOK'
    <2>1. UNCHANGED <<channelVars, identityVars, serverVars, joinVars, elsewhere>>
      BY <1>6 DEF FallSilent
    <2>2. ServeEndsStay  BY <2>1 DEF ServeEndsStay, channelVars
    <2> QED  BY <1>3, <2>1, <2>2, OwnedUnmoved DEF channelVars
  <1> QED
    BY <1>1, <1>2, <1>4, <1>5, <1>6, JoinStepGrants

LEMMA GrantInvHolds == ServeSpec => []GrantInv
  <1>1. ServeInit => IdentityOK /\ JoinsOK /\ ServingOK /\ OwnedOK
    <2> SUFFICES ASSUME ServeInit PROVE IdentityOK /\ JoinsOK /\ ServingOK /\ OwnedOK
      OBVIOUS
    <2>1. IdentityOK
      BY DEF ServeInit, IdentityInit, IdentityOK, Missing, None
    <2>2. /\ join = [p \in Peers |-> "idle"] /\ pinned = [p \in Peers |-> None]
          /\ copy = [p \in Peers |-> None] /\ server = "off"
      BY DEF ServeInit
    <2>3. JoinsOK  BY <2>2 DEF JoinsOK, None, Asking
    <2>4. ServingOK  BY <2>2 DEF ServingOK, Busy
    <2>5. OwnedOK  BY <2>2 DEF OwnedOK
    <2> QED  BY <2>1, <2>3, <2>4, <2>5
  <1>2. ServeInv /\ IdentityOK /\ JoinsOK /\ ServingOK /\ OwnedOK /\ ServeInv' /\ [ServeNext]_serveVars
          => IdentityOK' /\ JoinsOK' /\ ServingOK' /\ OwnedOK'
    <2> SUFFICES ASSUME GrantInv, [ServeNext]_serveVars
                 PROVE  IdentityOK' /\ JoinsOK' /\ ServingOK' /\ OwnedOK'
      BY DEF GrantInv
    <2>1. CASE ServeNext
      BY <2>1, ServerGrants, PeersGrant DEF ServeNext
    <2>2. CASE UNCHANGED serveVars
      <3>1. UNCHANGED <<channelVars, identityVars, serverVars, joinVars, faultVars>>
        BY <2>2 DEF serveVars
      <3>2. UNCHANGED <<join, conn, pinned, copy, elsewhere, invite, server, serving>>
        BY <3>1 DEF serverVars, joinVars, faultVars
      <3>3. ServeEndsStay  BY <3>1 DEF ServeEndsStay, channelVars
      <3>4. IdentityOK'  BY <3>1, <3>2, IdentityStutters DEF GrantInv
      <3>5. JoinsOK'
        BY <3>2, <3>3, JoinsStutter DEF GrantInv, ServeInv, ServeEndsStay
      <3>6. ServingOK'  BY <3>2, <3>3, ServingStutters
      <3>7. OwnedOK'  BY <3>1, <3>2, OwnersStutter DEF GrantInv
      <3> QED  BY <3>4, <3>5, <3>6, <3>7
    <2> QED  BY <2>1, <2>2
  <1> QED  BY <1>1, <1>2, ServeInvHolds, PTL DEF ServeSpec, GrantInv

(* Only a peer in the keyring ever has anything of the vault on its disk,  *)
(* and it takes it from no node but the one that its invite names          *)
(* (serve_stream, join, initiator).                                        *)
THEOREM CopiesStayGranted == ServeSpec => []CopiesAreGranted
  <1>1. GrantInv => CopiesAreGranted
    BY DEF GrantInv, JoinsOK, CopiesAreGranted, Asking
  <1> QED  BY <1>1, GrantInvHolds, PTL

-------------------------------------------------------------------------------
(* The identity file: while it is missing or damaged nobody has an         *)
(* identity and one process at most is writing it; once it is written,     *)
(* everybody who has one has that one.                                     *)
Writing(q) == loader[q] \in {"generated", "opened"}
SettledOK ==
  ~unsettled =>
    /\ idFile \in {Missing, Damaged} =>
         /\ invite = None /\ \A q \in Procs : ~HasIdentity(q)
         /\ \A p, q \in Procs : Writing(p) /\ Writing(q) => p = q
    /\ idFile \notin {Missing, Damaged} =>
         /\ invite \in {None, idFile}
         /\ \A q \in Procs : ~Writing(q) /\ (HasIdentity(q) => loaded[q] = idFile)

LEMMA IdentitySteps ==
  ASSUME IdentityOK, SettledOK, NEW q \in Procs,
         \/ invite' = invite /\ (LoadIdentity(q) \/ TruncateIdentity(q) \/ WriteIdentity(q) \/ Unload(q))
         \/ Unload(q) /\ HasIdentity(q) /\ invite' = loaded[q]
         \/ LoseIdentity
         \/ UNCHANGED <<identityVars, invite>>
  PROVE  SettledOK'
  <1> USE DEF IdentityOK, SettledOK, Writing, HasIdentity
  <1>1. CASE invite' = invite /\ LoadIdentity(q)
    <2>1. \A p \in Procs \ {q} : loader'[p] = loader[p] /\ loaded'[p] = loaded[p]
      BY <1>1 DEF LoadIdentity
    <2>2. CASE idFile \notin {Missing, Damaged}
      <3>1. loader'[q] = "done" /\ loaded'[q] = idFile /\ idFile' = idFile /\ unsettled' = unsettled
        BY <1>1, <2>2 DEF LoadIdentity
      <3> QED  BY <1>1, <2>1, <2>2, <3>1 DEF Missing, Damaged
    <2>3. CASE idFile \in {Missing, Damaged}
      <3>1. /\ loader'[q] = "generated" /\ idFile' = idFile
            /\ ~unsettled' => ~unsettled /\ \A p \in Procs : ~Writing(p)
        BY <1>1, <2>3 DEF LoadIdentity
      <3> QED  BY <1>1, <2>1, <2>3, <3>1
    <2> QED  BY <2>2, <2>3
  <1>2. CASE invite' = invite /\ TruncateIdentity(q)
    <2>1. /\ loader[q] = "generated" /\ loader'[q] = "opened" /\ loaded' = loaded
          /\ \A p \in Procs \ {q} : loader'[p] = loader[p]
          /\ idFile' = Damaged /\ unsettled' = unsettled
      BY <1>2 DEF TruncateIdentity
    <2> QED  BY <1>2, <2>1
  <1>3. CASE invite' = invite /\ WriteIdentity(q)
    <2>1. /\ loader[q] = "opened" /\ loader'[q] = "done" /\ loaded' = loaded
          /\ \A p \in Procs \ {q} : loader'[p] = loader[p]
          /\ idFile' = loaded[q] /\ loaded[q] >= 1 /\ loaded[q] \in Nat /\ unsettled' = unsettled
      BY <1>3 DEF WriteIdentity
    <2>2. idFile' \notin {Missing, Damaged}  BY <2>1 DEF Missing, Damaged
    <2>3. ~unsettled => idFile \in {Missing, Damaged}  BY <2>1
    <2>4. ~unsettled => /\ invite = None
                        /\ \A p \in Procs \ {q} : loader'[p] \notin {"generated", "opened", "done"}
      BY <2>1, <2>3
    <2> QED  BY <1>3, <2>1, <2>2, <2>4
  <1>4. CASE Unload(q) /\ (invite' = invite \/ (HasIdentity(q) /\ invite' = loaded[q]))
    <2>1. /\ loader'[q] = "off" /\ idFile' = idFile /\ unsettled' = unsettled
          /\ \A p \in Procs \ {q} : loader'[p] = loader[p] /\ loaded'[p] = loaded[p]
      BY <1>4 DEF Unload
    <2> QED  BY <1>4, <2>1
  <1>5. CASE LoseIdentity
    BY <1>5 DEF LoseIdentity
  <1>6. CASE UNCHANGED <<identityVars, invite>>
    BY <1>6 DEF identityVars
  <1> QED  BY <1>1, <1>2, <1>3, <1>4, <1>5, <1>6

(* The steps that leave the identity alone.                                *)
LEMMA IdentityAlone ==
  ASSUME \/ Listen \/ AnswerPeer \/ Refuse \/ ReadRequest \/ SendCopy \/ PeerFails \/ HandleLine
         \/ \E line \in {"command", "quit"} : TypeLine(line)
         \/ \E p \in Peers : StartJoin(p) \/ JoinStep(p) \/ JoinDies(p) \/ DialElsewhere(p)
         \/ \E c \in Conns : OtherAnswers(c) \/ CutStream(c) \/ FallSilent(c)
         \/ UNCHANGED serveVars
  PROVE  UNCHANGED <<identityVars, invite>>
  <1>1. ASSUME NEW p \in Peers, NEW at, NEW to, Step(p, at, to)
        PROVE  UNCHANGED <<identityVars, invite>>
    BY <1>1 DEF Step, serverVars
  <1>2. ASSUME NEW p \in Peers, JoinStep(p)
        PROVE  UNCHANGED <<identityVars, invite>>
    BY <1>1, <1>2
    DEF JoinStep, JoinHello, JoinVerify, JoinAsk, JoinReceive, Truncate, FinishJoin, WrongIdentity,
        Refused, JoinReadFails, EndJoin
  <1>3. ASSUME NEW p \in Peers, StartJoin(p) \/ JoinDies(p) \/ DialElsewhere(p)
        PROVE  UNCHANGED <<identityVars, invite>>
    BY <1>3 DEF StartJoin, JoinDies, DialElsewhere, Dial, serverVars
  <1>4. ASSUME NEW c \in Conns, OtherAnswers(c) \/ CutStream(c) \/ FallSilent(c)
        PROVE  UNCHANGED <<identityVars, invite>>
    BY <1>4 DEF OtherAnswers, CutStream, FallSilent, serverVars
  <1>5. ASSUME \/ Listen \/ AnswerPeer \/ Refuse \/ ReadRequest \/ SendCopy \/ PeerFails \/ HandleLine
               \/ \E line \in {"command", "quit"} : TypeLine(line)
        PROVE  UNCHANGED <<identityVars, invite>>
    BY <1>5
    DEF Listen, AnswerPeer, Refuse, ReadRequest, SendCopy, PeerFails, HandleLine, TypeLine, ServeUnchanged
  <1> QED  BY <1>2, <1>3, <1>4, <1>5 DEF serveVars, serverVars

LEMMA SettledHolds == ServeSpec => []SettledOK
  <1>1. ServeInit => SettledOK
    BY DEF ServeInit, IdentityInit, SettledOK, Writing, HasIdentity, Missing, None
  <1>2. GrantInv /\ SettledOK /\ [ServeNext]_serveVars => SettledOK'
    <2> SUFFICES ASSUME GrantInv, SettledOK, [ServeNext]_serveVars PROVE SettledOK'
      OBVIOUS
    <2> USE ProcsThereAre
    <2>0. IdentityOK  BY DEF GrantInv
    <2>1. CASE StartWhoami
      BY <2>0, <2>1, IdentitySteps DEF StartWhoami, serverVars
    <2>2. CASE PrintInvite
      BY <2>0, <2>2, IdentitySteps DEF PrintInvite
    <2>3. CASE StartServe \/ AcceptPeer
      BY <2>0, <2>3, IdentitySteps DEF StartServe, AcceptPeer
    <2>4. ASSUME NEW q \in Procs, CreateIdentity(q)
          PROVE  SettledOK'
      BY <2>0, <2>4, IdentitySteps DEF CreateIdentity, serverVars
    <2>5. CASE Quit \/ ServeDies
      BY <2>0, <2>5, IdentitySteps DEF Quit, ServeDies, Exit
    <2>6. CASE WhoamiDies \/ IdentityLost
      BY <2>0, <2>6, IdentitySteps DEF WhoamiDies, IdentityLost, serverVars
    <2>7. CASE UNCHANGED <<identityVars, invite>>
      BY <2>0, <2>7, IdentitySteps
    <2> QED
      BY <2>1, <2>2, <2>3, <2>4, <2>5, <2>6, <2>7, IdentityAlone DEF ServeNext, ServerStep
  <1> QED  BY <1>1, <1>2, GrantInvHolds, PTL DEF ServeSpec

(* The identity that invites name is the one that serves, unless the file  *)
(* was lost or two processes created it at a time (load_or_create).        *)
THEOREM IdentityStaysStable == ServeSpec => []IdentityStable
  <1>1. SettledOK => IdentityStable
    BY DEF SettledOK, IdentityStable
  <1> QED  BY <1>1, SettledHolds, PTL

-------------------------------------------------------------------------------
(* Types: identities are among those that were generated, and a connection *)
(* is being served just when the server is busy.                           *)
BoundsOK ==
  /\ idFile <= generated /\ invite <= generated
  /\ \A q \in Procs : loaded[q] <= generated

LEMMA BoundsSteps ==
  ASSUME IdentityOK, BoundsOK, NEW q \in Procs,
         \/ invite' = invite /\ (LoadIdentity(q) \/ TruncateIdentity(q) \/ WriteIdentity(q) \/ Unload(q))
         \/ Unload(q) /\ invite' = loaded[q]
         \/ invite' = invite /\ LoseIdentity
         \/ UNCHANGED <<identityVars, invite>>
  PROVE  BoundsOK'
  <1>0. /\ idFile \in Int /\ generated \in Nat /\ loaded \in [Procs -> Nat] /\ invite \in Nat
        /\ idFile <= generated /\ invite <= generated /\ \A p \in Procs : loaded[p] <= generated
    BY DEF IdentityOK, BoundsOK
  <1>1. CASE invite' = invite /\ LoadIdentity(q)
    <2>1. CASE generated' = generated /\ loaded' = [loaded EXCEPT ![q] = idFile] /\ idFile' = idFile
      BY <1>0, <1>1, <2>1 DEF BoundsOK
    <2>2. CASE generated' = generated + 1 /\ loaded' = [loaded EXCEPT ![q] = generated + 1] /\ idFile' = idFile
      <3>1. \A p \in Procs : loaded'[p] <= generated'
        BY <1>0, <2>2
      <3> QED  BY <1>0, <1>1, <2>2, <3>1 DEF BoundsOK
    <2> QED  BY <1>1, <2>1, <2>2 DEF LoadIdentity
  <1>2. CASE invite' = invite /\ (TruncateIdentity(q) \/ WriteIdentity(q) \/ LoseIdentity)
    <2>1. loaded' = loaded /\ generated' = generated /\ idFile' \in {-1, loaded[q]}
      BY <1>2 DEF TruncateIdentity, WriteIdentity, LoseIdentity, Damaged
    <2> QED  BY <1>0, <1>2, <2>1 DEF BoundsOK
  <1>3. CASE Unload(q) /\ invite' \in {invite, loaded[q]}
    <2>1. /\ loaded' = [loaded EXCEPT ![q] = 0] /\ generated' = generated /\ idFile' = idFile
      BY <1>3 DEF Unload, Missing
    <2> QED  BY <1>0, <1>3, <2>1 DEF BoundsOK
  <1>4. CASE UNCHANGED <<identityVars, invite>>
    BY <1>0, <1>4 DEF BoundsOK, identityVars
  <1> QED  BY <1>1, <1>2, <1>3, <1>4

LEMMA BoundsHold == ServeSpec => []BoundsOK
  <1>1. ServeInit => BoundsOK
    <2> SUFFICES ASSUME ServeInit PROVE BoundsOK
      OBVIOUS
    <2>1. idFile = 0 /\ generated = 0 /\ invite = 0 /\ \A q \in Procs : loaded[q] = 0
      BY DEF ServeInit, IdentityInit, Missing, None
    <2> QED  BY <2>1 DEF BoundsOK
  <1>2. GrantInv /\ BoundsOK /\ [ServeNext]_serveVars => BoundsOK'
    <2> SUFFICES ASSUME GrantInv, BoundsOK, [ServeNext]_serveVars PROVE BoundsOK'
      OBVIOUS
    <2> USE ProcsThereAre
    <2>0. IdentityOK  BY DEF GrantInv
    <2>1. CASE StartWhoami
      BY <2>0, <2>1, BoundsSteps DEF StartWhoami, serverVars
    <2>2. CASE PrintInvite
      BY <2>0, <2>2, BoundsSteps DEF PrintInvite
    <2>3. CASE StartServe \/ AcceptPeer
      BY <2>0, <2>3, BoundsSteps DEF StartServe, AcceptPeer
    <2>4. ASSUME NEW q \in Procs, CreateIdentity(q)
          PROVE  BoundsOK'
      BY <2>0, <2>4, BoundsSteps DEF CreateIdentity, serverVars
    <2>5. CASE Quit \/ ServeDies
      BY <2>0, <2>5, BoundsSteps DEF Quit, ServeDies, Exit
    <2>6. CASE WhoamiDies \/ IdentityLost
      BY <2>0, <2>6, BoundsSteps DEF WhoamiDies, IdentityLost, serverVars
    <2>7. CASE UNCHANGED <<identityVars, invite>>
      BY <2>0, <2>7, BoundsSteps
    <2> QED
      BY <2>1, <2>2, <2>3, <2>4, <2>5, <2>6, <2>7, IdentityAlone DEF ServeNext, ServerStep
  <1> QED  BY <1>1, <1>2, GrantInvHolds, PTL DEF ServeSpec

TypesOK ==
  /\ server \in {"off", "ended", "starting", "select", "accepted", "refuse", "request", "answer"}
  /\ server \notin Busy => serving = None
  /\ typed \in {"none", "command", "quit"}
  /\ version \in 1 .. MaxVersion
  /\ result \in [Peers -> {"none", "joined", "failed"}]
  /\ elsewhere \subseteq Conns /\ silent \subseteq Conns /\ disturbed \subseteq Conns
  /\ faults \in 0 .. MaxFaults

LEMMA ServerTypes ==
  ASSUME TypesOK,
         \/ StartWhoami \/ PrintInvite \/ StartServe \/ ServerStep
         \/ \E q \in Procs : CreateIdentity(q)
         \/ \E line \in {"command", "quit"} : TypeLine(line)
         \/ ServeDies \/ WhoamiDies \/ IdentityLost
  PROVE  TypesOK'
  <1>1. CASE \/ StartWhoami \/ PrintInvite \/ StartServe \/ Listen \/ AcceptPeer \/ AnswerPeer \/ ReadRequest
             \/ \E q \in Procs : CreateIdentity(q)
    <2>1. /\ UNCHANGED <<typed, version, result, elsewhere, silent, disturbed, faults>>
          /\ \/ UNCHANGED <<server, serving>>
             \/ server' = "starting" /\ serving' = serving /\ server = "off"
             \/ server' = "select" /\ serving' = serving /\ server = "starting"
             \/ server' \in Busy
      BY <1>1
      DEF StartWhoami, PrintInvite, StartServe, Listen, AcceptPeer, AnswerPeer, ReadRequest,
          CreateIdentity, serverVars, joinVars, faultVars, ServeUnchanged, Busy
    <2> QED  BY <2>1 DEF TypesOK, Busy
  <1>2. CASE Refuse \/ SendCopy \/ PeerFails
    <2>1. /\ UNCHANGED <<typed, version, result, elsewhere, silent, disturbed, faults>>
          /\ server' = "select" /\ serving' = None
      BY <1>2 DEF Refuse, SendCopy, PeerFails, BackToSelect, joinVars, faultVars, ServeUnchanged
    <2> QED  BY <2>1 DEF TypesOK
  <1>3. CASE HandleLine \/ \E line \in {"command", "quit"} : TypeLine(line)
    <2>1. /\ UNCHANGED <<server, serving, result, elsewhere, silent, disturbed, faults>>
          /\ typed' \in {"none", "command", "quit"} /\ version' \in 1 .. MaxVersion
      BY <1>3 DEF HandleLine, TypeLine, TypesOK, joinVars, faultVars
    <2> QED  BY <2>1 DEF TypesOK
  <1>4. ASSUME NEW to \in {"off", "ended"}, Exit(to), faults' \in 0 .. MaxFaults
        PROVE  TypesOK'
    <2>1. /\ UNCHANGED <<version, result, elsewhere, silent>> /\ disturbed' \subseteq Conns
          /\ server' = to /\ serving' = None /\ typed' = "none"
      BY <1>4 DEF Exit, joinVars, Connected, TypesOK
    <2> QED  BY <1>4, <2>1 DEF TypesOK
  <1>5. CASE Quit  BY <1>4, <1>5 DEF Quit, TypesOK
  <1>6. faults < MaxFaults /\ faults' = faults + 1 => faults' \in 0 .. MaxFaults
    BY ServeBounds DEF TypesOK
  <1>7. CASE ServeDies  BY <1>4, <1>6, <1>7 DEF ServeDies
  <1>8. CASE WhoamiDies \/ IdentityLost
    <2>1. /\ UNCHANGED <<server, serving, typed, version, result, elsewhere, silent>>
          /\ disturbed' = disturbed \union {} /\ faults' \in 0 .. MaxFaults
      BY <1>6, <1>8 DEF WhoamiDies, IdentityLost, Fault, serverVars, joinVars
    <2> QED  BY <2>1 DEF TypesOK
  <1> QED  BY <1>1, <1>2, <1>3, <1>5, <1>7, <1>8 DEF ServerStep

LEMMA PeerTypes ==
  ASSUME TypesOK, UsesOK,
         \/ \E p \in Peers : StartJoin(p) \/ JoinStep(p) \/ JoinDies(p) \/ DialElsewhere(p)
         \/ \E c \in Conns : OtherAnswers(c) \/ CutStream(c) \/ FallSilent(c)
  PROVE  TypesOK'
  <1>6. faults < MaxFaults /\ faults' = faults + 1 => faults' \in 0 .. MaxFaults
    BY ServeBounds DEF TypesOK
  <1>1. ASSUME NEW p \in Peers, StartJoin(p) \/ DialElsewhere(p)
        PROVE  TypesOK'
    <2>1. PICK c \in Conns : conn' = [conn EXCEPT ![p] = c]
      BY <1>1 DEF StartJoin, DialElsewhere, Dial, Unused
    <2>2. conn'[p] = c  BY <2>1 DEF UsesOK
    <2>3. /\ UNCHANGED <<server, serving, typed, version, silent, disturbed>>
          /\ result' = [result EXCEPT ![p] = "none"] /\ elsewhere' \subseteq Conns
          /\ faults' \in 0 .. MaxFaults
      BY <1>1, <1>6, <2>2 DEF StartJoin, DialElsewhere, Dial, serverVars, TypesOK
    <2> QED  BY <2>3 DEF TypesOK
  <1>2. ASSUME NEW p \in Peers, JoinStep(p)
        PROVE  TypesOK'
    <2>1. ASSUME NEW at, NEW to, Step(p, at, to)
          PROVE  UNCHANGED <<server, serving, typed, version, elsewhere, silent, disturbed, faults>>
      BY <2>1 DEF Step, serverVars, faultVars
    <2>2. /\ UNCHANGED <<server, serving, typed, version, elsewhere, silent, disturbed, faults>>
          /\ result' = result \/ \E how \in {"joined", "failed"} : result' = [result EXCEPT ![p] = how]
      BY <1>2, <2>1
      DEF JoinStep, JoinHello, JoinVerify, JoinAsk, JoinReceive, Truncate, FinishJoin, WrongIdentity,
          Refused, JoinReadFails, EndJoin
    <2>3. result' \in [Peers -> {"none", "joined", "failed"}]  BY <2>2 DEF TypesOK
    <2> QED  BY <2>2, <2>3 DEF TypesOK
  <1>3. ASSUME NEW p \in Peers, JoinDies(p)
        PROVE  TypesOK'
    <2>1. conn[p] \in Conns  BY <1>3 DEF JoinDies, UsesOK
    <2>2. /\ UNCHANGED <<server, serving, typed, version, elsewhere, silent>>
          /\ result' = [result EXCEPT ![p] = "failed"] /\ disturbed' = disturbed \union {conn[p]}
          /\ faults' \in 0 .. MaxFaults
      BY <1>3, <1>6 DEF JoinDies, Fault, serverVars
    <2> QED  BY <2>1, <2>2 DEF TypesOK
  <1>4. ASSUME NEW c \in Conns, OtherAnswers(c)
        PROVE  TypesOK'
    BY <1>4 DEF OtherAnswers, serverVars, joinVars, faultVars, TypesOK
  <1>5. ASSUME NEW c \in Conns, CutStream(c) \/ FallSilent(c)
        PROVE  TypesOK'
    <2>1. /\ UNCHANGED <<server, serving, typed, version, elsewhere, result>>
          /\ silent' \subseteq Conns /\ disturbed' = disturbed \union {c}
          /\ faults' \in 0 .. MaxFaults
      BY <1>5, <1>6 DEF CutStream, FallSilent, Fault, serverVars, joinVars, TypesOK
    <2> QED  BY <2>1 DEF TypesOK
  <1> QED  BY <1>1, <1>2, <1>3, <1>4, <1>5

LEMMA TypesHold == ServeSpec => []TypesOK
  <1>1. ServeInit => TypesOK
    BY ServeBounds DEF ServeInit, TypesOK, None
  <1>2. GrantInv /\ TypesOK /\ [ServeNext]_serveVars => TypesOK'
    <2> SUFFICES ASSUME GrantInv, TypesOK, [ServeNext]_serveVars PROVE TypesOK'
      OBVIOUS
    <2>1. UsesOK  BY DEF GrantInv, ServeInv
    <2>2. CASE ServeNext  BY <2>1, <2>2, ServerTypes, PeerTypes DEF ServeNext
    <2>3. CASE UNCHANGED serveVars
      BY <2>3 DEF serveVars, serverVars, joinVars, faultVars, TypesOK
    <2> QED  BY <2>2, <2>3
  <1> QED  BY <1>1, <1>2, GrantInvHolds, PTL DEF ServeSpec

-------------------------------------------------------------------------------
(* What a step can add to what is under way to a peer: the hello of who    *)
(* answers, and the one answer of the server.                              *)
SaidOn(c) ==
  {m \in Messages :
     /\ m.kind = "hello" /\ c \notin elsewhere => HasIdentity("serve") /\ m.id = loaded["serve"]
     /\ m.kind = "frame" => /\ server \in {"refuse", "answer"} /\ c = serving
                            /\ m.body = IF server = "refuse" THEN Refusal ELSE Copy(version)}
Told == \A c \in Conns : Moves(wire[c]["serve"], wire'[c]["serve"], SaidOn(c))

LEMMA QuietTold ==
  ASSUME ServeInv, NEW d \in Conns,
         \/ Connect(d)
         \/ \E id : OfferHello(d, id)
         \/ \E pin : FinishHello(d, pin)
         \/ \E body : Send(d, "dial", body)
         \/ \E e \in Ends : Receive(d, e)
         \/ Cut(d)
  PROVE  Told
  <1> SUFFICES ASSUME NEW c \in Conns
               PROVE  Moves(wire[c]["serve"], wire'[c]["serve"], SaidOn(c))
    BY DEF Told
  <1>1. CASE Connect(d)
    BY <1>1 DEF Connect, Moves
  <1>2. CASE (\E id : OfferHello(d, id)) \/ (\E body : Send(d, "dial", body))
    <2>1. PICK t : wire' = [wire EXCEPT ![d]["dial"] = t]
      BY <1>2 DEF OfferHello, Send
    <2>2. wire'[c]["serve"] = wire[c]["serve"]
      BY <2>1, LinkTypes
    <2> QED  BY <2>2 DEF Moves
  <1>3. CASE \E pin : FinishHello(d, pin)
    <2>1. wire[d]["serve"] # <<>> /\ wire' = [wire EXCEPT ![d]["serve"] = Tail(@)]
      BY <1>3 DEF FinishHello, AwaitsHello, Arrived, Other
    <2> QED  BY <2>1, LinkTypes DEF Moves
  <1>4. CASE \E e \in Ends : Receive(d, e)
    <2>1. PICK e \in Ends : wire[d][Other(e)] # <<>> /\ wire' = [wire EXCEPT ![d][Other(e)] = Tail(@)]
      BY <1>4 DEF Receive, Opens, Arrived
    <2>2. Other(e) \in Ends  BY Sides
    <2> QED  BY <2>1, <2>2, LinkTypes DEF Moves
  <1>5. CASE Cut(d)
    <2>1. wire'[c]["serve"] = <<>> \/ wire'[c]["serve"] = wire[c]["serve"]
      BY <1>5, LinkTypes DEF Cut
    <2> QED  BY <2>1 DEF Moves
  <1> QED  BY <1>1, <1>2, <1>3, <1>4, <1>5

LEMMA CloseAllTold ==
  ASSUME ServeInv, NEW dropped, NEW e \in Ends, CloseAll(dropped, e)
  PROVE  Told
  <1> SUFFICES ASSUME NEW c \in Conns
               PROVE  Moves(wire[c]["serve"], wire'[c]["serve"], SaidOn(c))
    BY DEF Told
  <1>1. PICK reset : wire' = [d \in Conns |->
                  IF d \in dropped
                  THEN [wire[d] EXCEPT ![Other(e)] = <<>>, ![e] = IF d \in reset THEN <<>> ELSE @]
                  ELSE wire[d]]
    BY DEF CloseAll
  <1>2. CASE c \notin dropped
    <2>1. wire'[c] = wire[c]  BY <1>1, <1>2
    <2> QED  BY <2>1 DEF Moves
  <1>3. CASE c \in dropped
    <2>1. wire'[c] = [wire[c] EXCEPT ![Other(e)] = <<>>, ![e] = IF c \in reset THEN <<>> ELSE @]
      BY <1>1, <1>3
    <2>2. wire'[c]["serve"] = <<>> \/ wire'[c]["serve"] = wire[c]["serve"]
      BY <2>1, Sides, LinkTypes
    <2> QED  BY <2>2 DEF Moves
  <1> QED  BY <1>2, <1>3

LEMMA StutterTold ==
  ASSUME UNCHANGED channelVars
  PROVE  Told
  BY DEF channelVars, Told, Moves

LEMMA AnswerTold ==
  ASSUME ServeInv, NEW d \in Conns, NEW id \in Ids, AnswerHello(d, id),
         d \in elsewhere \/ (HasIdentity("serve") /\ id = loaded["serve"])
  PROVE  Told
  <1> SUFFICES ASSUME NEW c \in Conns
               PROVE  Moves(wire[c]["serve"], wire'[c]["serve"], SaidOn(c))
    BY DEF Told
  <1>1. CASE c # d
    <2>1. wire'[c] = wire[c]  BY <1>1, LinkTypes DEF AnswerHello
    <2> QED  BY <2>1 DEF Moves
  <1>2. CASE c = d
    <2>1. wire'[c]["serve"] = Written(c, "serve", Hello(c, "serve", id))
      BY <1>2, LinkTypes DEF AnswerHello
    <2>2. Hello(c, "serve", id) \in SaidOn(c)
      BY <1>2, LinkTypes DEF Hello, SaidOn, Messages, Hellos, Draws, Ephemeral
    <2> QED  BY <2>1, <2>2, WrittenMoves
  <1> QED  BY <1>1, <1>2

LEMMA SendLastTold ==
  ASSUME ServeInv, NEW body \in Bodies, NEW fits \in BOOLEAN, serving \in Conns,
         SendLast(serving, "serve", body, fits), server \in {"refuse", "answer"},
         body = IF server = "refuse" THEN Refusal ELSE Copy(version)
  PROVE  Told
  <1> SUFFICES ASSUME NEW c \in Conns
               PROVE  Moves(wire[c]["serve"], wire'[c]["serve"], SaidOn(c))
    BY DEF Told
  <1>1. CASE c # serving
    <2>1. wire'[c] = wire[c]  BY <1>1, LinkTypes DEF SendLast
    <2> QED  BY <2>1 DEF Moves
  <1>2. CASE c = serving
    <2>1. wire'[c]["serve"] \in {<<>>, Written(c, "serve", FrameOf(c, "serve", body)), wire[c]["serve"]}
      BY <1>2, LinkTypes DEF SendLast, FrameOf, Other
    <2>2. FrameOf(c, "serve", body) \in Messages
      BY <1>2, LinkTypes, FrameIsNext DEF SendLast, Seal
    <2>3. FrameOf(c, "serve", body) \in SaidOn(c)
      <3>1. FrameOf(c, "serve", body).kind = "frame" /\ FrameOf(c, "serve", body).body = body
        BY DEF FrameOf, Frame
      <3> QED  BY <1>2, <2>2, <3>1 DEF SaidOn
    <2>4. Moves(wire[c]["serve"], Written(c, "serve", FrameOf(c, "serve", body)), SaidOn(c))
      BY <2>3, WrittenMoves
    <2>5. /\ Moves(wire[c]["serve"], <<>>, SaidOn(c))
          /\ Moves(wire[c]["serve"], wire[c]["serve"], SaidOn(c))
      BY DEF Moves
    <2> QED  BY <2>1, <2>4, <2>5
  <1> QED  BY <1>1, <1>2

LEMMA NextTold ==
  ASSUME GrantInv, ServeNext
  PROVE  Told
  <1> USE ProcsThereAre
  <1>0. /\ ServeInv /\ UsesOK /\ IdentityOK /\ loaded["serve"] \in Ids /\ "dial" \in Ends /\ "serve" \in Ends
        /\ version \in Int /\ FitsFrame \in BOOLEAN
    BY ServeBounds DEF GrantInv, ServeInv, UsesOK, Ids, Ends
  <1>1. CASE \/ StartWhoami \/ PrintInvite \/ StartServe \/ Listen \/ AcceptPeer \/ HandleLine
             \/ \E q \in Procs : CreateIdentity(q)
             \/ \E line \in {"command", "quit"} : TypeLine(line)
             \/ WhoamiDies \/ IdentityLost
    BY <1>1, StutterTold
    DEF StartWhoami, PrintInvite, StartServe, Listen, AcceptPeer, HandleLine, CreateIdentity, TypeLine,
        WhoamiDies, IdentityLost
  <1>2. CASE AnswerPeer
    <2>1. serving \in Conns  BY <1>0, <1>2 DEF AnswerPeer, UsesOK, Busy
    <2> QED  BY <1>0, <1>2, <2>1, AnswerTold DEF AnswerPeer
  <1>3. CASE Refuse
    <2>1. serving \in Conns /\ Refusal \in Bodies
      BY <1>0, <1>3 DEF Refuse, UsesOK, Busy, Refusal, Bodies, Torn
    <2> QED  BY <1>0, <1>3, <2>1, SendLastTold DEF Refuse
  <1>4. CASE ReadRequest
    <2>1. serving \in Conns  BY <1>0, <1>4 DEF ReadRequest, UsesOK, Busy
    <2> QED  BY <1>0, <1>4, <2>1, QuietTold DEF ReadRequest
  <1>5. CASE SendCopy
    <2>1. serving \in Conns /\ Copy(Exported) \in Bodies /\ Copy(Exported) = Copy(version)
      BY <1>0, <1>5 DEF SendCopy, UsesOK, Busy, Copy, Bodies, Exported
    <2> QED  BY <1>0, <1>5, <2>1, SendLastTold DEF SendCopy
  <1>6. CASE PeerFails \/ Quit \/ ServeDies
    BY <1>0, <1>6, CloseAllTold DEF PeerFails, Quit, ServeDies, Exit, Close
  <1>7. ASSUME NEW p \in Peers, StartJoin(p) \/ DialElsewhere(p)
        PROVE  Told
    BY <1>0, <1>7, QuietTold DEF StartJoin, DialElsewhere, Dial, Unused
  <1>8. ASSUME NEW p \in Peers, JoinStep(p)
        PROVE  Told
    <2>1. ASSUME NEW at, NEW to, Step(p, at, to), at # "idle"
          PROVE  conn[p] \in Conns
      BY <1>0, <2>1 DEF Step, UsesOK
    <2>2. CASE JoinHello(p) \/ JoinVerify(p) \/ JoinAsk(p) \/ JoinReceive(p)
      <3>1. conn[p] \in Conns  BY <2>1, <2>2 DEF JoinHello, JoinVerify, JoinAsk, JoinReceive
      <3> QED
        BY <1>0, <2>2, <3>1, QuietTold DEF JoinHello, JoinVerify, JoinAsk, JoinReceive
    <2>3. CASE Truncate(p)  BY <2>3, StutterTold DEF Truncate
    <2>4. CASE FinishJoin(p) \/ WrongIdentity(p) \/ Refused(p) \/ JoinReadFails(p)
      BY <1>0, <2>4, CloseAllTold DEF FinishJoin, WrongIdentity, Refused, JoinReadFails, EndJoin, Close
    <2> QED  BY <1>8, <2>2, <2>3, <2>4 DEF JoinStep
  <1>9. ASSUME NEW p \in Peers, JoinDies(p)
        PROVE  Told
    BY <1>0, <1>9, CloseAllTold DEF JoinDies, Close
  <1>10. ASSUME NEW c \in Conns, OtherAnswers(c) \/ CutStream(c) \/ FallSilent(c)
         PROVE  Told
    <2>1. CASE OtherAnswers(c)
      BY <1>0, <2>1, AnswerTold DEF OtherAnswers, Stranger, Ids
    <2>2. CASE CutStream(c)  BY <1>0, <2>2, QuietTold DEF CutStream
    <2>3. CASE FallSilent(c)  BY <2>3, StutterTold DEF FallSilent
    <2> QED  BY <1>10, <2>1, <2>2, <2>3
  <1> QED
    BY <1>1, <1>2, <1>3, <1>4, <1>5, <1>6, <1>7, <1>8, <1>9, <1>10 DEF ServeNext, ServerStep

-------------------------------------------------------------------------------
(* No answer is older than the join that waits for it.                     *)
News(n) ==
  {m \in Messages : m.kind = "frame" => m.body = Refusal \/ m.body.copy \in n .. MaxVersion}
RecentJoin(p) ==
  /\ since[p] \in 1 .. version
  /\ wire[conn[p]]["serve"] \in Seq(News(since[p]))
  /\ join[p] \in {"received", "truncated"} => received[p] \in since[p] .. MaxVersion
RecentOK ==
  /\ since \in [Peers -> Nat] /\ received \in [Peers -> Int]
  /\ copy \in [Peers -> {None, Torn} \union 1 .. MaxVersion]
  /\ \A p \in Peers : join[p] # "idle" => RecentJoin(p)

LEMMA VersionGrows ==
  ASSUME TypesOK, ServeNext
  PROVE  version' >= version
  <1>0. version \in Int /\ version >= 1  BY DEF TypesOK
  <1>1. CASE HandleLine
    BY <1>0, <1>1 DEF HandleLine
  <1>2. CASE \/ StartWhoami \/ PrintInvite \/ StartServe \/ Listen \/ AcceptPeer \/ AnswerPeer \/ ReadRequest
             \/ Refuse \/ SendCopy \/ PeerFails \/ Quit \/ ServeDies \/ WhoamiDies \/ IdentityLost
             \/ \E q \in Procs : CreateIdentity(q)
             \/ \E line \in {"command", "quit"} : TypeLine(line)
    <2>1. version' = version
      BY <1>2
      DEF StartWhoami, PrintInvite, StartServe, Listen, AcceptPeer, AnswerPeer, ReadRequest, Refuse,
          SendCopy, PeerFails, Quit, ServeDies, WhoamiDies, IdentityLost, CreateIdentity, TypeLine,
          serverVars, ServeUnchanged, Exit
    <2> QED  BY <1>0, <2>1
  <1>3. ASSUME NEW p \in Peers, JoinStep(p)
        PROVE  version' = version
    <2>1. ASSUME NEW at, NEW to, Step(p, at, to)
          PROVE  version' = version
      BY <2>1 DEF Step, serverVars
    <2> QED
      BY <1>3, <2>1
      DEF JoinStep, JoinHello, JoinVerify, JoinAsk, JoinReceive, Truncate, FinishJoin, WrongIdentity,
          Refused, JoinReadFails, EndJoin
  <1>4. ASSUME NEW p \in Peers, StartJoin(p) \/ JoinDies(p) \/ DialElsewhere(p)
        PROVE  version' = version
    BY <1>4 DEF StartJoin, JoinDies, DialElsewhere, Dial, serverVars
  <1>5. ASSUME NEW c \in Conns, OtherAnswers(c) \/ CutStream(c) \/ FallSilent(c)
        PROVE  version' = version
    BY <1>5 DEF OtherAnswers, CutStream, FallSilent, serverVars
  <1> QED  BY <1>0, <1>1, <1>2, <1>3, <1>4, <1>5 DEF ServeNext, ServerStep

(* The steps that are not a peer's.                                        *)
LEMMA OthersLeaveJoins ==
  ASSUME ServeNext
  PROVE  UNCHANGED joinVars \/ \E p \in Peers : StartJoin(p) \/ JoinStep(p) \/ JoinDies(p) \/ DialElsewhere(p)
  BY DEF ServeNext, ServerStep, StartWhoami, PrintInvite, StartServe, Listen, AcceptPeer, AnswerPeer,
         ReadRequest, Refuse, SendCopy, PeerFails, HandleLine, Quit, ServeDies, WhoamiDies, IdentityLost,
         CreateIdentity, TypeLine, ServeUnchanged, Exit, OtherAnswers, CutStream, FallSilent

(* A connection that nobody has used is empty.                             *)
LEMMA UnusedIsEmpty ==
  ASSUME ServeInv, NEW c \in Conns, stream[c] = "none"
  PROVE  /\ wire[c]["dial"] = <<>> /\ wire[c]["serve"] = <<>>
         /\ ends[c]["dial"].stage = "none" /\ ends[c]["serve"].stage = "none"
         /\ ends[c]["dial"] \in EndStates /\ ends[c]["serve"] \in EndStates
  <1>1. /\ EndFacts(c, "serve") /\ Other("serve") = "dial"
        /\ EndFacts(c, "dial") /\ Other("dial") = "serve"
    BY LinkTypes, TypesOfLinks DEF Other
  <1>2. ends[c]["dial"].stage = "none" /\ ends[c]["serve"].stage = "none"
    BY <1>1 DEF EndFacts, EndOK
  <1>3. /\ NextRead(ends[c]["serve"]) + Len(wire[c]["dial"]) = NextWritten(ends[c]["dial"])
        /\ NextRead(ends[c]["dial"]) + Len(wire[c]["serve"]) = NextWritten(ends[c]["serve"])
    BY <1>1, <1>2 DEF EndFacts, InOrder
  <1>4. /\ NextRead(ends[c]["serve"]) = -1 /\ NextWritten(ends[c]["dial"]) = -1
        /\ NextRead(ends[c]["dial"]) = -1 /\ NextWritten(ends[c]["serve"]) = -1
    BY <1>2 DEF NextRead, NextWritten
  <1>5. wire[c]["dial"] \in Seq(Messages) /\ wire[c]["serve"] \in Seq(Messages)
    BY <1>1 DEF EndFacts
  <1>6. Len(wire[c]["dial"]) = 0 /\ Len(wire[c]["serve"]) = 0
    BY <1>3, <1>4, <1>5
  <1> QED  BY <1>1, <1>2, <1>5, <1>6 DEF EndFacts

LEMMA MovesAmong ==
  ASSUME NEW S, NEW R, S \subseteq R, NEW s, NEW t, Moves(s, t, S)
  PROVE  Moves(s, t, R)
  BY DEF Moves

LEMMA NewsArrives ==
  ASSUME GrantInv, TypesOK, Told, NEW p \in Peers, join[p] # "idle", RecentJoin(p)
  PROVE  wire'[conn[p]]["serve"] \in Seq(News(since[p]))
  <1>1. conn[p] \in Conns  BY DEF GrantInv, ServeInv, UsesOK
  <1>2. SaidOn(conn[p]) \subseteq News(since[p])
    <2> SUFFICES ASSUME NEW m \in SaidOn(conn[p]), m.kind = "frame"
                 PROVE  m.body = Refusal \/ m.body.copy \in since[p] .. MaxVersion
      BY DEF SaidOn, News
    <2>1. m.body = Refusal \/ m.body = Copy(version)  BY DEF SaidOn
    <2>2. Copy(version).copy \in since[p] .. MaxVersion  BY ServeBounds DEF RecentJoin, TypesOK, Copy
    <2> QED  BY <2>1, <2>2
  <1>3. Moves(wire[conn[p]]["serve"], wire'[conn[p]]["serve"], News(since[p]))
    BY <1>1, <1>2, MovesAmong DEF Told
  <1> QED  BY <1>3, MovesWithin DEF RecentJoin

(* A step that leaves the join of p alone, or moves it on.                 *)
LEMMA RecentStays ==
  ASSUME GrantInv, TypesOK, Told, version' >= version, version' \in Int, NEW p \in Peers, join[p] # "idle",
         RecentJoin(p), conn'[p] = conn[p], since'[p] = since[p],
         join'[p] \in {"received", "truncated"} => received'[p] \in since[p] .. MaxVersion
  PROVE  RecentJoin(p)'
  <1>1. wire'[conn'[p]]["serve"] \in Seq(News(since[p]))
    BY NewsArrives
  <1>2. News(since'[p]) = News(since[p]) /\ News(since[p])' = News(since'[p])
    BY DEF News
  <1>3. since'[p] \in 1 .. version'
    <2>1. since[p] \in 1 .. version /\ version \in Int  BY DEF RecentJoin, TypesOK
    <2> QED  BY <2>1
  <1> QED  BY <1>1, <1>2, <1>3 DEF RecentJoin

LEMMA RecentSteps ==
  ASSUME GrantInv, TypesOK, RecentOK, ServeNext
  PROVE  RecentOK'
  <1>0. /\ UsesOK /\ ServeInv /\ Told /\ version' >= version /\ version \in Int /\ version >= 1
        /\ version <= MaxVersion /\ MaxVersion \in Int
    BY NextTold, VersionGrows, ServeBounds DEF GrantInv, ServeInv, TypesOK
  <1>v. version' \in Int
    <2>1. CASE HandleLine  BY <2>1 DEF HandleLine
    <2>2. UsesOK'
      BY <1>0, ServerKeeps, PeersKeep DEF ServeInv, ServeNext
    <2> QED  BY <2>2 DEF UsesOK
  <1>1. CASE UNCHANGED joinVars
    <2>1. /\ since' = since /\ received' = received /\ copy' = copy /\ join' = join /\ conn' = conn
      BY <1>1 DEF joinVars
    <2>2. ASSUME NEW p \in Peers, join'[p] # "idle" PROVE RecentJoin(p)'
      <3>1. join[p] # "idle" /\ RecentJoin(p)  BY <2>1, <2>2 DEF RecentOK
      <3>2. join'[p] \in {"received", "truncated"} => received'[p] \in since[p] .. MaxVersion
        BY <2>1, <3>1 DEF RecentJoin
      <3> QED  BY <1>0, <1>v, <2>1, <3>1, <3>2, RecentStays
    <2> QED  BY <2>1, <2>2 DEF RecentOK
  <1>2. ASSUME NEW p \in Peers, Dial(p)
        PROVE  RecentOK'
    <2>1. PICK c \in Conns : /\ Connect(c) /\ conn' = [conn EXCEPT ![p] = c]
                             /\ join' = [join EXCEPT ![p] = "connected"]
                             /\ since' = [since EXCEPT ![p] = version]
                             /\ received' = received /\ copy' = copy /\ version' = version
      BY <1>2 DEF Dial, Unused, serverVars
    <2>2. conn'[p] = c /\ join'[p] = "connected" /\ since'[p] = version /\ since' \in [Peers -> Nat]
      BY <1>0, <2>1 DEF UsesOK, RecentOK
    <2>3. wire'[c]["serve"] = <<>>
      BY <1>0, <2>1, UnusedIsEmpty DEF Connect
    <2>4. RecentJoin(p)'
      <3>1. <<>> \in Seq(News(since[p]))'  OBVIOUS
      <3>2. wire'[conn'[p]]["serve"] \in Seq(News(since[p]))'
        BY <2>2, <2>3, <3>1
      <3>3. since'[p] \in 1 .. version'  BY <1>0, <2>1, <2>2
      <3> QED  BY <2>2, <3>2, <3>3 DEF RecentJoin
    <2>5. ASSUME NEW q \in Peers \ {p}, join'[q] # "idle" PROVE RecentJoin(q)'
      <3>1. /\ join'[q] = join[q] /\ conn'[q] = conn[q] /\ since'[q] = since[q]
        BY <1>0, <2>1 DEF UsesOK, RecentOK
      <3>2. RecentJoin(q)  BY <2>5, <3>1 DEF RecentOK
      <3>3. join'[q] \in {"received", "truncated"} => received'[q] \in since[q] .. MaxVersion
        BY <2>1, <3>1, <3>2 DEF RecentJoin
      <3> QED  BY <1>0, <1>v, <2>5, <3>1, <3>2, <3>3, RecentStays
    <2> QED  BY <2>1, <2>2, <2>4, <2>5 DEF RecentOK
  <1>3. ASSUME NEW p \in Peers, NEW to, join[p] # "idle", join' = [join EXCEPT ![p] = to],
               conn' = conn, since' = since,
               received' = received \/ \E b \in Int : received' = [received EXCEPT ![p] = b],
               to \in {"received", "truncated"} => received'[p] \in since[p] .. MaxVersion,
               copy' = copy \/ copy' = [copy EXCEPT ![p] = Torn]
        PROVE  RecentOK'
    <2>1. received' \in [Peers -> Int] /\ \A q \in Peers \ {p} : received'[q] = received[q]
      BY <1>3 DEF RecentOK
    <2>2. copy' \in [Peers -> {None, Torn} \union 1 .. MaxVersion]
      BY <1>3 DEF RecentOK
    <2>3. join'[p] = to /\ \A q \in Peers \ {p} : join'[q] = join[q]
      BY <1>0, <1>3 DEF UsesOK
    <2>4. ASSUME NEW q \in Peers, join'[q] # "idle" PROVE RecentJoin(q)'
      <3>1. join[q] # "idle"  BY <1>3, <2>3, <2>4
      <3>2. RecentJoin(q)  BY <3>1 DEF RecentOK
      <3>3. join'[q] \in {"received", "truncated"} => received'[q] \in since[q] .. MaxVersion
        <4>1. CASE q = p  BY <1>3, <2>3, <4>1
        <4>2. CASE q # p  BY <2>1, <2>3, <3>2, <4>2 DEF RecentJoin
        <4> QED  BY <4>1, <4>2
      <3> QED  BY <1>0, <1>v, <1>3, <3>1, <3>2, <3>3, RecentStays
    <2> QED  BY <1>3, <2>1, <2>2, <2>4 DEF RecentOK
  <1>4. ASSUME NEW p \in Peers, join' = [join EXCEPT ![p] = "idle"], Forget(p),
               copy' = copy \/ (join[p] = "truncated" /\ copy' = [copy EXCEPT ![p] = received[p]])
        PROVE  RecentOK'
    <2>1. /\ since' \in [Peers -> Nat] /\ received' \in [Peers -> Int] /\ join'[p] = "idle"
          /\ \A q \in Peers \ {p} : /\ join'[q] = join[q] /\ conn'[q] = conn[q]
                                    /\ since'[q] = since[q] /\ received'[q] = received[q]
      BY <1>0, <1>4 DEF Forget, RecentOK, UsesOK, None
    <2>2. copy' \in [Peers -> {None, Torn} \union 1 .. MaxVersion]
      <3>1. join[p] = "truncated" => received[p] \in 1 .. MaxVersion
        BY <1>0 DEF RecentOK, RecentJoin
      <3> QED  BY <1>4, <3>1 DEF RecentOK
    <2>3. ASSUME NEW q \in Peers, join'[q] # "idle" PROVE RecentJoin(q)'
      <3>1. q \in Peers \ {p}  BY <2>1, <2>3
      <3>2. join[q] # "idle" /\ RecentJoin(q)  BY <2>1, <2>3, <3>1 DEF RecentOK
      <3>3. join'[q] \in {"received", "truncated"} => received'[q] \in since[q] .. MaxVersion
        BY <2>1, <3>1, <3>2 DEF RecentJoin
      <3> QED  BY <1>0, <1>v, <2>1, <3>1, <3>2, <3>3, RecentStays
    <2> QED  BY <2>1, <2>2, <2>3 DEF RecentOK
  <1>5. ASSUME NEW p \in Peers, JoinStep(p)
        PROVE  RecentOK'
    <2>1. CASE JoinHello(p) \/ JoinVerify(p) \/ JoinAsk(p)
      BY <1>3, <2>1 DEF JoinHello, JoinVerify, JoinAsk, Step
    <2>2. CASE JoinReceive(p)
      <3>1. PICK m : m = FirstFrame(conn[p], "dial")  OBVIOUS
      <3>2. /\ join[p] = "wait" /\ conn' = conn /\ since' = since /\ copy' = copy
            /\ join' = [join EXCEPT ![p] = IF m.body = Refusal THEN "refused" ELSE "received"]
            /\ received' = [received EXCEPT ![p] = m.body.copy]
            /\ Opens(conn[p], "dial")
        BY <2>2, <3>1 DEF JoinReceive, Step
      <3>3. /\ wire[conn[p]]["serve"] # <<>> /\ m = Head(wire[conn[p]]["serve"]) /\ m.kind = "frame"
        BY <3>1, <3>2 DEF Opens, Arrived, FirstFrame, Other
      <3>4. RecentJoin(p)  BY <3>2 DEF RecentOK
      <3>5. m \in News(since[p])  BY <3>3, <3>4, HeadWithin DEF RecentJoin
      <3>6. m.body = Refusal \/ m.body.copy \in since[p] .. MaxVersion
        BY <3>3, <3>5 DEF News
      <3>7. m.body.copy \in Int
        BY <3>6 DEF Refusal, Torn
      <3>8. PICK to : to = IF m.body = Refusal THEN "refused" ELSE "received"  OBVIOUS
      <3>9. to \in {"received", "truncated"} => received'[p] \in since[p] .. MaxVersion
        BY <3>2, <3>6, <3>8 DEF RecentOK
      <3> QED  BY <1>3, <3>2, <3>7, <3>8, <3>9
    <2>3. CASE Truncate(p)
      <3>1. /\ join[p] = "received" /\ conn' = conn /\ since' = since /\ received' = received
            /\ join' = [join EXCEPT ![p] = "truncated"] /\ copy' = [copy EXCEPT ![p] = Torn]
        BY <2>3 DEF Truncate, Step
      <3>2. received'[p] \in since[p] .. MaxVersion
        BY <3>1 DEF RecentOK, RecentJoin
      <3> QED  BY <1>3, <3>1, <3>2
    <2>4. CASE FinishJoin(p)
      BY <1>4, <2>4 DEF FinishJoin, EndJoin, Step
    <2>5. CASE WrongIdentity(p) \/ Refused(p) \/ JoinReadFails(p)
      BY <1>4, <2>5 DEF WrongIdentity, Refused, JoinReadFails, EndJoin, Step
    <2> QED  BY <1>5, <2>1, <2>2, <2>3, <2>4, <2>5 DEF JoinStep
  <1>6. ASSUME NEW p \in Peers, StartJoin(p) \/ DialElsewhere(p)
        PROVE  RecentOK'
    BY <1>2, <1>6 DEF StartJoin, DialElsewhere
  <1>7. ASSUME NEW p \in Peers, JoinDies(p)
        PROVE  RecentOK'
    BY <1>4, <1>7 DEF JoinDies
  <1> QED  BY <1>1, <1>5, <1>6, <1>7, OthersLeaveJoins

LEMMA RecentHolds == ServeSpec => []RecentOK
  <1>1. ServeInit => RecentOK
    <2> SUFFICES ASSUME ServeInit PROVE RecentOK
      OBVIOUS
    <2>1. /\ join = [p \in Peers |-> "idle"] /\ since = [p \in Peers |-> None]
          /\ received = [p \in Peers |-> None] /\ copy = [p \in Peers |-> None]
      BY DEF ServeInit
    <2> QED  BY <2>1 DEF RecentOK, None
  <1>2. GrantInv /\ TypesOK /\ RecentOK /\ [ServeNext]_serveVars => RecentOK'
    <2> SUFFICES ASSUME GrantInv, TypesOK, RecentOK, [ServeNext]_serveVars PROVE RecentOK'
      OBVIOUS
    <2>1. CASE ServeNext  BY <2>1, RecentSteps
    <2>2. CASE UNCHANGED serveVars
      <3>1. UNCHANGED <<wire, conn, join, since, received, copy, version>>
        BY <2>2 DEF serveVars, channelVars, joinVars, serverVars
      <3>2. ASSUME NEW p \in Peers, RecentJoin(p) PROVE RecentJoin(p)'
        BY <3>1, <3>2 DEF RecentJoin, News
      <3> QED  BY <3>1, <3>2 DEF RecentOK
    <2> QED  BY <2>1, <2>2
  <1> QED  BY <1>1, <1>2, GrantInvHolds, TypesHold, PTL DEF ServeSpec

(* Every variable of the command line keeps its type: invites name an      *)
(* identity that was generated, a connection is dealt with just when the   *)
(* server is busy, and a copy is none, torn or of a version there was      *)
(* (serve, serve_stream, join).                                            *)
THEOREM ServeTypesHold == ServeSpec => []ServeTypeOK
  <1>1. GrantInv /\ BoundsOK /\ TypesOK /\ RecentOK => ServeTypeOK
    <2> SUFFICES ASSUME GrantInv, BoundsOK, TypesOK, RecentOK PROVE ServeTypeOK
      OBVIOUS
    <2>1. UsesOK /\ IdentityOK  BY DEF GrantInv, ServeInv
    <2>2. serving \in Conns \union {None}
          /\ (serving # None) = (server \in {"accepted", "refuse", "request", "answer"})
      BY <2>1, ConnsAssumption DEF UsesOK, TypesOK, Busy, None
    <2>3. invite \in Nat /\ invite <= generated  BY <2>1 DEF IdentityOK, BoundsOK
    <2>4. join \in [Peers -> {"idle", "connected", "hello", "ask", "wait", "refused", "received", "truncated"}]
      BY <2>1 DEF UsesOK, JoinStates
    <2>5. copy \in [Peers -> {None, Torn} \union 1 .. MaxVersion]  BY DEF RecentOK
    <2> QED  BY <2>2, <2>3, <2>4, <2>5 DEF ServeTypeOK, TypesOK
  <1> QED  BY <1>1, GrantInvHolds, BoundsHold, TypesHold, RecentHolds, PTL

(* What a step makes of the result of a join.                              *)
LEMMA ResultOfStep ==
  ASSUME TypesOK, [ServeNext]_serveVars, NEW p \in Peers, NEW how \in {"joined", "failed"}, JoinEnds(p, how)
  PROVE  \/ how = "joined" /\ FinishJoin(p)
         \/ how = "failed" /\ (WrongIdentity(p) \/ Refused(p) \/ JoinReadFails(p) \/ JoinDies(p))
  <1>1. result \in [Peers -> {"none", "joined", "failed"}] /\ result'[p] # result[p] /\ result'[p] = how
    BY DEF TypesOK, JoinEnds
  <1>2. ServeNext /\ ~UNCHANGED joinVars
    BY <1>1 DEF serveVars, joinVars
  <1>3. ASSUME NEW q \in Peers, StartJoin(q) \/ DialElsewhere(q)
        PROVE  FALSE
    <2>1. result' = [result EXCEPT ![q] = "none"]  BY <1>3 DEF StartJoin, DialElsewhere, Dial
    <2> QED  BY <1>1, <2>1
  <1>4. ASSUME NEW q \in Peers, JoinDies(q)
        PROVE  how = "failed" /\ JoinDies(p)
    <2>1. result' = [result EXCEPT ![q] = "failed"]  BY <1>4 DEF JoinDies
    <2>2. q = p /\ how = "failed"  BY <1>1, <2>1
    <2> QED  BY <1>4, <2>2
  <1>5. ASSUME NEW q \in Peers, JoinStep(q)
        PROVE  \/ how = "joined" /\ FinishJoin(p)
               \/ how = "failed" /\ (WrongIdentity(p) \/ Refused(p) \/ JoinReadFails(p))
    <2>1. CASE JoinHello(q) \/ JoinVerify(q) \/ JoinAsk(q) \/ JoinReceive(q) \/ Truncate(q)
      <3>1. result' = result
        BY <2>1 DEF JoinHello, JoinVerify, JoinAsk, JoinReceive, Truncate
      <3> QED  BY <1>1, <3>1
    <2>2. CASE FinishJoin(q)
      <3>1. result' = [result EXCEPT ![q] = "joined"]  BY <2>2 DEF FinishJoin, EndJoin
      <3>2. q = p /\ how = "joined"  BY <1>1, <3>1
      <3> QED  BY <2>2, <3>2
    <2>3. CASE WrongIdentity(q) \/ Refused(q) \/ JoinReadFails(q)
      <3>1. result' = [result EXCEPT ![q] = "failed"]
        BY <2>3 DEF WrongIdentity, Refused, JoinReadFails, EndJoin
      <3>2. q = p /\ how = "failed"  BY <1>1, <3>1
      <3> QED  BY <2>3, <3>2
    <2> QED  BY <1>5, <2>1, <2>2, <2>3 DEF JoinStep
  <1> QED  BY <1>2, <1>3, <1>4, <1>5, OthersLeaveJoins

(* A join that succeeds leaves a whole copy, of the vault as it was when   *)
(* the join began or later, whatever the vault, the server and the faults  *)
(* do in between (join, serve_stream).                                     *)
THEOREM CopiesStayRecent == ServeSpec => CopiesAreRecent
  <1>1. GrantInv /\ TypesOK /\ RecentOK /\ [ServeNext]_serveVars =>
          [\A p \in Peers : JoinEnds(p, "joined") => copy'[p] # Torn /\ copy'[p] >= since[p]]_serveVars
    <2> SUFFICES ASSUME TypesOK, RecentOK, [ServeNext]_serveVars, NEW p \in Peers, JoinEnds(p, "joined")
                 PROVE  copy'[p] # Torn /\ copy'[p] >= since[p]
      OBVIOUS
    <2>1. FinishJoin(p)  BY ResultOfStep
    <2>2. join[p] = "truncated" /\ copy' = [copy EXCEPT ![p] = received[p]]
      BY <2>1 DEF FinishJoin, EndJoin, Step
    <2>3. received[p] \in since[p] .. MaxVersion /\ since[p] \in 1 .. version
      BY <2>2 DEF RecentOK, RecentJoin
    <2>4. copy'[p] = received[p]  BY <2>2 DEF RecentOK
    <2>5. version \in Int  BY DEF TypesOK
    <2> QED  BY <2>3, <2>4, <2>5, ServeBounds DEF Torn
  <1> QED
    BY <1>1, GrantInvHolds, TypesHold, RecentHolds, PTL DEF ServeSpec, CopiesAreRecent

-------------------------------------------------------------------------------
(* Why joins fail.  First, the hellos that peers get: as long as the       *)
(* identity is settled, they are those of the identity in the file, which  *)
(* is also the one that the invites name.                                  *)
HellosOf(id) == {m \in Messages : m.kind = "hello" => m.id = id}
NamesJoin(p) ==
  /\ pinned[p] = idFile /\ idFile \notin {Missing, Damaged}
  /\ conn[p] \notin elsewhere => wire[conn[p]]["serve"] \in Seq(HellosOf(idFile))
NamesOK == ~unsettled => \A p \in Peers : join[p] # "idle" => NamesJoin(p)

LEMMA IdentityRemains ==
  ASSUME GrantInv, SettledOK, ServeNext, ~unsettled'
  PROVE  ~unsettled /\ (idFile \notin {Missing, Damaged} => idFile' = idFile)
  <1> USE ProcsThereAre
  <1>1. ASSUME NEW q \in Procs, LoadIdentity(q) \/ Unload(q)
        PROVE  ~unsettled /\ idFile' = idFile
    <2>1. idFile' = idFile  BY <1>1 DEF LoadIdentity, Unload
    <2>2. CASE Unload(q)
      <3>1. unsettled' = unsettled  BY <2>2 DEF Unload
      <3> QED  BY <2>1, <3>1
    <2>3. CASE LoadIdentity(q)
      <3>1. CASE idFile \notin {Missing, Damaged}
        <4>1. unsettled' = unsettled  BY <2>3, <3>1 DEF LoadIdentity
        <4> QED  BY <2>1, <4>1
      <3>2. CASE idFile \in {Missing, Damaged}
        <4>1. ~unsettled' => ~unsettled  BY <2>3, <3>2 DEF LoadIdentity
        <4> QED  BY <2>1, <4>1
      <3> QED  BY <3>1, <3>2
    <2> QED  BY <1>1, <2>2, <2>3
  <1>2. ASSUME NEW q \in Procs, TruncateIdentity(q) \/ WriteIdentity(q)
        PROVE  ~unsettled /\ (idFile \notin {Missing, Damaged} => idFile' = idFile)
    <2>1. ~unsettled /\ Writing(q)
      BY <1>2 DEF TruncateIdentity, WriteIdentity, Writing
    <2> QED  BY <2>1 DEF SettledOK
  <1>3. CASE StartWhoami \/ StartServe \/ AcceptPeer
    BY <1>1, <1>3 DEF StartWhoami, StartServe, AcceptPeer
  <1>4. CASE PrintInvite \/ Quit \/ ServeDies \/ WhoamiDies
    BY <1>1, <1>4 DEF PrintInvite, Quit, ServeDies, WhoamiDies, Exit
  <1>5. CASE \E q \in Procs : CreateIdentity(q)
    BY <1>2, <1>5 DEF CreateIdentity
  <1>6. CASE IdentityLost
    BY <1>6 DEF IdentityLost, LoseIdentity
  <1>7. CASE UNCHANGED <<identityVars, invite>>
    BY <1>7 DEF identityVars
  <1> QED  BY <1>3, <1>4, <1>5, <1>6, <1>7, IdentityAlone DEF ServeNext, ServerStep

(* A step of a peer leaves the others' joins alone.                        *)
OthersStay(p) ==
  \A q \in Peers \ {p} : /\ join'[q] = join[q] /\ conn'[q] = conn[q] /\ pinned'[q] = pinned[q]
PeerStays(p) == OthersStay(p) /\ conn'[p] = conn[p] /\ pinned'[p] = pinned[p] /\ join[p] # "idle"

LEMMA PeersActAlone ==
  ASSUME GrantInv, ServeNext
  PROVE  \/ UNCHANGED joinVars /\ elsewhere' = elsewhere
         \/ \E p \in Peers, c \in Conns :
              /\ OthersStay(p) /\ join[p] = "idle" /\ join'[p] = "connected" /\ conn'[p] = c
              /\ Connect(c) /\ invite # None /\ pinned'[p] = invite
              /\ elsewhere' \in {elsewhere, elsewhere \union {c}}
              /\ UNCHANGED <<server, serving, disturbed, unsettled, idFile>>
         \/ \E p \in Peers : JoinStep(p) /\ PeerStays(p) /\ join'[p] # "idle" /\ elsewhere' = elsewhere
         \/ \E p \in Peers : /\ OthersStay(p) /\ join[p] # "idle" /\ join'[p] = "idle"
                             /\ Close(conn[p], "dial") /\ UNCHANGED <<server, serving, elsewhere>>
                             /\ disturbed \subseteq disturbed'
  <1>0. UsesOK /\ JoinsOK /\ join \in [Peers -> JoinStates]  BY DEF GrantInv, ServeInv, UsesOK
  <1>1. CASE UNCHANGED joinVars /\ elsewhere' = elsewhere
    BY <1>1
  <1>2. ASSUME NEW p \in Peers, StartJoin(p) \/ DialElsewhere(p)
        PROVE  \E c \in Conns :
              /\ OthersStay(p) /\ join[p] = "idle" /\ join'[p] = "connected" /\ conn'[p] = c
              /\ Connect(c) /\ invite # None /\ pinned'[p] = invite
              /\ elsewhere' \in {elsewhere, elsewhere \union {c}}
              /\ UNCHANGED <<server, serving, disturbed, unsettled, idFile>>
    <2>1. Dial(p)  BY <1>2 DEF StartJoin, DialElsewhere
    <2>2. PICK c \in Conns : Connect(c) /\ conn' = [conn EXCEPT ![p] = c]
      BY <2>1 DEF Dial, Unused
    <2>3. /\ join[p] = "idle" /\ invite # None /\ join' = [join EXCEPT ![p] = "connected"]
          /\ pinned' = [pinned EXCEPT ![p] = invite]
          /\ UNCHANGED <<server, serving, disturbed, unsettled, idFile>>
      BY <2>1 DEF Dial, serverVars, identityVars
    <2>4. /\ OthersStay(p) /\ join'[p] = "connected" /\ conn'[p] = c /\ pinned'[p] = invite
      BY <1>0, <2>2, <2>3 DEF OthersStay, UsesOK, JoinsOK
    <2>5. elsewhere' \in {elsewhere, elsewhere \union {c}}
      BY <1>2, <2>4 DEF StartJoin, DialElsewhere
    <2> QED  BY <2>2, <2>3, <2>4, <2>5
  <1>3. ASSUME NEW p \in Peers, join' = [join EXCEPT ![p] = "idle"], Close(conn[p], "dial"), Forget(p),
               join[p] # "idle", UNCHANGED <<server, serving, elsewhere>>, disturbed \subseteq disturbed'
        PROVE  \E q \in Peers : /\ OthersStay(q) /\ join[q] # "idle" /\ join'[q] = "idle"
                             /\ Close(conn[q], "dial") /\ UNCHANGED <<server, serving, elsewhere>>
                             /\ disturbed \subseteq disturbed'
    <2>1. OthersStay(p) /\ join'[p] = "idle"
      BY <1>0, <1>3 DEF OthersStay, Forget, UsesOK, JoinsOK
    <2> QED  BY <1>3, <2>1
  <1>4. ASSUME NEW p \in Peers, JoinDies(p)
        PROVE  \E q \in Peers : /\ OthersStay(q) /\ join[q] # "idle" /\ join'[q] = "idle"
                             /\ Close(conn[q], "dial") /\ UNCHANGED <<server, serving, elsewhere>>
                             /\ disturbed \subseteq disturbed'
    BY <1>3, <1>4 DEF JoinDies, Fault, serverVars
  <1>5. ASSUME NEW p \in Peers, JoinStep(p)
        PROVE  \/ PeerStays(p) /\ join'[p] # "idle" /\ elsewhere' = elsewhere
               \/ \E q \in Peers : /\ OthersStay(q) /\ join[q] # "idle" /\ join'[q] = "idle"
                             /\ Close(conn[q], "dial") /\ UNCHANGED <<server, serving, elsewhere>>
                             /\ disturbed \subseteq disturbed'
    <2>1. CASE JoinHello(p) \/ JoinVerify(p) \/ JoinAsk(p) \/ JoinReceive(p) \/ Truncate(p)
      <3>1. PICK to \in JoinStates \ {"idle"} :
              /\ join[p] # "idle" /\ join' = [join EXCEPT ![p] = to] /\ conn' = conn /\ pinned' = pinned
              /\ elsewhere' = elsewhere
        BY <2>1
        DEF JoinHello, JoinVerify, JoinAsk, JoinReceive, Truncate, Step, faultVars, JoinStates
      <3> QED  BY <1>0, <3>1 DEF PeerStays, OthersStay
    <2>2. CASE FinishJoin(p) \/ WrongIdentity(p) \/ Refused(p) \/ JoinReadFails(p)
      <3>1. PICK at, how : at \in JoinStates \ {"idle"} /\ EndJoin(p, at, how)
        BY <2>2 DEF FinishJoin, WrongIdentity, Refused, JoinReadFails, JoinStates
      <3> QED  BY <1>3, <3>1 DEF EndJoin, Step, serverVars, faultVars
    <2> QED  BY <1>5, <2>1, <2>2 DEF JoinStep
  <1>6. ASSUME NEW c \in Conns, OtherAnswers(c) \/ CutStream(c) \/ FallSilent(c)
        PROVE  UNCHANGED joinVars /\ elsewhere' = elsewhere
    BY <1>6 DEF OtherAnswers, CutStream, FallSilent, faultVars
  <1>7. CASE \/ StartWhoami \/ PrintInvite \/ StartServe \/ ServerStep
             \/ \E q \in Procs : CreateIdentity(q)
             \/ \E line \in {"command", "quit"} : TypeLine(line)
             \/ ServeDies \/ WhoamiDies \/ IdentityLost
    BY <1>7
    DEF ServerStep, StartWhoami, PrintInvite, StartServe, Listen, AcceptPeer, AnswerPeer,
         ReadRequest, Refuse, SendCopy, PeerFails, HandleLine, Quit, ServeDies, WhoamiDies, IdentityLost,
         CreateIdentity, TypeLine, ServeUnchanged, Exit, faultVars
  <1> QED  BY <1>1, <1>2, <1>4, <1>5, <1>6, <1>7 DEF ServeNext

LEMMA NamesStay ==
  ASSUME GrantInv, SettledOK, Told, ~unsettled, NEW p \in Peers, join[p] # "idle", NamesJoin(p),
         conn'[p] = conn[p], pinned'[p] = pinned[p], elsewhere \subseteq elsewhere',
         idFile \notin {Missing, Damaged} => idFile' = idFile
  PROVE  NamesJoin(p)'
  <1>1. idFile' = idFile /\ idFile \notin {Missing, Damaged} /\ pinned[p] = idFile
    BY DEF NamesJoin
  <1>2. ASSUME conn[p] \notin elsewhere
        PROVE  wire'[conn[p]]["serve"] \in Seq(HellosOf(idFile))
    <2>1. conn[p] \in Conns  BY DEF GrantInv, ServeInv, UsesOK
    <2>2. HasIdentity("serve") => loaded["serve"] = idFile
      BY <1>1, ProcsThereAre DEF SettledOK
    <2>3. SaidOn(conn[p]) \subseteq HellosOf(idFile)
      BY <1>2, <2>2 DEF SaidOn, HellosOf
    <2>4. Moves(wire[conn[p]]["serve"], wire'[conn[p]]["serve"], HellosOf(idFile))
      BY <2>1, <2>3, MovesAmong DEF Told
    <2>5. wire[conn[p]]["serve"] \in Seq(HellosOf(idFile))  BY <1>2 DEF NamesJoin
    <2> QED  BY <2>4, <2>5, MovesWithin
  <1>3. HellosOf(idFile)' = HellosOf(idFile)  BY <1>1 DEF HellosOf
  <1> QED  BY <1>1, <1>2, <1>3 DEF NamesJoin, Missing, Damaged

LEMMA NamesSteps ==
  ASSUME GrantInv, SettledOK, NamesOK, ServeNext
  PROVE  NamesOK'
  <1> SUFFICES ASSUME ~unsettled', NEW p \in Peers, join'[p] # "idle"
               PROVE  NamesJoin(p)'
    BY DEF NamesOK
  <1>1. /\ Told /\ ~unsettled /\ (idFile \notin {Missing, Damaged} => idFile' = idFile)
        /\ ServeInv
    BY NextTold, IdentityRemains DEF GrantInv
  <1>2. ASSUME join[p] # "idle", conn'[p] = conn[p], pinned'[p] = pinned[p], elsewhere \subseteq elsewhere'
        PROVE  NamesJoin(p)'
    <2>1. NamesJoin(p)  BY <1>1, <1>2 DEF NamesOK
    <2> QED  BY <1>1, <1>2, <2>1, NamesStay
  <1>3. CASE UNCHANGED joinVars /\ elsewhere' = elsewhere
    BY <1>2, <1>3 DEF joinVars
  <1>4. ASSUME NEW q \in Peers, NEW c \in Conns,
              OthersStay(q), join[q] = "idle", join'[q] = "connected", conn'[q] = c,
              Connect(c), invite # None, pinned'[q] = invite,
              elsewhere' \in {elsewhere, elsewhere \union {c}}
        PROVE  NamesJoin(p)'
    <2>1. CASE p # q
      BY <1>2, <1>4, <2>1 DEF OthersStay
    <2>2. CASE p = q
      <3>1. wire'[c]["serve"] = <<>>
        BY <1>1, <1>4, UnusedIsEmpty DEF Connect
      <3>2. invite = idFile /\ idFile \notin {Missing, Damaged}
        BY <1>1, <1>4 DEF SettledOK
      <3>3. idFile' = idFile  BY <1>1, <3>2
      <3>4. <<>> \in Seq(HellosOf(idFile)')  OBVIOUS
      <3> QED  BY <1>4, <2>2, <3>1, <3>2, <3>3, <3>4 DEF NamesJoin, Missing, Damaged
    <2> QED  BY <2>1, <2>2
  <1>5. ASSUME NEW q \in Peers, PeerStays(q), elsewhere' = elsewhere, join'[q] # "idle"
        PROVE  NamesJoin(p)'
    BY <1>2, <1>5 DEF PeerStays, OthersStay
  <1>6. ASSUME NEW q \in Peers, OthersStay(q), join'[q] = "idle", elsewhere' = elsewhere
        PROVE  NamesJoin(p)'
    BY <1>2, <1>6 DEF OthersStay
  <1> QED  BY <1>3, <1>4, <1>5, <1>6, PeersActAlone

LEMMA NamesHold == ServeSpec => []NamesOK
  <1>1. ServeInit => NamesOK
    BY DEF ServeInit, NamesOK
  <1>2. GrantInv /\ SettledOK /\ NamesOK /\ [ServeNext]_serveVars => NamesOK'
    <2> SUFFICES ASSUME GrantInv, SettledOK, NamesOK, [ServeNext]_serveVars PROVE NamesOK'
      OBVIOUS
    <2>1. CASE ServeNext  BY <2>1, NamesSteps
    <2>2. CASE UNCHANGED serveVars
      BY <2>2
      DEF serveVars, identityVars, channelVars, joinVars, faultVars, NamesOK, NamesJoin, HellosOf
    <2> QED  BY <2>1, <2>2
  <1> QED  BY <1>1, <1>2, GrantInvHolds, SettledHolds, PTL DEF ServeSpec

-------------------------------------------------------------------------------
(* Then how far either end has got: the joining one as far as the join     *)
(* has, the serving one as far as the server, which leaves a connection    *)
(* only when it has said all it has to say, unless that was disturbed.     *)
DialAt(at, d) ==
  /\ at = "connected" => d.stage = "open"
  /\ at = "hello" => d.stage = "offered"
  /\ at \in Asking =>
       /\ d.stage = "ready" /\ d.sent = IF at = "ask" THEN 0 ELSE 1
       /\ d.received = IF at \in {"ask", "wait"} THEN 0 ELSE 1
DialsOK == \A p \in Peers : join[p] # "idle" => DialAt(join[p], ends[conn[p]]["dial"])

Answering == {"refuse", "request", "answer"}
ServeAt(at, d) ==
  /\ at = "accepted" => d.stage = "none"
  /\ at \in Answering =>
       /\ d.stage = "ready" /\ d.sent = 0
       /\ d.received = IF at = "answer" THEN 1 ELSE 0
  /\ at = "refuse" => d.peer \notin Granted
AnswersOK ==
  /\ server \in Busy => ServeAt(server, ends[serving]["serve"])
  /\ \A c \in Conns \ elsewhere :
       ends[c]["serve"].stage = "ready" => server \in Answering /\ c = serving

Copies == {m \in Messages : m.kind = "frame" => m.body # Refusal}
SaidAll(c) == NextRead(ends[c]["dial"]) + Len(wire[c]["serve"]) = 1
FairJoin(p) ==
  /\ join[p] # "refused"
  /\ wire[conn[p]]["serve"] \in Seq(Copies)
  /\ (conn[p] \notin disturbed \union elsewhere /\ Closed(conn[p], "serve")) => SaidAll(conn[p])
FairOK ==
  /\ \A c \in Conns : stream[c] = "cut" => c \in disturbed
  /\ \A p \in Peers : (join[p] # "idle" /\ p \in Granted) => FairJoin(p)

(* A step on a connection leaves the others alone.                         *)
Untouched(c) == stream'[c] = stream[c] /\ ends'[c] = ends[c] /\ wire'[c] = wire[c]

LEMMA OthersUntouched ==
  ASSUME ServeInv, NEW d \in Conns,
         \/ Connect(d)
         \/ \E id : OfferHello(d, id) \/ AnswerHello(d, id) \/ FinishHello(d, id)
         \/ \E e, body, fits : Send(d, e, body) \/ SendLast(d, e, body, fits)
         \/ \E e : Receive(d, e) \/ Close(d, e)
         \/ Cut(d)
  PROVE  \A c \in Conns \ {d} : Untouched(c)
  <1> SUFFICES ASSUME NEW c \in Conns \ {d}
               PROVE  Untouched(c)
    OBVIOUS
  <1>1. CASE Connect(d) \/ Cut(d)
    BY <1>1, LinkTypes DEF Connect, Cut, Untouched
  <1>2. ASSUME NEW id, OfferHello(d, id) \/ AnswerHello(d, id) \/ FinishHello(d, id)
        PROVE  Untouched(c)
    BY <1>2, LinkTypes DEF OfferHello, AnswerHello, FinishHello, Ready, Untouched
  <1>3. ASSUME NEW e, NEW body, NEW fits, Send(d, e, body) \/ SendLast(d, e, body, fits)
        PROVE  Untouched(c)
    BY <1>3, LinkTypes DEF Send, SendLast, Untouched
  <1>4. ASSUME NEW e, Receive(d, e)
        PROVE  Untouched(c)
    BY <1>4, LinkTypes DEF Receive, Untouched
  <1>5. ASSUME NEW e, Close(d, e)
        PROVE  Untouched(c)
    <2>1. ends'[c] = ends[c] /\ wire'[c] = wire[c] /\ stream' = stream
      BY <1>5 DEF Close, CloseAll
    <2> QED  BY <2>1 DEF Untouched
  <1> QED  BY <1>1, <1>2, <1>3, <1>4, <1>5

(* What a step of a join does to its connection.                           *)
LEMMA JoinMoves ==
  ASSUME GrantInv, NEW p \in Peers, JoinStep(p), join'[p] # "idle", NEW c, c = conn[p],
         DialAt(join[p], ends[c]["dial"])
  PROVE  /\ c \in Conns
         /\ \A b \in Conns \ {c} : Untouched(b)
         /\ stream' = stream /\ ends'[c]["serve"] = ends[c]["serve"]
         /\ DialAt(join'[p], ends'[c]["dial"])
         /\ SaidAll(c) => SaidAll(c)'
         /\ join'[p] = "refused" =>
              /\ join[p] = "wait" /\ wire[c]["serve"] # <<>> /\ Head(wire[c]["serve"]).kind = "frame"
              /\ Head(wire[c]["serve"]).body = Refusal
         /\ UNCHANGED <<server, serving, elsewhere, disturbed>>
  <1>d. PICK d : d = ends[c]["dial"]  OBVIOUS
  <1>s. PICK s : s = wire[c]["serve"]  OBVIOUS
  <1>0. /\ UsesOK /\ ServeInv /\ join \in [Peers -> JoinStates]
        /\ join[p] # "idle" => c \in Conns
    BY DEF GrantInv, ServeInv, UsesOK
  <1>1. ASSUME NEW at \in JoinStates \ {"idle"}, NEW to, Step(p, at, to)
        PROVE  /\ join[p] = at /\ join'[p] = to /\ c \in Conns
               /\ UNCHANGED <<server, serving, elsewhere, disturbed>>
               /\ d \in EndStates /\ s \in Seq(Messages) /\ d.sent \in Nat /\ d.received \in Nat
               /\ DialAt(at, d)
    <2>1. /\ join[p] = at /\ join'[p] = to /\ c \in Conns
          /\ UNCHANGED <<server, serving, elsewhere, disturbed>>
      BY <1>0, <1>1 DEF Step, serverVars, faultVars
    <2>2. d \in EndStates /\ s \in Seq(Messages)
      BY <1>0, <1>d, <1>s, <2>1, LinkTypes
    <2>3. d.sent \in Nat /\ d.received \in Nat  BY <2>2 DEF EndStates
    <2> QED  BY <1>d, <2>1, <2>2, <2>3
  <1>2. ASSUME c \in Conns, SaidAll(c), ends'[c]["dial"] = d \/ NextRead(ends'[c]["dial"]) = NextRead(d),
               wire'[c]["serve"] = s
        PROVE  SaidAll(c)'
    BY <1>2, <1>d, <1>s DEF SaidAll
  <1>3. ASSUME c \in Conns, SaidAll(c), NextRead(d) \in Int, NextRead(ends'[c]["dial"]) = NextRead(d) + 1,
               s \in Seq(Messages), s # <<>>, wire'[c]["serve"] = Tail(s)
        PROVE  SaidAll(c)'
    <2>1. Len(Tail(s)) = Len(s) - 1 /\ Len(s) \in Nat  BY <1>3
    <2> QED  BY <1>3, <1>d, <1>s, <2>1 DEF SaidAll
  <1>4. CASE JoinHello(p)
    <2>1. /\ join[p] = "connected" /\ join'[p] = "hello" /\ c \in Conns
          /\ UNCHANGED <<server, serving, elsewhere, disturbed>>
          /\ d \in EndStates /\ d.stage = "open" /\ OfferHello(c, p)
      BY <1>1, <1>4 DEF JoinHello, DialAt, JoinStates
    <2>2. /\ stream' = stream /\ ends'[c]["dial"] = [d EXCEPT !.stage = "offered"]
          /\ ends'[c]["serve"] = ends[c]["serve"] /\ wire'[c]["serve"] = s
      BY <1>0, <1>d, <1>s, <2>1, LinkTypes DEF OfferHello
    <2>3. ends'[c]["dial"].stage = "offered"  BY <2>1, <2>2 DEF EndStates
    <2>4. NextRead(ends'[c]["dial"]) = NextRead(d)  BY <2>1, <2>3 DEF NextRead
    <2>5. SaidAll(c) => SaidAll(c)'  BY <1>2, <2>1, <2>2, <2>4
    <2>6. DialAt(join'[p], ends'[c]["dial"])  BY <2>1, <2>3 DEF DialAt, Asking
    <2>7. \A b \in Conns \ {c} : Untouched(b)  BY <1>0, <2>1, OthersUntouched
    <2> QED  BY <2>1, <2>2, <2>5, <2>6, <2>7
  <1>5. CASE JoinVerify(p)
    <2>1. /\ join[p] = "hello" /\ join'[p] = "ask" /\ c \in Conns
          /\ UNCHANGED <<server, serving, elsewhere, disturbed>>
          /\ d \in EndStates /\ d.stage = "offered" /\ FinishHello(c, pinned[p]) /\ s \in Seq(Messages)
      BY <1>1, <1>5 DEF JoinVerify, DialAt, JoinStates
    <2>2. /\ stream' = stream /\ ends'[c]["dial"].stage = "ready"
          /\ ends'[c]["dial"].sent = 0 /\ ends'[c]["dial"].received = 0
          /\ ends'[c]["serve"] = ends[c]["serve"]
      BY <1>0, <2>1, LinkTypes DEF FinishHello, Ready, NewEnd
    <2>3. wire'[c]["serve"] = Tail(s) /\ s # <<>>
      BY <1>0, <1>s, <2>1, LinkTypes DEF FinishHello, AwaitsHello, Arrived, Other
    <2>4. NextRead(d) = -1 /\ NextRead(ends'[c]["dial"]) = 0  BY <2>1, <2>2 DEF NextRead
    <2>5. SaidAll(c) => SaidAll(c)'  BY <1>3, <2>1, <2>3, <2>4
    <2>6. DialAt(join'[p], ends'[c]["dial"])  BY <2>1, <2>2 DEF DialAt, Asking
    <2>7. \A b \in Conns \ {c} : Untouched(b)  BY <1>0, <2>1, OthersUntouched
    <2> QED  BY <2>1, <2>2, <2>5, <2>6, <2>7
  <1>6. CASE JoinAsk(p)
    <2>1. /\ join[p] = "ask" /\ join'[p] = "wait" /\ c \in Conns
          /\ UNCHANGED <<server, serving, elsewhere, disturbed>>
          /\ d \in EndStates /\ d.stage = "ready" /\ d.sent = 0 /\ d.received = 0
          /\ Send(c, "dial", ChainState)
      BY <1>1, <1>6 DEF JoinAsk, DialAt, JoinStates, Asking
    <2>2. /\ stream' = stream /\ ends'[c]["dial"] = AfterSend(d)
          /\ ends'[c]["serve"] = ends[c]["serve"] /\ wire'[c]["serve"] = s
      BY <1>0, <1>d, <1>s, <2>1, LinkTypes DEF Send, AfterSend
    <2>3. ends'[c]["dial"].stage = "ready" /\ ends'[c]["dial"].sent = 1 /\ ends'[c]["dial"].received = 0
      BY <2>1, <2>2, EndCounts
    <2>4. NextRead(ends'[c]["dial"]) = NextRead(d)  BY <2>1, <2>3 DEF NextRead
    <2>5. SaidAll(c) => SaidAll(c)'  BY <1>2, <2>1, <2>2, <2>4
    <2>6. DialAt(join'[p], ends'[c]["dial"])  BY <2>1, <2>3 DEF DialAt
    <2>7. \A b \in Conns \ {c} : Untouched(b)  BY <1>0, <2>1, OthersUntouched
    <2> QED  BY <2>1, <2>2, <2>5, <2>6, <2>7
  <1>7. CASE JoinReceive(p)
    <2>1. /\ join[p] = "wait" /\ join'[p] \in {"refused", "received"} /\ c \in Conns
          /\ UNCHANGED <<server, serving, elsewhere, disturbed>>
          /\ d \in EndStates /\ d.stage = "ready" /\ d.sent = 1 /\ d.received = 0
          /\ Receive(c, "dial") /\ s \in Seq(Messages)
          /\ join'[p] = "refused" => FirstFrame(c, "dial").body = Refusal
      BY <1>1, <1>7 DEF JoinReceive, DialAt, JoinStates, Asking
    <2>2. /\ stream' = stream /\ ends'[c]["dial"] = AfterReceive(d)
          /\ ends'[c]["serve"] = ends[c]["serve"]
      BY <1>0, <1>d, <2>1, LinkTypes DEF Receive, AfterReceive
    <2>3. /\ wire'[c]["serve"] = Tail(s) /\ s # <<>>
          /\ FirstFrame(c, "dial") = Head(s) /\ Head(s).kind = "frame"
      BY <1>0, <1>s, <2>1, LinkTypes DEF Receive, Opens, Arrived, FirstFrame, Other
    <2>4. ends'[c]["dial"].stage = "ready" /\ ends'[c]["dial"].sent = 1 /\ ends'[c]["dial"].received = 1
      BY <2>1, <2>2, EndCounts
    <2>5. NextRead(d) = 0 /\ NextRead(ends'[c]["dial"]) = 1  BY <2>1, <2>4 DEF NextRead
    <2>6. SaidAll(c) => SaidAll(c)'  BY <1>3, <2>1, <2>3, <2>5
    <2>7. DialAt(join'[p], ends'[c]["dial"])  BY <2>1, <2>4 DEF DialAt
    <2>8. \A b \in Conns \ {c} : Untouched(b)  BY <1>0, <2>1, OthersUntouched
    <2> QED  BY <1>s, <2>1, <2>2, <2>3, <2>6, <2>7, <2>8
  <1>8. CASE Truncate(p)
    <2>1. /\ join[p] = "received" /\ join'[p] = "truncated" /\ c \in Conns
          /\ UNCHANGED <<server, serving, elsewhere, disturbed>>
          /\ DialAt("received", d)
          /\ stream' = stream /\ ends' = ends /\ wire' = wire
      BY <1>1, <1>8 DEF Truncate, JoinStates, channelVars
    <2>2. SaidAll(c) => SaidAll(c)'  BY <1>2, <1>d, <1>s, <2>1
    <2>3. DialAt(join'[p], ends'[c]["dial"])  BY <1>d, <2>1 DEF DialAt, Asking
    <2> QED  BY <2>1, <2>2, <2>3 DEF Untouched
  <1>9. ASSUME NEW at, NEW how, EndJoin(p, at, how)
        PROVE  FALSE
    BY <1>0, <1>9 DEF EndJoin, Step
  <1> QED
    BY <1>4, <1>5, <1>6, <1>7, <1>8, <1>9
    DEF JoinStep, FinishJoin, WrongIdentity, Refused, JoinReadFails

FairInv == DialsOK /\ AnswersOK /\ FairOK

(* The server knows the peer it refuses.                                   *)
LEMMA RefusedIsNoOwner ==
  ASSUME GrantInv, AnswersOK, server = "refuse", NEW p \in Peers, join[p] # "idle", p \in Granted
  PROVE  serving # conn[p]
  <1> SUFFICES ASSUME serving = conn[p] PROVE FALSE
    OBVIOUS
  <1>1. serving \in Conns /\ Owned(p, serving)
    BY DEF GrantInv, ServeInv, UsesOK, OwnedOK, Busy
  <1>2. ends[serving]["serve"].stage = "ready" /\ ends[serving]["serve"].peer \notin Granted
    BY DEF AnswersOK, ServeAt, Busy, Answering
  <1> QED  BY <1>1, <1>2 DEF Owned

LEMMA FairStays ==
  ASSUME GrantInv, TypesOK, AnswersOK, Told, NEW p \in Peers, join[p] # "idle", p \in Granted,
         FairJoin(p), conn'[p] = conn[p], join'[p] # "refused", NEW c \in Conns, c = conn[p],
         (c \notin disturbed' \union elsewhere' /\ Closed(c, "serve")') => SaidAll(c)'
  PROVE  FairJoin(p)'
  <1>1. wire'[c]["serve"] \in Seq(Copies)
    <2>1. SaidOn(c) \subseteq Copies
      <3> SUFFICES ASSUME NEW m \in SaidOn(c), m.kind = "frame"
                   PROVE  m \in Messages /\ m.body # Refusal
        BY DEF SaidOn, Copies
      <3>1. server = "answer" /\ m.body = Copy(version) /\ m \in Messages
        BY RefusedIsNoOwner DEF SaidOn
      <3>2. Copy(version) # Refusal
        <4>1. version # Torn  BY ServeBounds DEF TypesOK, Torn
        <4> QED  BY <4>1 DEF Copy, Refusal
      <3> QED  BY <3>1, <3>2
    <2>2. Moves(wire[c]["serve"], wire'[c]["serve"], Copies)
      BY <2>1, MovesAmong DEF Told
    <2> QED  BY <2>2, MovesWithin DEF FairJoin
  <1>2. Copies' = Copies  BY DEF Copies, Refusal
  <1>3. conn'[p] = c  OBVIOUS
  <1>4. (c \notin disturbed' \union elsewhere' /\ ends'[c]["serve"].stage = "closed") =>
          NextRead(ends'[c]["dial"]) + Len(wire'[c]["serve"]) = 1
    BY DEF Closed, SaidAll
  <1> QED  BY <1>1, <1>2, <1>3, <1>4 DEF FairJoin, Closed, SaidAll

(* A connection that the step does not touch.                              *)
LEMMA FairUntouched ==
  ASSUME GrantInv, TypesOK, AnswersOK, Told, NEW p \in Peers, join[p] # "idle", p \in Granted,
         FairJoin(p), conn'[p] = conn[p], join'[p] # "refused",
         disturbed \subseteq disturbed', elsewhere \subseteq elsewhere',
         conn[p] \in disturbed' \/ Untouched(conn[p])
  PROVE  FairJoin(p)'
  <1>1. PICK c \in Conns : c = conn[p]  BY DEF GrantInv, ServeInv, UsesOK
  <1>2. (c \notin disturbed' \union elsewhere' /\ Closed(c, "serve")') => SaidAll(c)'
    <2>1. CASE c \in disturbed'  BY <2>1
    <2>2. CASE Untouched(c)
      <3>1. ends'[c] = ends[c] /\ wire'[c] = wire[c]  BY <2>2 DEF Untouched
      <3> QED  BY <1>1, <3>1 DEF FairJoin, Closed, SaidAll
    <2> QED  BY <1>1, <2>1, <2>2
  <1> QED  BY <1>1, <1>2, FairStays

(* The server answers a request when there is nothing else for it to read, *)
(* so nothing of what it says is lost when it closes.                      *)
LEMMA CopyIsSaid ==
  ASSUME GrantInv, FairInv, SendCopy, FitsFrame, NEW p \in Peers, join[p] # "idle",
         NEW c \in Conns, c = conn[p], c = serving, c \notin disturbed \union elsewhere
  PROVE  SaidAll(c)'
  <1>0. /\ ServeInv /\ LinksOK /\ server = "answer" /\ "dial" \in Ends /\ "serve" \in Ends
        /\ stream \in [Conns -> {"none", "open", "cut"}]
    BY LinkTypes DEF SendCopy, GrantInv, ServeInv
  <1>d. PICK d : d = ends[c]["dial"]  OBVIOUS
  <1>s. PICK s : s = ends[c]["serve"]  OBVIOUS
  <1>1. /\ EndFacts(c, "serve") /\ Other("serve") = "dial"
        /\ EndFacts(c, "dial") /\ Other("dial") = "serve"
    BY <1>0, TypesOfLinks DEF Other
  <1>2. /\ d \in EndStates /\ s \in EndStates /\ d.sent \in Nat /\ d.received \in Nat
        /\ wire[c]["dial"] \in Seq(Messages) /\ wire[c]["serve"] \in Seq(Messages)
    BY <1>1, <1>d, <1>s DEF EndFacts, EndStates
  <1>3. s.stage = "ready" /\ s.sent = 0 /\ s.received = 1
    BY <1>0, <1>s DEF FairInv, AnswersOK, ServeAt, Busy, Answering
  <1>4. /\ d.stage \in {"open", "offered", "ready"}
        /\ d.stage = "ready" => d.sent \in {0, 1}
    <2>1. DialAt(join[p], d) /\ join[p] \in JoinStates
      BY <1>d DEF FairInv, DialsOK, GrantInv, ServeInv, UsesOK
    <2> QED  BY <2>1 DEF DialAt, JoinStates, Asking
  <1>5. stream[c] # "cut" /\ stream[c] # "none"
    BY <1>0, <1>1, <1>3, <1>s DEF FairInv, FairOK, EndFacts, EndOK
  <1>6. /\ NextRead(s) + Len(wire[c]["dial"]) = NextWritten(d)
        /\ NextRead(d) + Len(wire[c]["serve"]) = NextWritten(s)
    <2>1. s.stage # "closed" /\ d.stage # "closed"  BY <1>3, <1>4
    <2> QED  BY <1>1, <1>5, <1>d, <1>s, <2>1 DEF EndFacts, InOrder
  <1>7. NextRead(s) = 1 /\ NextWritten(s) = 0 /\ NextWritten(d) <= 1 /\ NextWritten(d) \in Int
    BY <1>3, <1>4 DEF NextRead, NextWritten
  <1>8. wire[c]["dial"] = <<>>
    <2>1. Len(wire[c]["dial"]) \in Nat  BY <1>2
    <2>2. Len(wire[c]["dial"]) = 0  BY <1>6, <1>7, <2>1
    <2> QED  BY <1>2, <2>2
  <1>9. ~Arrived(c, "serve") /\ ~Broken(c, "serve")
    <2>1. d.stage # "closed"  BY <1>4
    <2> QED  BY <1>1, <1>5, <1>8, <1>d, <2>1 DEF Arrived, Broken, Closed
  <1>10. PICK m : wire'[c]["serve"] = Append(wire[c]["serve"], m)
    <2>1. SendLast(c, "serve", Copy(Exported), FitsFrame)  BY DEF SendCopy
    <2>2. PICK m : m = FrameOf(c, "serve", Copy(Exported))  OBVIOUS
    <2>3. Arrived(c, "serve") = FALSE  BY <1>9 DEF Arrived
    <2>t. PICK t : t = Written(c, "serve", m)  OBVIOUS
    <2>r. PICK reset \in {FALSE, Arrived(c, "serve")} :
            wire' = [wire EXCEPT
              ![c]["serve"] = IF reset THEN <<>> ELSE IF FitsFrame THEN t ELSE @,
              ![c][Other("serve")] = <<>>]
      BY <2>1, <2>2, <2>t DEF SendLast, FrameOf
    <2>6. wire'[c]["serve"] = IF reset THEN <<>> ELSE IF FitsFrame THEN t ELSE wire[c]["serve"]
      BY <1>0, <1>1, <2>r, LinkTypes
    <2>7. reset = FALSE  BY <2>3
    <2>4. wire'[c]["serve"] = Written(c, "serve", m)  BY <2>6, <2>7, <2>t
    <2>5. Written(c, "serve", m) = Append(wire[c]["serve"], m)  BY <1>9 DEF Written
    <2> QED  BY <2>4, <2>5
  <1>11. ends'[c]["dial"] = d
    <2>1. ends' = [ends EXCEPT ![c]["serve"] = Dropped]  BY DEF SendCopy, SendLast
    <2>2. ends \in [Conns -> [Ends -> EndStates]]  BY <1>0, LinkTypes
    <2> QED  BY <1>0, <1>d, <2>1, <2>2
  <1>12. Len(wire'[c]["serve"]) = Len(wire[c]["serve"]) + 1 /\ Len(wire[c]["serve"]) \in Nat
    BY <1>2, <1>10
  <1>13. NextRead(d) \in Int
    BY <1>2 DEF NextRead
  <1>14. NextRead(d) + Len(wire'[c]["serve"]) = 1  BY <1>6, <1>7, <1>12, <1>13
  <1> QED  BY <1>11, <1>14 DEF SaidAll

(* The server fails only where something was disturbed.                    *)
LEMMA FailsIfDisturbed ==
  ASSUME GrantInv, FairInv, PeerFails, NEW p \in Peers, join[p] # "idle", conn[p] = serving
  PROVE  serving \in disturbed
  <1>1. serving \in Conns /\ "serve" \in Ends /\ Other("serve") = "dial" /\ FramesOpen
    BY InvariantImplies DEF PeerFails, GrantInv, ServeInv, UsesOK, Busy, Ends, Other
  <1>2. ends[serving]["dial"].stage # "closed"
    <2>1. DialAt(join[p], ends[serving]["dial"]) /\ join[p] \in JoinStates
      BY DEF FairInv, DialsOK, GrantInv, ServeInv, UsesOK
    <2> QED  BY <2>1 DEF DialAt, JoinStates, Asking
  <1>3. ReadFails(serving, "serve")  BY DEF PeerFails
  <1>4. Broken(serving, "serve")  BY <1>1, <1>3 DEF ReadFails, FramesOpen
  <1>5. stream[serving] = "cut"  BY <1>1, <1>2, <1>4 DEF Broken, Closed
  <1> QED  BY <1>1, <1>5 DEF FairInv, FairOK

LEMMA AnswersKept ==
  ASSUME GrantInv, AnswersOK, UNCHANGED <<server, serving>>, elsewhere \subseteq elsewhere',
         \A c \in Conns \ elsewhere : ends'[c]["serve"] = ends[c]["serve"]
  PROVE  AnswersOK'
  <1>1. server \in Busy => serving \in Conns \ elsewhere
    BY DEF GrantInv, ServeInv, UsesOK, ServingOK
  <1>2. server' \in Busy => ServeAt(server', ends'[serving']["serve"])
    BY <1>1 DEF AnswersOK
  <1> QED  BY <1>2 DEF AnswersOK

LEMMA AnswersDone ==
  ASSUME server' \notin Busy,
         \A c \in Conns \ elsewhere' : ends'[c]["serve"].stage # "ready"
  PROVE  AnswersOK'
  BY DEF AnswersOK

(* A step of the server, or one that does not concern a join.              *)
LEMMA ServerFair ==
  ASSUME GrantInv, TypesOK, FairInv, Told, UNCHANGED <<join, conn, elsewhere>>,
         disturbed \subseteq disturbed',
         \A c \in Conns : /\ ends'[c]["dial"] = ends[c]["dial"]
                          /\ stream'[c] = "cut" => c \in disturbed',
         \A p \in Peers, c \in Conns :
           (join[p] # "idle" /\ p \in Granted /\ c = conn[p]) =>
             c \in disturbed' \union elsewhere \/ Untouched(c) \/ ~Closed(c, "serve")' \/ SaidAll(c)'
  PROVE  DialsOK' /\ FairOK'
  <1>1. DialsOK'
    BY DEF GrantInv, ServeInv, UsesOK, FairInv, DialsOK, DialAt
  <1>2. ASSUME NEW p \in Peers, join'[p] # "idle", p \in Granted
        PROVE  FairJoin(p)'
    <2>1. join[p] # "idle" /\ FairJoin(p) /\ AnswersOK
      BY <1>2 DEF FairInv, FairOK
    <2>2. PICK c \in Conns : c = conn[p]
      BY <2>1 DEF GrantInv, ServeInv, UsesOK
    <2>3. join'[p] # "refused" /\ conn'[p] = conn[p]  BY <2>1 DEF FairJoin
    <2>4. CASE Untouched(c)
      BY <1>2, <2>1, <2>2, <2>3, <2>4, FairUntouched
    <2>5. CASE ~Untouched(c)
      <3>1. (c \notin disturbed' \union elsewhere' /\ Closed(c, "serve")') => SaidAll(c)'
        BY <1>2, <2>1, <2>2, <2>5
      <3> QED  BY <1>2, <2>1, <2>2, <2>3, <3>1, FairStays
    <2> QED  BY <2>4, <2>5
  <1> QED  BY <1>1, <1>2 DEF FairOK

LEMMA CloseServe ==
  ASSUME ServeInv, NEW dropped, dropped \subseteq Conns, CloseAll(dropped, "serve")
  PROVE  /\ stream' = stream
         /\ \A c \in Conns : ends'[c]["dial"] = ends[c]["dial"]
         /\ \A c \in Conns \ dropped : Untouched(c)
         /\ \A c \in dropped : ends'[c]["serve"].stage = "closed"
  <1>1. \A c \in Conns \ dropped : ends'[c] = ends[c] /\ wire'[c] = wire[c]
    BY DEF CloseAll
  <1>2. stream' = stream  BY DEF CloseAll
  <1>3. \A c \in dropped : ends'[c] = [ends[c] EXCEPT !["serve"] = Dropped]
    BY DEF CloseAll
  <1>4. ASSUME NEW c \in dropped
        PROVE  ends'[c]["dial"] = ends[c]["dial"] /\ ends'[c]["serve"] = Dropped
    <2>1. ends[c] \in [Ends -> EndStates] /\ "dial" \in Ends /\ "serve" \in Ends  BY LinkTypes
    <2>2. ends'[c] = [ends[c] EXCEPT !["serve"] = Dropped]  BY <1>3
    <2> QED  BY <2>1, <2>2
  <1>5. Dropped.stage = "closed"  BY DEF Dropped, NewEnd
  <1> QED  BY <1>1, <1>2, <1>4, <1>5 DEF Untouched

LEMMA SendLastServe ==
  ASSUME ServeInv, NEW c \in Conns, NEW body, NEW fits, SendLast(c, "serve", body, fits)
  PROVE  /\ stream' = stream
         /\ \A b \in Conns : ends'[b]["dial"] = ends[b]["dial"]
         /\ \A b \in Conns \ {c} : Untouched(b)
         /\ ends'[c]["serve"].stage = "closed"
  <1>1. ends' = [ends EXCEPT ![c]["serve"] = Dropped] /\ stream' = stream
    BY DEF SendLast
  <1>2. ends \in [Conns -> [Ends -> EndStates]] /\ "dial" \in Ends /\ "serve" \in Ends
    BY LinkTypes
  <1>3. \A b \in Conns : ends'[b]["dial"] = ends[b]["dial"]
    BY <1>1, <1>2
  <1>4. ends'[c]["serve"] = Dropped  BY <1>1, <1>2
  <1>5. Dropped.stage = "closed"  BY DEF Dropped, NewEnd
  <1>6. \A b \in Conns \ {c} : Untouched(b)  BY OthersUntouched
  <1> QED  BY <1>1, <1>3, <1>4, <1>5, <1>6

LEMMA QuietFair ==
  ASSUME GrantInv, TypesOK, FairInv, UNCHANGED <<channelVars, join, conn, elsewhere>>,
         disturbed \subseteq disturbed'
  PROVE  DialsOK' /\ FairOK'
  <1>1. /\ \A c \in Conns : Untouched(c) /\ Told
    BY StutterTold DEF channelVars, Untouched
  <1>2. \A c \in Conns : /\ ends'[c]["dial"] = ends[c]["dial"]
                         /\ stream'[c] = "cut" => c \in disturbed'
    BY DEF channelVars, FairInv, FairOK
  <1>3. Told  BY StutterTold
  <1> QED  BY <1>1, <1>2, <1>3, ServerFair

LEMMA ServerStepsFair ==
  ASSUME GrantInv, TypesOK, FairInv, FitsFrame, Told,
         \/ StartWhoami \/ PrintInvite \/ StartServe \/ ServerStep
         \/ \E q \in Procs : CreateIdentity(q)
         \/ \E line \in {"command", "quit"} : TypeLine(line)
         \/ ServeDies \/ WhoamiDies \/ IdentityLost
  PROVE  FairInv'
  <1>0. /\ ServeInv /\ UsesOK /\ ServingOK /\ AnswersOK /\ LinksOK
        /\ \A c \in Conns : stream[c] = "cut" => c \in disturbed
        /\ ends \in [Conns -> [Ends -> EndStates]] /\ "dial" \in Ends /\ "serve" \in Ends
    BY LinkTypes DEF GrantInv, ServeInv, FairInv, FairOK
  <1>1. CASE \/ StartWhoami \/ PrintInvite \/ WhoamiDies \/ IdentityLost
             \/ \E q \in Procs : CreateIdentity(q)
             \/ \E line \in {"command", "quit"} : TypeLine(line)
             \/ HandleLine
    <2>1. UNCHANGED <<channelVars, join, conn, elsewhere, server, serving>> /\ disturbed \subseteq disturbed'
      BY <1>1
      DEF StartWhoami, PrintInvite, WhoamiDies, IdentityLost, CreateIdentity, TypeLine, HandleLine, Fault,
          serverVars, joinVars, faultVars
    <2>2. AnswersOK'  BY <1>0, <2>1, AnswersKept DEF channelVars
    <2> QED  BY <2>1, <2>2, QuietFair DEF FairInv
  <1>2. CASE StartServe \/ Listen
    <2>1. /\ UNCHANGED <<channelVars, join, conn, elsewhere, disturbed>>
          /\ server \notin Answering /\ server' \notin Busy
      BY <1>2 DEF StartServe, Listen, joinVars, faultVars, Answering, Busy
    <2>2. AnswersOK'  BY <1>0, <2>1, AnswersDone DEF AnswersOK, channelVars
    <2> QED  BY <2>1, <2>2, QuietFair DEF FairInv
  <1>3. CASE AcceptPeer
    <2>1. /\ UNCHANGED <<channelVars, join, conn, elsewhere, disturbed>>
          /\ server = "select" /\ server' = "accepted" /\ ends[serving']["serve"].stage = "none"
      BY <1>3 DEF AcceptPeer, Waiting, joinVars, faultVars
    <2>2. AnswersOK'
      BY <1>0, <2>1 DEF AnswersOK, channelVars, ServeAt, Answering
    <2> QED  BY <2>1, <2>2, QuietFair DEF FairInv
  <1>4. CASE AnswerPeer
    <2>1. /\ serving \in Conns \ elsewhere /\ AnswerHello(serving, loaded["serve"]) /\ serving' = serving
          /\ UNCHANGED <<join, conn, elsewhere, disturbed>> /\ server = "accepted"
          /\ server' = IF IsGranted(ends'[serving]["serve"].peer) THEN "request" ELSE "refuse"
      BY <1>0, <1>4 DEF AnswerPeer, ServeUnchanged, joinVars, faultVars, UsesOK, ServingOK, Busy
    <2>2. /\ \A c \in Conns : ends'[c]["dial"] = ends[c]["dial"]
          /\ ends'[serving]["serve"].stage = "ready" /\ ends'[serving]["serve"].sent = 0
          /\ ends'[serving]["serve"].received = 0 /\ stream' = stream
      BY <1>0, <2>1 DEF AnswerHello, Ready, NewEnd
    <2>3. \A c \in Conns \ {serving} : Untouched(c)
      BY <1>0, <2>1, OthersUntouched
    <2>4. AnswersOK'
      <3>1. ServeAt(server', ends'[serving]["serve"])
        BY <2>1, <2>2 DEF ServeAt, IsGranted, Answering
      <3>2. \A c \in Conns \ elsewhere : ends'[c]["serve"].stage = "ready" => c = serving
        BY <1>0, <2>1, <2>3 DEF AnswersOK, Untouched, Answering
      <3>3. server' \in Answering  BY <2>1 DEF Answering
      <3> QED  BY <2>1, <3>1, <3>2, <3>3 DEF AnswersOK
    <2>5. \A c \in Conns : Untouched(c) \/ ~Closed(c, "serve")'
      BY <2>2, <2>3 DEF Closed
    <2>6. DialsOK' /\ FairOK'
      BY <1>0, <2>1, <2>2, <2>5, ServerFair
    <2> QED  BY <2>4, <2>6 DEF FairInv
  <1>5. CASE Refuse
    <2>1. /\ serving \in Conns /\ SendLast(serving, "serve", Refusal, TRUE) /\ server' = "select"
          /\ UNCHANGED <<join, conn, elsewhere, disturbed>> /\ server = "refuse"
      BY <1>0, <1>5 DEF Refuse, BackToSelect, ServeUnchanged, joinVars, faultVars, UsesOK, Busy
    <2>2. /\ stream' = stream /\ \A c \in Conns : ends'[c]["dial"] = ends[c]["dial"]
          /\ \A c \in Conns \ {serving} : Untouched(c)
          /\ ends'[serving]["serve"].stage = "closed"
      BY <1>0, <2>1, SendLastServe
    <2>3. AnswersOK'
      <3>1. \A c \in Conns \ elsewhere' : ends'[c]["serve"].stage # "ready"
        BY <1>0, <2>1, <2>2 DEF AnswersOK, Untouched
      <3>2. server' \notin Busy  BY <2>1 DEF Busy
      <3> QED  BY <3>1, <3>2, AnswersDone
    <2>4. \A p \in Peers : (join[p] # "idle" /\ p \in Granted) => conn[p] # serving
      BY <1>0, <2>1, RefusedIsNoOwner
    <2>5. DialsOK' /\ FairOK'
      BY <1>0, <2>1, <2>2, <2>4, ServerFair
    <2> QED  BY <2>3, <2>5 DEF FairInv
  <1>6. CASE ReadRequest
    <2>1. /\ serving \in Conns \ elsewhere /\ Receive(serving, "serve") /\ server = "request"
          /\ server' = "answer" /\ serving' = serving
          /\ UNCHANGED <<join, conn, elsewhere, disturbed>>
      BY <1>0, <1>6 DEF ReadRequest, ServeUnchanged, joinVars, faultVars, UsesOK, ServingOK, Busy
    <2>2. PICK s : s = ends[serving]["serve"]  OBVIOUS
    <2>3. s \in EndStates /\ s.stage = "ready" /\ s.sent = 0 /\ s.received = 0
      BY <1>0, <2>1, <2>2 DEF AnswersOK, ServeAt, Busy, Answering
    <2>4. /\ \A c \in Conns : ends'[c]["dial"] = ends[c]["dial"]
          /\ ends'[serving]["serve"] = AfterReceive(s) /\ stream' = stream
      BY <1>0, <2>1, <2>2 DEF Receive, AfterReceive
    <2>5. /\ ends'[serving]["serve"].stage = "ready" /\ ends'[serving]["serve"].sent = 0
          /\ ends'[serving]["serve"].received = 1
      BY <2>3, <2>4, EndCounts
    <2>6. \A c \in Conns \ {serving} : Untouched(c)
      BY <1>0, <2>1, OthersUntouched
    <2>7. AnswersOK'
      <3>1. ServeAt(server', ends'[serving]["serve"])
        BY <2>1, <2>5 DEF ServeAt, Answering
      <3>2. \A c \in Conns \ elsewhere : ends'[c]["serve"].stage = "ready" => c = serving
        BY <1>0, <2>1, <2>6 DEF AnswersOK, Untouched
      <3>3. server' \in Answering  BY <2>1 DEF Answering
      <3> QED  BY <2>1, <3>1, <3>2, <3>3 DEF AnswersOK
    <2>8. \A c \in Conns : Untouched(c) \/ ~Closed(c, "serve")'
      BY <2>5, <2>6 DEF Closed
    <2>9. DialsOK' /\ FairOK'
      BY <1>0, <2>1, <2>4, <2>8, ServerFair
    <2> QED  BY <2>7, <2>9 DEF FairInv
  <1>7. CASE SendCopy
    <2>1. /\ serving \in Conns \ elsewhere /\ SendLast(serving, "serve", Copy(Exported), FitsFrame)
          /\ server' = "select" /\ UNCHANGED <<join, conn, elsewhere, disturbed>> /\ server = "answer"
      BY <1>0, <1>7 DEF SendCopy, BackToSelect, ServeUnchanged, joinVars, faultVars, UsesOK, ServingOK, Busy
    <2>2. /\ stream' = stream /\ \A c \in Conns : ends'[c]["dial"] = ends[c]["dial"]
          /\ \A c \in Conns \ {serving} : Untouched(c)
          /\ ends'[serving]["serve"].stage = "closed"
      BY <1>0, <2>1, SendLastServe
    <2>3. AnswersOK'
      <3>1. \A c \in Conns \ elsewhere' : ends'[c]["serve"].stage # "ready"
        BY <1>0, <2>1, <2>2 DEF AnswersOK, Untouched
      <3>2. server' \notin Busy  BY <2>1 DEF Busy
      <3> QED  BY <3>1, <3>2, AnswersDone
    <2>4. \A p \in Peers, c \in Conns : (join[p] # "idle" /\ p \in Granted /\ c = conn[p]) =>
            c \in disturbed' \union elsewhere \/ Untouched(c) \/ SaidAll(c)'
      BY <1>7, <2>1, <2>2, CopyIsSaid
    <2>5. DialsOK' /\ FairOK'
      BY <1>0, <2>1, <2>2, <2>4, ServerFair
    <2> QED  BY <2>3, <2>5 DEF FairInv
  <1>8. CASE PeerFails
    <2>1. /\ serving \in Conns \ elsewhere /\ CloseAll({serving}, "serve") /\ server' = "select"
          /\ UNCHANGED <<join, conn, elsewhere, disturbed>>
      BY <1>0, <1>8
      DEF PeerFails, Close, BackToSelect, ServeUnchanged, joinVars, faultVars, UsesOK, ServingOK, Busy
    <2>2. /\ stream' = stream /\ \A c \in Conns : ends'[c]["dial"] = ends[c]["dial"]
          /\ \A c \in Conns \ {serving} : Untouched(c)
          /\ ends'[serving]["serve"].stage = "closed"
      BY <1>0, <2>1, CloseServe
    <2>3. AnswersOK'
      <3>1. \A c \in Conns \ elsewhere' : ends'[c]["serve"].stage # "ready"
        BY <1>0, <2>1, <2>2 DEF AnswersOK, Untouched
      <3>2. server' \notin Busy  BY <2>1 DEF Busy
      <3> QED  BY <3>1, <3>2, AnswersDone
    <2>4. \A p \in Peers, c \in Conns : (join[p] # "idle" /\ p \in Granted /\ c = conn[p]) =>
            c \in disturbed' \union elsewhere \/ Untouched(c)
      BY <1>8, <2>1, <2>2, FailsIfDisturbed
    <2>5. DialsOK' /\ FairOK'
      BY <1>0, <2>1, <2>2, <2>4, ServerFair
    <2> QED  BY <2>3, <2>5 DEF FairInv
  <1>9. ASSUME NEW to \in {"off", "ended"}, Exit(to)
        PROVE  FairInv'
    <2>1. /\ CloseAll(Connected, "serve") /\ server' = to /\ Connected \subseteq Conns
          /\ UNCHANGED <<join, conn, elsewhere>> /\ disturbed' = disturbed \union Connected
      BY <1>9 DEF Exit, joinVars, Connected
    <2>2. /\ stream' = stream /\ \A c \in Conns : ends'[c]["dial"] = ends[c]["dial"]
          /\ \A c \in Conns \ Connected : Untouched(c)
          /\ \A c \in Connected : ends'[c]["serve"].stage = "closed"
      BY <1>0, <2>1, CloseServe
    <2>3. AnswersOK'
      <3>1. ASSUME NEW c \in Conns \ elsewhere'
            PROVE  ends'[c]["serve"].stage # "ready"
        <4>1. CASE c \in Connected  BY <2>2, <4>1
        <4>2. CASE c \notin Connected
          <5>1. EndOK(c, stream[c], ends[c]["serve"])
            BY <1>0, TypesOfLinks DEF EndFacts
          <5>2. stream[c] = "none" \/ Closed(c, "serve")
            BY <2>1, <3>1, <4>2 DEF Connected
          <5>3. ends[c]["serve"].stage # "ready"  BY <5>1, <5>2 DEF EndOK, Closed
          <5> QED  BY <2>2, <4>2, <5>3 DEF Untouched
        <4> QED  BY <4>1, <4>2
      <3>2. server' \notin Busy  BY <2>1 DEF Busy
      <3> QED  BY <3>1, <3>2, AnswersDone
    <2>4. \A c \in Conns : c \in disturbed' \/ Untouched(c)
      BY <2>1, <2>2
    <2>5. DialsOK' /\ FairOK'
      BY <1>0, <2>1, <2>2, <2>4, ServerFair
    <2> QED  BY <2>3, <2>5 DEF FairInv
  <1> QED
    BY <1>1, <1>2, <1>3, <1>4, <1>5, <1>6, <1>7, <1>8, <1>9 DEF ServerStep, Quit, ServeDies

(* What a step on the connection of one join leaves to the others.         *)
LEMMA OthersFair ==
  ASSUME GrantInv, TypesOK, FairInv, Told, NEW p \in Peers, OthersStay(p),
         NEW c \in Conns, \A b \in Conns \ {c} : Untouched(b),
         \A q \in Peers \ {p} : join[q] # "idle" => conn[q] # c,
         elsewhere \subseteq elsewhere', disturbed \subseteq disturbed'
  PROVE  /\ \A b \in Conns \ {c} : stream'[b] = "cut" => b \in disturbed'
         /\ \A q \in Peers \ {p} : join'[q] # "idle" => DialAt(join'[q], ends'[conn'[q]]["dial"])
         /\ \A q \in Peers \ {p} : (join'[q] # "idle" /\ q \in Granted) => FairJoin(q)'
  <1>1. \A b \in Conns \ {c} : stream'[b] = "cut" => b \in disturbed'
    BY DEF Untouched, FairInv, FairOK
  <1>2. ASSUME NEW q \in Peers \ {p}, join'[q] # "idle"
        PROVE  /\ DialAt(join'[q], ends'[conn'[q]]["dial"])
               /\ q \in Granted => FairJoin(q)'
    <2>1. join'[q] = join[q] /\ conn'[q] = conn[q]  BY DEF OthersStay
    <2>2. Untouched(conn[q]) /\ DialAt(join[q], ends[conn[q]]["dial"])
      BY <1>2, <2>1 DEF GrantInv, ServeInv, UsesOK, FairInv, DialsOK
    <2>3. ASSUME q \in Granted
          PROVE  FairJoin(q)'
      <3>1. AnswersOK /\ FairJoin(q) /\ join[q] # "idle"
        BY <1>2, <2>1, <2>3 DEF FairInv, FairOK
      <3>2. join'[q] # "refused"  BY <2>1, <3>1 DEF FairJoin
      <3> QED  BY <2>1, <2>2, <2>3, <3>1, <3>2, FairUntouched
    <2> QED  BY <2>1, <2>2, <2>3 DEF Untouched
  <1> QED  BY <1>1, <1>2

LEMMA DialFair ==
  ASSUME GrantInv, TypesOK, FairInv, Told, NEW p \in Peers, NEW c \in Conns, OthersStay(p),
         join'[p] = "connected", conn'[p] = c, Connect(c),
         elsewhere' \in {elsewhere, elsewhere \union {c}}, UNCHANGED <<server, serving, disturbed>>
  PROVE  FairInv'
  <1>0. ServeInv /\ JoinsOK /\ AnswersOK /\ elsewhere \subseteq elsewhere' /\ disturbed \subseteq disturbed'
    BY DEF GrantInv, FairInv
  <1>1. /\ stream[c] = "none" /\ stream'[c] = "open" /\ wire' = wire
        /\ ends'[c]["dial"] = [ends[c]["dial"] EXCEPT !.stage = "open"]
        /\ \A b \in Conns : ends'[b]["serve"] = ends[b]["serve"]
    BY <1>0, LinkTypes DEF Connect
  <1>2. /\ wire[c]["serve"] = <<>> /\ ends[c]["serve"].stage = "none"
        /\ ends[c]["dial"] \in EndStates
    BY <1>0, <1>1, UnusedIsEmpty
  <1>3. ends'[c]["dial"].stage = "open"  BY <1>1, <1>2 DEF EndStates
  <1>4. \A b \in Conns \ {c} : Untouched(b)  BY <1>0, OthersUntouched
  <1>5. \A q \in Peers \ {p} : join[q] # "idle" => conn[q] # c
    BY <1>0, <1>1 DEF JoinsOK
  <1>6. /\ \A b \in Conns \ {c} : stream'[b] = "cut" => b \in disturbed'
        /\ \A q \in Peers \ {p} : join'[q] # "idle" => DialAt(join'[q], ends'[conn'[q]]["dial"])
        /\ \A q \in Peers \ {p} : (join'[q] # "idle" /\ q \in Granted) => FairJoin(q)'
    BY <1>0, <1>4, <1>5, OthersFair
  <1>7. DialAt(join'[p], ends'[conn'[p]]["dial"])
    BY <1>3 DEF DialAt, Asking
  <1>8. FairJoin(p)'
    <2>1. wire'[c]["serve"] = <<>> /\ ends'[c]["serve"].stage = "none"  BY <1>1, <1>2
    <2> QED  BY <2>1 DEF FairJoin, Closed
  <1>9. DialsOK'  BY <1>6, <1>7 DEF DialsOK
  <1>10. AnswersOK'  BY <1>0, <1>1, AnswersKept
  <1>11. FairOK'  BY <1>1, <1>6, <1>8 DEF FairOK
  <1> QED  BY <1>9, <1>10, <1>11 DEF FairInv

LEMMA JoinStepFair ==
  ASSUME GrantInv, TypesOK, FairInv, Told, NEW p \in Peers, JoinStep(p), PeerStays(p), join'[p] # "idle"
  PROVE  FairInv'
  <1>c. PICK c : c = conn[p]  OBVIOUS
  <1>0. /\ ServeInv /\ JoinsOK /\ AnswersOK /\ DialAt(join[p], ends[c]["dial"]) /\ OthersStay(p)
        /\ join[p] # "idle" /\ conn'[p] = c
    BY <1>c DEF GrantInv, FairInv, DialsOK, PeerStays
  <1>1. /\ c \in Conns
        /\ \A b \in Conns \ {c} : Untouched(b)
        /\ stream' = stream /\ ends'[c]["serve"] = ends[c]["serve"]
        /\ DialAt(join'[p], ends'[c]["dial"])
        /\ SaidAll(c) => SaidAll(c)'
        /\ join'[p] = "refused" =>
             /\ join[p] = "wait" /\ wire[c]["serve"] # <<>> /\ Head(wire[c]["serve"]).kind = "frame"
             /\ Head(wire[c]["serve"]).body = Refusal
        /\ UNCHANGED <<server, serving, elsewhere, disturbed>>
    BY <1>0, <1>c, JoinMoves
  <1>2. \A q \in Peers \ {p} : join[q] # "idle" => conn[q] # c
    BY <1>0, <1>c DEF JoinsOK
  <1>3. /\ \A b \in Conns \ {c} : stream'[b] = "cut" => b \in disturbed'
        /\ \A q \in Peers \ {p} : join'[q] # "idle" => DialAt(join'[q], ends'[conn'[q]]["dial"])
        /\ \A q \in Peers \ {p} : (join'[q] # "idle" /\ q \in Granted) => FairJoin(q)'
    BY <1>0, <1>1, <1>2, OthersFair
  <1>4. DialsOK'  BY <1>0, <1>1, <1>3 DEF DialsOK
  <1>5. AnswersOK'
    <2>1. \A b \in Conns \ elsewhere : ends'[b]["serve"] = ends[b]["serve"]
      BY <1>1 DEF Untouched
    <2> QED  BY <1>0, <1>1, <2>1, AnswersKept
  <1>6. p \in Granted => FairJoin(p)'
    <2> SUFFICES ASSUME p \in Granted PROVE FairJoin(p)'
      OBVIOUS
    <2>1. FairJoin(p)  BY <1>0 DEF FairInv, FairOK
    <2>2. join'[p] # "refused"
      <3> SUFFICES ASSUME join'[p] = "refused" PROVE FALSE
        OBVIOUS
      <3>1. Head(wire[c]["serve"]) \in Copies
        BY <1>1, <1>c, <2>1, HeadWithin DEF FairJoin
      <3> QED  BY <1>1, <3>1 DEF Copies
    <2>3. (c \notin disturbed' \union elsewhere' /\ Closed(c, "serve")') => SaidAll(c)'
      BY <1>1, <1>c, <2>1 DEF FairJoin, Closed
    <2> QED  BY <1>0, <1>1, <1>c, <2>1, <2>2, <2>3, FairStays
  <1>7. FairOK'
    <2>1. \A b \in Conns : stream'[b] = "cut" => b \in disturbed'
      BY <1>1, <1>3 DEF FairInv, FairOK
    <2> QED  BY <1>3, <1>6, <2>1 DEF FairOK
  <1> QED  BY <1>4, <1>5, <1>7 DEF FairInv

LEMMA EndFair ==
  ASSUME GrantInv, TypesOK, FairInv, Told, NEW p \in Peers, OthersStay(p), join[p] # "idle",
         join'[p] = "idle", Close(conn[p], "dial"), UNCHANGED <<server, serving, elsewhere>>,
         disturbed \subseteq disturbed'
  PROVE  FairInv'
  <1>c. PICK c : c = conn[p]  OBVIOUS
  <1>0. /\ ServeInv /\ JoinsOK /\ AnswersOK /\ c \in Conns /\ Close(c, "dial")
    BY <1>c DEF GrantInv, ServeInv, UsesOK, FairInv
  <1>1. \A b \in Conns \ {c} : Untouched(b)  BY <1>0, OthersUntouched
  <1>2. stream' = stream /\ ends'[c] = [ends[c] EXCEPT !["dial"] = Dropped]
    BY <1>0 DEF Close, CloseAll
  <1>3. ends'[c]["serve"] = ends[c]["serve"]
    <2>1. ends[c] \in [Ends -> EndStates] /\ "serve" \in Ends /\ "serve" # "dial"
      BY <1>0, LinkTypes
    <2> QED  BY <1>2, <2>1
  <1>4. \A q \in Peers \ {p} : join[q] # "idle" => conn[q] # c
    BY <1>0, <1>c DEF JoinsOK
  <1>5. /\ \A b \in Conns \ {c} : stream'[b] = "cut" => b \in disturbed'
        /\ \A q \in Peers \ {p} : join'[q] # "idle" => DialAt(join'[q], ends'[conn'[q]]["dial"])
        /\ \A q \in Peers \ {p} : (join'[q] # "idle" /\ q \in Granted) => FairJoin(q)'
    BY <1>0, <1>1, <1>4, OthersFair
  <1>6. DialsOK'  BY <1>5 DEF DialsOK
  <1>7. AnswersOK'
    <2>1. \A b \in Conns \ elsewhere : ends'[b]["serve"] = ends[b]["serve"]
      BY <1>1, <1>3 DEF Untouched
    <2> QED  BY <1>0, <2>1, AnswersKept
  <1>8. FairOK'
    <2>1. \A b \in Conns : stream'[b] = "cut" => b \in disturbed'
      BY <1>2 DEF FairInv, FairOK
    <2> QED  BY <1>5, <2>1 DEF FairOK
  <1> QED  BY <1>6, <1>7, <1>8 DEF FairInv

(* What happens on connections without a join of this step.                *)
LEMMA LinkFair ==
  ASSUME GrantInv, TypesOK, FairInv, Told, NEW d \in Conns,
         OtherAnswers(d) \/ CutStream(d) \/ FallSilent(d)
  PROVE  FairInv'
  <1>0. /\ ServeInv /\ AnswersOK
        /\ \A c \in Conns : stream[c] = "cut" => c \in disturbed
    BY DEF GrantInv, FairInv, FairOK
  <1>1. CASE OtherAnswers(d)
    <2>1. /\ d \in elsewhere /\ AnswerHello(d, Stranger)
          /\ UNCHANGED <<join, conn, elsewhere, disturbed, server, serving>>
      BY <1>1 DEF OtherAnswers, serverVars, joinVars, faultVars
    <2>2. /\ \A c \in Conns : ends'[c]["dial"] = ends[c]["dial"]
          /\ stream' = stream
      BY <1>0, <2>1, LinkTypes DEF AnswerHello, Ready
    <2>3. \A c \in Conns \ {d} : Untouched(c)  BY <1>0, <2>1, OthersUntouched
    <2>4. AnswersOK'
      <3>1. \A c \in Conns \ elsewhere : ends'[c]["serve"] = ends[c]["serve"]
        BY <2>1, <2>3 DEF Untouched
      <3> QED  BY <1>0, <2>1, <3>1, AnswersKept
    <2>5. DialsOK' /\ FairOK'
      BY <1>0, <2>1, <2>2, <2>3, ServerFair
    <2> QED  BY <2>4, <2>5 DEF FairInv
  <1>2. CASE CutStream(d)
    <2>1. /\ Cut(d) /\ disturbed' = disturbed \union {d}
          /\ UNCHANGED <<join, conn, elsewhere, server, serving>>
      BY <1>2 DEF CutStream, Fault, serverVars, joinVars
    <2>2. /\ ends' = ends /\ \A c \in Conns \ {d} : stream'[c] = stream[c]
      BY <1>0, <2>1, LinkTypes DEF Cut
    <2>3. \A c \in Conns \ {d} : Untouched(c)  BY <1>0, <2>1, OthersUntouched
    <2>4. AnswersOK'  BY <1>0, <2>1, <2>2, AnswersKept
    <2>5. DialsOK' /\ FairOK'
      BY <1>0, <2>1, <2>2, <2>3, ServerFair
    <2> QED  BY <2>4, <2>5 DEF FairInv
  <1>3. CASE FallSilent(d)
    <2>1. /\ disturbed \subseteq disturbed'
          /\ UNCHANGED <<channelVars, join, conn, elsewhere, server, serving>>
      BY <1>3 DEF FallSilent, Fault, serverVars, joinVars
    <2>2. AnswersOK'  BY <1>0, <2>1, AnswersKept DEF channelVars
    <2> QED  BY <2>1, <2>2, QuietFair DEF FairInv
  <1> QED  BY <1>1, <1>2, <1>3

LEMMA PeerStepsFair ==
  ASSUME GrantInv, TypesOK, FairInv, Told, NEW p \in Peers,
         StartJoin(p) \/ JoinStep(p) \/ JoinDies(p) \/ DialElsewhere(p)
  PROVE  FairInv'
  <1>1. ServeNext  BY DEF ServeNext
  <1>2. CASE UNCHANGED joinVars /\ elsewhere' = elsewhere
    <2>1. join \in [Peers -> JoinStates] /\ join' = join
      BY <1>2 DEF GrantInv, ServeInv, UsesOK, joinVars
    <2>2. ASSUME NEW at \in JoinStates, NEW to \in JoinStates, at # to, join[p] = at,
                 join' = [join EXCEPT ![p] = to]
          PROVE  FALSE
      BY <2>1, <2>2
    <2>3. CASE StartJoin(p) \/ DialElsewhere(p)
      BY <2>2, <2>3 DEF StartJoin, DialElsewhere, Dial, JoinStates
    <2>4. CASE JoinDies(p)
      BY <2>1, <2>2, <2>4 DEF JoinDies, JoinStates
    <2>5. CASE JoinStep(p)
      BY <2>2, <2>5
      DEF JoinStep, JoinHello, JoinVerify, JoinAsk, JoinReceive, Truncate, FinishJoin, WrongIdentity,
          Refused, JoinReadFails, EndJoin, Step, JoinStates
    <2> QED  BY <2>3, <2>4, <2>5
  <1>3. ASSUME NEW q \in Peers, NEW c \in Conns, OthersStay(q), join'[q] = "connected", conn'[q] = c,
               Connect(c), elsewhere' \in {elsewhere, elsewhere \union {c}},
               UNCHANGED <<server, serving, disturbed>>
        PROVE  FairInv'
    BY <1>3, DialFair
  <1>4. ASSUME NEW q \in Peers, JoinStep(q), PeerStays(q), join'[q] # "idle"
        PROVE  FairInv'
    BY <1>4, JoinStepFair
  <1>5. ASSUME NEW q \in Peers, OthersStay(q), join[q] # "idle", join'[q] = "idle",
               Close(conn[q], "dial"), UNCHANGED <<server, serving, elsewhere>>,
               disturbed \subseteq disturbed'
        PROVE  FairInv'
    BY <1>5, EndFair
  <1> QED  BY <1>1, <1>2, <1>3, <1>4, <1>5, PeersActAlone

LEMMA FairHolds ==
  ASSUME FitsFrame
  PROVE  ServeSpec => []FairInv
  <1>1. ServeInit => FairInv
    <2> SUFFICES ASSUME ServeInit PROVE FairInv
      OBVIOUS
    <2>1. /\ server = "off" /\ join = [p \in Peers |-> "idle"]
          /\ stream = [c \in Conns |-> "none"] /\ ends = [c \in Conns |-> [e \in Ends |-> NewEnd]]
      BY DEF ServeInit, ChannelInit
    <2>2. \A c \in Conns : ends[c]["serve"].stage = "none"
      BY <2>1 DEF NewEnd, Ends
    <2>3. DialsOK  BY <2>1 DEF DialsOK
    <2>4. AnswersOK  BY <2>1, <2>2 DEF AnswersOK, Busy
    <2>5. FairOK  BY <2>1 DEF FairOK
    <2> QED  BY <2>3, <2>4, <2>5 DEF FairInv
  <1>2. GrantInv /\ TypesOK /\ FairInv /\ [ServeNext]_serveVars => FairInv'
    <2> SUFFICES ASSUME GrantInv, TypesOK, FairInv, [ServeNext]_serveVars PROVE FairInv'
      OBVIOUS
    <2>1. CASE ServeNext
      <3>1. Told  BY <2>1, NextTold
      <3> QED  BY <2>1, <3>1, ServerStepsFair, PeerStepsFair, LinkFair DEF ServeNext
    <2>2. CASE UNCHANGED serveVars
      BY <2>2
      DEF serveVars, channelVars, serverVars, joinVars, faultVars, FairInv, DialsOK, AnswersOK, FairOK,
          FairJoin, SaidAll, Closed, Copies, Refusal
    <2> QED  BY <2>1, <2>2
  <1> QED  BY <1>1, <1>2, GrantInvHolds, TypesHold, PTL DEF ServeSpec

(* A join that is granted and not disturbed always finds more to read.     *)
LEMMA UndisturbedReads ==
  ASSUME GrantInv, FairInv, NEW p \in Granted, JoinReadFails(p)
  PROVE  conn[p] \in disturbed' \union elsewhere
  <1> SUFFICES ASSUME conn[p] \notin disturbed' \union elsewhere
               PROVE  FALSE
    OBVIOUS
  <1>c. PICK c : c = conn[p]  OBVIOUS
  <1>d. PICK d : d = ends[c]["dial"]  OBVIOUS
  <1>0. /\ ServeInv /\ FramesOpen /\ p \in Peers /\ "dial" \in Ends /\ Other("dial") = "serve"
    BY InvariantImplies, GrantedArePeers DEF GrantInv, ServeInv, Ends, Other
  <1>1. /\ join[p] \in {"hello", "wait"} /\ disturbed' = disturbed /\ ReadFails(c, "dial")
    BY <1>c DEF JoinReadFails, EndJoin, Step, faultVars
  <1>2. /\ c \in Conns /\ DialAt(join[p], d) /\ FairJoin(p)
        /\ c \notin disturbed /\ c \notin elsewhere /\ stream[c] # "cut"
    BY <1>0, <1>1, <1>c, <1>d DEF GrantInv, ServeInv, UsesOK, FairInv, DialsOK, FairOK
  <1>3. NextRead(d) \in {-1, 0}
    BY <1>1, <1>2 DEF DialAt, Asking, NextRead
  <1>4. ~Arrived(c, "dial") /\ Broken(c, "dial")
    BY <1>0, <1>1, <1>2 DEF ReadFails, FramesOpen
  <1>5. Closed(c, "serve")  BY <1>0, <1>2, <1>4 DEF Broken
  <1>6. NextRead(d) + Len(wire[c]["serve"]) = 1
    BY <1>2, <1>5, <1>c, <1>d DEF FairJoin, SaidAll
  <1>7. wire[c]["serve"] = <<>>  BY <1>0, <1>4 DEF Arrived
  <1> QED  BY <1>3, <1>6, <1>7

(* A join that hears another identity than its invite names has dialled    *)
(* another node, or the identity of the invite is gone.                    *)
LEMMA WrongIdentityHasReason ==
  ASSUME GrantInv, NamesOK, NEW p \in Peers, WrongIdentity(p), ~unsettled
  PROVE  conn[p] \in elsewhere
  <1> SUFFICES ASSUME conn[p] \notin elsewhere
               PROVE  FALSE
    OBVIOUS
  <1>c. PICK c : c = conn[p]  OBVIOUS
  <1>1. /\ join[p] = "hello" /\ AwaitsHello(c) /\ ~IsPinned(c, pinned[p])
    BY <1>c DEF WrongIdentity, EndJoin, Step
  <1>2. pinned[p] = idFile /\ wire[c]["serve"] \in Seq(HellosOf(idFile))
    BY <1>1, <1>c DEF NamesOK, NamesJoin
  <1>3. /\ wire[c]["serve"] # <<>> /\ Head(wire[c]["serve"]).kind = "hello"
        /\ HelloFrom(c) = Head(wire[c]["serve"]).id
    BY <1>1 DEF AwaitsHello, Arrived, FirstFrame, HelloFrom, Other
  <1>4. Head(wire[c]["serve"]) \in HellosOf(idFile)  BY <1>2, <1>3, HeadWithin
  <1>5. HelloFrom(c) = pinned[p]  BY <1>2, <1>3, <1>4 DEF HellosOf
  <1> QED  BY <1>1, <1>5 DEF IsPinned

(* If a full copy fits a frame, a join fails only for a peer without a     *)
(* slot, or because a fault or the end of the session touched its          *)
(* connection, the address belongs to another node, or the identity of the *)
(* invite is gone (serve_stream, join).                                    *)
THEOREM JoinsFailForReasons ==
  ASSUME FitsFrame
  PROVE  ServeSpec => JoinsFailForAReason
  <1>1. GrantInv /\ TypesOK /\ NamesOK /\ FairInv /\ [ServeNext]_serveVars =>
          [\A p \in Peers : JoinEnds(p, "failed") =>
             p \notin Granted \/ conn[p] \in disturbed' \union elsewhere \/ unsettled]_serveVars
    <2> SUFFICES ASSUME GrantInv, TypesOK, NamesOK, FairInv, [ServeNext]_serveVars,
                        NEW p \in Peers, JoinEnds(p, "failed"), p \in Granted, ~unsettled
                 PROVE  conn[p] \in disturbed' \union elsewhere
      OBVIOUS
    <2>1. WrongIdentity(p) \/ Refused(p) \/ JoinReadFails(p) \/ JoinDies(p)
      BY ResultOfStep
    <2>2. CASE WrongIdentity(p)  BY <2>2, WrongIdentityHasReason
    <2>3. CASE Refused(p)
      <3>1. join[p] = "refused"  BY <2>3 DEF Refused, EndJoin, Step
      <3> QED  BY <3>1 DEF FairInv, FairOK, FairJoin
    <2>4. CASE JoinReadFails(p)  BY <2>4, UndisturbedReads
    <2>5. CASE JoinDies(p)  BY <2>5 DEF JoinDies, Fault
    <2> QED  BY <2>1, <2>2, <2>3, <2>4, <2>5
  <1> QED
    BY <1>1, GrantInvHolds, TypesHold, NamesHold, FairHolds, PTL DEF ServeSpec, JoinsFailForAReason
===============================================================================
