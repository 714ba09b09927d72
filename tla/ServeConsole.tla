------------------------------ MODULE ServeConsole ------------------------------
(***************************************************************************)
(* The command line over the network: an administrator's `whoami` and      *)
(* `serve` processes, and peers that `join`.  serve is one task that waits *)
(* for a connection or a line of its console, whichever comes, and deals   *)
(* with it to its end before it looks at the other again.  A join asks for *)
(* a full copy from whoever answers at the address of its invite and takes *)
(* it only from the identity that the invite names.                        *)
(*                                                                         *)
(* The vault is reduced to the number of changes made to it: modules Vault *)
(* and Replication say what they do.  Hosts may fall silent, streams be    *)
(* cut, processes die, and the identity file be lost.                      *)
(***************************************************************************)
EXTENDS SecureChannel, IdentityFile, FiniteSets

CONSTANTS
  Peers,        \* peers that join
  Granted,      \* those in the vault's keyring
  MaxVersion,   \* bound: changes made to the vault
  MaxFaults,    \* bound: number of faults
  FitsFrame     \* whether the container is at most MAX_FRAME_LEN long

ASSUME ConnsAssumption == Conns \subseteq Nat \ {0}
ASSUME GrantedArePeers == Granted \subseteq Peers
ASSUME ServeBounds == MaxVersion \in Nat \ {0} /\ MaxFaults \in Nat /\ FitsFrame \in BOOLEAN
ASSUME ServeProcs == Procs = {"whoami", "serve"}

VARIABLES
  invite,     \* the identity that whoami has printed last
  server,     \* where the serve process is
  serving,    \* the connection it is dealing with
  typed,      \* a line waiting at the console
  version,    \* changes made to the vault
  join,       \* join[p]: where peer p's join is
  conn,       \* conn[p]: its connection
  pinned,     \* pinned[p]: the identity that its invite names
  received,   \* received[p]: the copy it has received
  copy,       \* copy[p]: its file
  result,     \* result[p]: how its last join ended
  elsewhere,  \* connections that reach another node
  silent,     \* connections on which nothing arrives any more
  faults,
  disturbed,  \* history: connections that a fault has touched
  since       \* history: since[p]: changes made when p's join began

serverVars == <<invite, server, serving, typed, version>>
joinVars == <<join, conn, pinned, received, copy, result, since>>
faultVars == <<elsewhere, silent, faults, disturbed>>
serveVars == <<channelVars, identityVars, serverVars, joinVars, faultVars>>

None == 0           \* no connection, no copy, no invite
Torn == -1          \* a copy that was cut off
Stranger == -2      \* the identity of the other node
Copy(v) == [copy |-> v]
Refusal == [copy |-> Torn]
ChainState == [copy |-> None]

Running == server \notin {"off", "ended"}
Heard(c) == c \notin silent

(* Connections at the address, in the order in which they came.            *)
Waiting == {c \in Conns : /\ stream[c] # "none" /\ c \notin elsewhere
                          /\ ends[c]["serve"].stage = "none"}

-------------------------------------------------------------------------------
(* whoami prints the identity that it has loaded.                          *)
StartWhoami ==
  /\ loader["whoami"] = "off" /\ invite = None
  /\ LoadIdentity("whoami")
  /\ UNCHANGED <<channelVars, serverVars, joinVars, faultVars>>

PrintInvite ==
  /\ HasIdentity("whoami")
  /\ invite' = loaded["whoami"]
  /\ Unload("whoami")
  /\ UNCHANGED <<channelVars, server, serving, typed, version, joinVars, faultVars>>

(* The steps of creating the identity, in either process.                  *)
CreateIdentity(q) ==
  /\ TruncateIdentity(q) \/ WriteIdentity(q)
  /\ UNCHANGED <<channelVars, serverVars, joinVars, faultVars>>

(* serve opens the vault with it and listens.                              *)
StartServe ==
  /\ server = "off"
  /\ server' = "starting"
  /\ LoadIdentity("serve")
  /\ UNCHANGED <<channelVars, invite, serving, typed, version, joinVars, faultVars>>

Listen ==
  /\ server = "starting" /\ HasIdentity("serve")
  /\ server' = "select"
  /\ UNCHANGED <<channelVars, identityVars, invite, serving, typed, version, joinVars, faultVars>>

-------------------------------------------------------------------------------
(* The accept branch: the identity is loaded again for every connection.   *)
AcceptPeer ==
  /\ server = "select"
  /\ \E c \in Waiting : serving' = c /\ \A d \in Waiting : c <= d
  /\ server' = "accepted"
  /\ LoadIdentity("serve")
  /\ UNCHANGED <<channelVars, invite, typed, version, joinVars, faultVars>>

ServeUnchanged == UNCHANGED <<identityVars, invite, typed, version, joinVars, faultVars>>

(* After the handshake the peer has to have a slot in the keyring.         *)
AnyPeer(id) == TRUE                                                     \* mutant
IsGranted(id) == id \in Granted

AnswerPeer ==
  /\ server = "accepted" /\ HasIdentity("serve") /\ Heard(serving)
  /\ AnswerHello(serving, loaded["serve"])
  /\ server' = IF IsGranted(ends'[serving]["serve"].peer) THEN "request" ELSE "refuse"
  /\ UNCHANGED serving /\ ServeUnchanged

(* serve_stream returns, and drops the connection.                         *)
StaysWithPeer == server' = "select" /\ UNCHANGED serving                \* mutant
BackToSelect == server' = "select" /\ serving' = None

Refuse ==
  /\ server = "refuse"
  /\ SendLast(serving, "serve", Refusal, TRUE)
  /\ BackToSelect /\ ServeUnchanged

ReadRequest ==
  /\ server = "request" /\ Heard(serving)
  /\ Receive(serving, "serve")
  /\ server' = "answer"
  /\ UNCHANGED serving /\ ServeUnchanged

(* A join asks from position 0, which no journal covers: the answer is a   *)
(* full copy, if that fits a frame.                                        *)
FirstVersion == 1                                                       \* mutant
Exported == version
SendCopy ==
  /\ server = "answer"
  /\ SendLast(serving, "serve", Copy(Exported), FitsFrame)
  /\ BackToSelect /\ ServeUnchanged

(* An error is printed, and nothing more.                                  *)
PeerFails ==
  /\ server \in {"accepted", "request"} /\ HasIdentity("serve")
  /\ Heard(serving) /\ ReadFails(serving, "serve")
  /\ Close(serving, "serve")
  /\ BackToSelect /\ ServeUnchanged

-------------------------------------------------------------------------------
(* The console branch.  A command changes the vault or, if it fails or is   *)
(* one of those that only print something, does not.                       *)
TypeLine(line) ==
  /\ Running /\ typed = "none"
  /\ typed' = line
  /\ UNCHANGED <<channelVars, identityVars, invite, server, serving, version, joinVars, faultVars>>

HandleLine ==
  /\ server = "select" /\ typed = "command"
  /\ typed' = "none"
  /\ version' \in {version, version + 1} \intersect 1 .. MaxVersion
  /\ UNCHANGED <<channelVars, identityVars, invite, server, serving, joinVars, faultVars>>

(* The process ends, and with it the listener and what is connected to it. *)
OnlyServed == {serving} \ {None}                                        \* mutant
Connected == {c \in Conns : /\ stream[c] # "none" /\ c \notin elsewhere
                            /\ ~Closed(c, "serve")}
Exit(to) ==
  /\ server' = to
  /\ serving' = None
  /\ typed' = "none"
  /\ Unload("serve")
  /\ CloseAll(Connected, "serve")
  /\ disturbed' = disturbed \union Connected
  /\ UNCHANGED <<invite, version, joinVars, elsewhere, silent>>

Quit ==
  /\ server = "select" /\ typed = "quit"
  /\ Exit("ended")
  /\ UNCHANGED faults

-------------------------------------------------------------------------------
(* join: connect to the address of the invite.                             *)
Unused == {c \in Conns : stream[c] = "none"}
Dial(p) ==
  /\ join[p] = "idle" /\ invite # None
  /\ \E c \in Unused : /\ \A d \in Unused : c <= d
                        /\ Connect(c) /\ conn' = [conn EXCEPT ![p] = c]
  /\ join' = [join EXCEPT ![p] = "connected"]
  /\ pinned' = [pinned EXCEPT ![p] = invite]
  /\ result' = [result EXCEPT ![p] = "none"]
  /\ since' = [since EXCEPT ![p] = version]
  /\ UNCHANGED <<identityVars, serverVars, received, copy, silent, disturbed>>

StartJoin(p) ==
  /\ Running /\ server # "starting"
  /\ Dial(p)
  /\ UNCHANGED <<elsewhere, faults>>

Step(p, at, to) ==
  /\ join[p] = at
  /\ join' = [join EXCEPT ![p] = to]
  /\ UNCHANGED <<identityVars, serverVars, faultVars>>

JoinHello(p) ==
  /\ Step(p, "connected", "hello")
  /\ OfferHello(conn[p], p)
  /\ UNCHANGED <<conn, pinned, received, copy, result, since>>

OtherAnswers(c) ==
  /\ c \in elsewhere /\ Heard(c)
  /\ AnswerHello(c, Stranger)
  /\ UNCHANGED <<identityVars, serverVars, joinVars, faultVars>>

JoinVerify(p) ==
  /\ Step(p, "hello", "ask")
  /\ Heard(conn[p])
  /\ FinishHello(conn[p], pinned[p])
  /\ UNCHANGED <<conn, pinned, received, copy, result, since>>

JoinAsk(p) ==
  /\ Step(p, "ask", "wait")
  /\ Send(conn[p], "dial", ChainState)
  /\ UNCHANGED <<conn, pinned, received, copy, result, since>>

JoinReceive(p) ==
  /\ join[p] = "wait" /\ Heard(conn[p]) /\ Opens(conn[p], "dial")
  /\ Step(p, "wait", IF FirstFrame(conn[p], "dial").body = Refusal THEN "refused" ELSE "received")
  /\ Receive(conn[p], "dial")
  /\ received' = [received EXCEPT ![p] = FirstFrame(conn[p], "dial").body.copy]
  /\ UNCHANGED <<conn, pinned, copy, result, since>>

(* The file is written in place, and opened as a copy.                     *)
Truncate(p) ==
  /\ Step(p, "received", "truncated")
  /\ copy' = [copy EXCEPT ![p] = Torn]
  /\ UNCHANGED <<channelVars, conn, pinned, received, result, since>>

Forget(p) ==
  /\ conn' = [conn EXCEPT ![p] = None]
  /\ since' = [since EXCEPT ![p] = None]
  /\ pinned' = [pinned EXCEPT ![p] = None]
  /\ received' = [received EXCEPT ![p] = None]
EndJoin(p, at, how) ==
  /\ Step(p, at, "idle")
  /\ Close(conn[p], "dial")
  /\ result' = [result EXCEPT ![p] = how]
  /\ Forget(p)

FinishJoin(p) ==
  /\ EndJoin(p, "truncated", "joined")
  /\ copy' = [copy EXCEPT ![p] = received[p]]

(* The ways in which a join fails.                                         *)
WrongIdentity(p) ==
  /\ EndJoin(p, "hello", "failed")
  /\ Heard(conn[p])
  /\ AwaitsHello(conn[p]) /\ ~IsPinned(conn[p], pinned[p])
  /\ UNCHANGED copy
Refused(p) == EndJoin(p, "refused", "failed") /\ UNCHANGED copy
JoinReadFails(p) ==
  /\ \E at \in {"hello", "wait"} : EndJoin(p, at, "failed")
  /\ Heard(conn[p]) /\ ReadFails(conn[p], "dial")
  /\ UNCHANGED copy

JoinStep(p) ==
  \/ JoinHello(p) \/ JoinVerify(p) \/ JoinAsk(p) \/ JoinReceive(p) \/ Truncate(p)
  \/ FinishJoin(p) \/ WrongIdentity(p) \/ Refused(p) \/ JoinReadFails(p)

-------------------------------------------------------------------------------
(* Faults.                                                                 *)
Fault(touched) ==
  /\ faults < MaxFaults
  /\ faults' = faults + 1
  /\ disturbed' = disturbed \union touched

CutStream(c) ==
  /\ Fault({c}) /\ Cut(c)
  /\ UNCHANGED <<identityVars, serverVars, joinVars, elsewhere, silent>>

(* Another node listens at the address by now.                             *)
DialElsewhere(p) ==
  /\ faults < MaxFaults /\ faults' = faults + 1
  /\ Dial(p)
  /\ elsewhere' = elsewhere \union {conn'[p]}

(* A host is gone, or never says what it has connected for.                *)
FallSilent(c) ==
  /\ Fault({c}) /\ stream[c] = "open" /\ Heard(c)
  /\ silent' = silent \union {c}
  /\ UNCHANGED <<channelVars, identityVars, serverVars, joinVars, elsewhere>>

(* The process of a join dies, or the file cannot be written.              *)
JoinDies(p) ==
  /\ Fault({conn[p]})
  /\ join[p] # "idle"
  /\ join' = [join EXCEPT ![p] = "idle"]
  /\ Close(conn[p], "dial")
  /\ result' = [result EXCEPT ![p] = "failed"]
  /\ Forget(p)
  /\ UNCHANGED <<identityVars, serverVars, copy, elsewhere, silent>>

(* The serve process dies, or its identity cannot be written.              *)
ServeDies ==
  /\ Running
  /\ faults < MaxFaults /\ faults' = faults + 1
  /\ Exit("off")

WhoamiDies ==
  /\ Fault({}) /\ loader["whoami"] # "off"
  /\ Unload("whoami")
  /\ UNCHANGED <<channelVars, serverVars, joinVars, elsewhere, silent>>

IdentityLost ==
  /\ Fault({}) /\ LoseIdentity
  /\ UNCHANGED <<channelVars, serverVars, joinVars, elsewhere, silent>>

-------------------------------------------------------------------------------
ServeInit ==
  /\ ChannelInit /\ IdentityInit
  /\ invite = None /\ server = "off" /\ serving = None /\ typed = "none" /\ version = 1
  /\ join = [p \in Peers |-> "idle"]
  /\ conn = [p \in Peers |-> None]
  /\ pinned = [p \in Peers |-> None]
  /\ received = [p \in Peers |-> None]
  /\ copy = [p \in Peers |-> None]
  /\ result = [p \in Peers |-> "none"]
  /\ since = [p \in Peers |-> None]
  /\ elsewhere = {} /\ silent = {} /\ faults = 0 /\ disturbed = {}

ServerStep ==
  \/ Listen \/ AcceptPeer \/ AnswerPeer \/ Refuse \/ ReadRequest
  \/ SendCopy \/ PeerFails \/ HandleLine \/ Quit

ServeNext ==
  \/ StartWhoami \/ PrintInvite \/ StartServe \/ ServerStep
  \/ \E q \in Procs : CreateIdentity(q)
  \/ \E line \in {"command", "quit"} : TypeLine(line)
  \/ \E p \in Peers : StartJoin(p) \/ JoinStep(p) \/ JoinDies(p) \/ DialElsewhere(p)
  \/ \E c \in Conns : OtherAnswers(c) \/ CutStream(c) \/ FallSilent(c)
  \/ ServeDies \/ WhoamiDies \/ IdentityLost

(* A process goes on as long as it can, and neither branch of select! is   *)
(* passed over for ever.                                                   *)
Fairness ==
  /\ WF_serveVars(\E q \in Procs : CreateIdentity(q))
  /\ WF_serveVars(ServerStep /\ Heard(serving))
  /\ WF_serveVars(AcceptPeer) /\ WF_serveVars(HandleLine \/ Quit)
  /\ \A p \in Peers : WF_serveVars(JoinStep(p))
  /\ WF_serveVars(\E c \in Conns : OtherAnswers(c))

ServeSpec == ServeInit /\ [][ServeNext]_serveVars /\ Fairness

-------------------------------------------------------------------------------
ServeTypeOK ==
  /\ invite \in Nat /\ invite <= generated
  /\ server \in {"off", "ended", "starting", "select", "accepted", "refuse", "request", "answer"}
  /\ serving \in Conns \union {None}
  /\ (serving # None) = (server \in {"accepted", "refuse", "request", "answer"})
  /\ typed \in {"none", "command", "quit"}
  /\ version \in 1 .. MaxVersion
  /\ join \in [Peers -> {"idle", "connected", "hello", "ask", "wait", "refused", "received", "truncated"}]
  /\ copy \in [Peers -> {None, Torn} \union 1 .. MaxVersion]
  /\ result \in [Peers -> {"none", "joined", "failed"}]
  /\ elsewhere \subseteq Conns /\ silent \subseteq Conns /\ disturbed \subseteq Conns
  /\ faults \in 0 .. MaxFaults

(* Only a peer in the keyring ever has anything of the vault on its disk,  *)
(* and it has it from the node that its invite names (serve_stream, join). *)
CopiesAreGranted ==
  \A p \in Peers :
    /\ copy[p] # None => p \in Granted
    /\ join[p] \in {"ask", "wait", "received", "truncated"} => conn[p] \notin elsewhere

(* A join that succeeds leaves a whole copy, of the vault as it was when   *)
(* the join began or later.                                                *)
JoinEnds(p, how) == result[p] # how /\ result'[p] = how
CopiesAreRecent ==
  [][\A p \in Peers : JoinEnds(p, "joined") =>
       copy'[p] # Torn /\ copy'[p] >= since[p]]_serveVars

(* A join fails only for a peer without a slot, or because a fault or the  *)
(* end of the session touched the connection, the address belongs to       *)
(* another node, or the identity of the invite is gone: sending everything *)
(* is "always correct" (serve_stream, net::sync).                          *)
JoinsFailForAReason ==
  [][\A p \in Peers : JoinEnds(p, "failed") =>
       p \notin Granted \/ conn[p] \in disturbed' \union elsewhere \/ unsettled]_serveVars

(* The identity that invites name is the one that serves, as long as the   *)
(* file is not lost and was not created by two processes at a time.        *)
IdentityStable ==
  ~unsettled /\ invite # None =>
    \A q \in Procs : HasIdentity(q) => loaded[q] = invite

(* A line of the console is handled, unless the peer being served has      *)
(* fallen silent.                                                          *)
LinesAreHandled == typed # "none" ~> typed = "none" \/ serving \in silent

(* A join ends, unless its connection has fallen silent, or that of the    *)
(* peer which is served before it.                                         *)
JoinsFinish ==
  \A p \in Peers :
    join[p] # "idle" ~> join[p] = "idle" \/ conn[p] \in silent \/ serving \in silent
===============================================================================
