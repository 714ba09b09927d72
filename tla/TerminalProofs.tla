------------------------------ MODULE TerminalProofs ------------------------------
(***************************************************************************)
(* The safety of module Terminal, for any number of nodes, vaults and      *)
(* ports: no listener and no request outlives the session of its vault,    *)
(* peers get copies of the vault that they have dialled, and dialogs act   *)
(* on the vault that they were opened for.                                 *)
(*                                                                         *)
(* All three need to know when a session exists: exactly while the vault   *)
(* that it serves is open and its listener has not been told to stop.      *)
(***************************************************************************)
EXTENDS Terminal, TLAPS

Answers ==
  [kind : {"none", "refused"}] \union [kind : {"copy"}, vault : Vaults \union {NoneOpen},
                                       readers : SUBSET Nodes]
Links ==
  [state : {"dialled", "queued", "answered", "delivered", "closed"}, to : Nodes, port : Ports,
   for : Vaults \union {NoneOpen}, answer : Answers]
Dialogs ==
  [kind : {"none", "joining", "granting", "serving"}] \union
  [kind : {"revoking"}, target : Nodes]
Listeners == [state : {"gone", "listening", "stopping"}, vault : Vaults \union {NoneOpen}]

TypeInv ==
  /\ phase \in [Nodes -> {"key", "tick", "joining", "off"}]
  /\ tab \in [Nodes -> {"vaults", "network", "other"}]
  /\ screen \in [Nodes -> {"browsing", "unlocking", "files", "form"}]
  /\ vault \in [Nodes -> Vaults \union {NoneOpen}]
  /\ expired \in [Nodes -> BOOLEAN]
  /\ dialog \in [Nodes -> Dialogs]
  /\ openedFor \in [Nodes -> Vaults \union {NoneOpen}]
  /\ current \in [Nodes -> Ports \union {NoPort}]
  /\ queue \in [Nodes -> Seq(Nodes)]
  /\ bridge \in [Nodes -> [Ports -> Listeners]]
  /\ conn \in [Nodes -> Links \union {NoConn}]
  /\ granted \in [Vaults -> SUBSET Nodes]
  /\ joined \in [Nodes -> SUBSET Nodes]

(* Where a node's loop is.  A dialog, as long as it is open, keeps the     *)
(* Network tab selected, so no vault is unlocked under it.                 *)
LoopAt(n) ==
  /\ vault[n] = NoneOpen <=> screen[n] = "browsing"
  /\ vault[n] \in Vaults => Owner[vault[n]] = n
  /\ conn[n] # NoConn <=> phase[n] = "joining"
  /\ dialog[n].kind # "none" => tab[n] = "network"
  /\ dialog[n].kind \in {"granting", "revoking", "serving"} =>
       openedFor[n] # NoneOpen /\ vault[n] \in {openedFor[n], NoneOpen}
  /\ dialog[n].kind = "serving" => current[n] = NoPort
LoopOK == \A n \in Nodes : LoopAt(n)

(* A session's listener listens, for the vault that is open, and no other  *)
(* listener of the node does.                                              *)
SessionOK ==
  \A n \in Nodes :
    /\ current[n] # NoPort =>
         Open(n) /\ bridge[n][current[n]] = [state |-> "listening", vault |-> vault[n]]
    /\ \A p \in Ports : bridge[n][p].state = "listening" => current[n] = p

(* Connections are dialled to a listener that is still there, queued at a  *)
(* session of its vault, and answered with that vault.                     *)
LinkOK(m) ==
  /\ conn[m].state = "dialled" =>
       /\ bridge[conn[m].to][conn[m].port] # Gone
       /\ bridge[conn[m].to][conn[m].port].vault = conn[m].for
  /\ conn[m].state = "queued" =>
       current[conn[m].to] = conn[m].port /\ vault[conn[m].to] = conn[m].for
  /\ conn[m] # NoConn /\ conn[m].answer.kind = "copy" =>
       conn[m].answer.vault = conn[m].for /\ m \in conn[m].answer.readers
LinksOK == \A m \in Nodes : LinkOK(m)

Queued(n) == {m \in Nodes : conn[m].state = "queued" /\ conn[m].to = n}
QueuesOK == \A n \in Nodes : IsInjective(queue[n]) /\ ToSet(queue[n]) = Queued(n)

TerminalInv == TypeInv /\ LoopOK /\ SessionOK /\ LinksOK /\ QueuesOK

-------------------------------------------------------------------------------
(* Queues as sets.                                                         *)
LEMMA EmptyQueue == IsInjective(<<>>) /\ ToSet(<<>>) = {}
  BY DEF IsInjective, ToSet

LEMMA JoinQueue ==
  ASSUME NEW S, NEW q \in Seq(S), NEW m \in S, IsInjective(q), m \notin ToSet(q)
  PROVE  /\ Append(q, m) \in Seq(S)
         /\ IsInjective(Append(q, m))
         /\ ToSet(Append(q, m)) = ToSet(q) \union {m}
<1> DEFINE r == Append(q, m)
<1>1. r \in Seq(S) /\ Len(r) = Len(q) + 1 /\ Len(q) \in Nat /\ r[Len(q) + 1] = m
  OBVIOUS
<1>2. \A i \in 1 .. Len(q) : r[i] = q[i]
  OBVIOUS
<1>3. DOMAIN q = 1 .. Len(q) /\ DOMAIN r = 1 .. Len(q) + 1
  BY <1>1
<1> HIDE DEF r
<1>4. \A i \in 1 .. Len(q) : q[i] # m
  BY <1>3 DEF ToSet
<1>5. IsInjective(r)
  BY <1>1, <1>2, <1>3, <1>4 DEF IsInjective
<1>6. ToSet(r) \subseteq ToSet(q) \union {m}
  BY <1>1, <1>2, <1>3 DEF ToSet
<1>7. m \in ToSet(r)
  BY <1>1, <1>3 DEF ToSet
<1>8. ToSet(q) \subseteq ToSet(r)
  BY <1>1, <1>2, <1>3 DEF ToSet
<1> QED  BY <1>1, <1>5, <1>6, <1>7, <1>8 DEF r

LEMMA LeaveQueue ==
  ASSUME NEW S, NEW q \in Seq(S), IsInjective(q), q # <<>>
  PROVE  /\ Tail(q) \in Seq(S)
         /\ IsInjective(Tail(q))
         /\ Head(q) \in ToSet(q)
         /\ Head(q) \in S
         /\ ToSet(Tail(q)) = ToSet(q) \ {Head(q)}
<1>1. Tail(q) \in Seq(S) /\ Len(Tail(q)) = Len(q) - 1 /\ Len(q) \in Nat \ {0} /\ Head(q) = q[1]
  OBVIOUS
<1>2. \A i \in 1 .. Len(q) - 1 : Tail(q)[i] = q[i + 1]
  OBVIOUS
<1>3. DOMAIN q = 1 .. Len(q) /\ DOMAIN Tail(q) = 1 .. Len(q) - 1
  BY <1>1
<1>4. IsInjective(Tail(q))
  BY <1>1, <1>2, <1>3 DEF IsInjective
<1>5. ToSet(Tail(q)) \subseteq ToSet(q) \ {Head(q)}
  BY <1>1, <1>2, <1>3 DEF IsInjective, ToSet
<1>6. ToSet(q) \ {Head(q)} \subseteq ToSet(Tail(q))
  <2> SUFFICES ASSUME NEW i \in 1 .. Len(q), q[i] # q[1]
               PROVE  q[i] \in ToSet(Tail(q))
    BY <1>1, <1>3 DEF ToSet
  <2>1. i - 1 \in 1 .. Len(q) - 1 /\ Tail(q)[i - 1] = q[i]
    BY <1>1, <1>2
  <2> QED  BY <2>1, <1>3 DEF ToSet
<1>7. Head(q) \in S /\ Head(q) \in ToSet(q)
  BY <1>1, <1>3 DEF ToSet
<1> QED  BY <1>1, <1>4, <1>5, <1>6, <1>7

-------------------------------------------------------------------------------
(* What is on a connection.                                                *)
LEMMA LinkTypes ==
  ASSUME TypeInv, NEW m \in Nodes
  PROVE  /\ conn[m] = NoConn <=> conn[m].state = "none"
         /\ conn[m] # NoConn =>
              /\ conn[m] \in Links
              /\ conn[m].to \in Nodes /\ conn[m].port \in Ports
              /\ conn[m].state \in {"dialled", "queued", "answered", "delivered", "closed"}
  BY DEF TypeInv, Links, NoConn

LEMMA InitInv == TerminalInit => TerminalInv
<1> SUFFICES ASSUME TerminalInit PROVE TerminalInv
  OBVIOUS
<1> USE DEF TerminalInit
<1>1. TypeInv
  BY DEF TypeInv, Dialogs, NoDialog, Listeners, Gone
<1>2. LoopOK
  BY NoneAssumption DEF LoopOK, LoopAt, NoDialog
<1>3. SessionOK
  BY DEF SessionOK, Gone
<1>4. LinksOK
  BY DEF LinksOK, LinkOK, NoConn
<1>5. QueuesOK
  BY EmptyQueue DEF QueuesOK, Queued, NoConn
<1> QED  BY <1>1, <1>2, <1>3, <1>4, <1>5 DEF TerminalInv

(* Nothing changes for sessions and connections as long as open vaults     *)
(* stay open.                                                              *)
LEMMA SessionsStay ==
  ASSUME TerminalInv, UNCHANGED <<sessionVars, conn>>,
         \A n \in Nodes : Open(n) => Open(n)' /\ vault'[n] = vault[n]
  PROVE  SessionOK' /\ LinksOK' /\ QueuesOK'
<1> USE DEF TerminalInv, sessionVars
<1>1. SessionOK'
  BY DEF SessionOK
<1>2. LinksOK'
  <2> SUFFICES ASSUME NEW m \in Nodes PROVE LinkOK(m)'
    BY DEF LinksOK
  <2>1. CASE conn[m].state = "queued"
    <3>1. conn[m].to \in Nodes /\ conn[m].port \in Ports
      BY <2>1, LinkTypes DEF NoConn
    <3>2. current[conn[m].to] = conn[m].port /\ vault[conn[m].to] = conn[m].for
      BY <2>1 DEF LinksOK, LinkOK
    <3>3. Open(conn[m].to)
      BY <3>1, <3>2, NoneAssumption DEF SessionOK
    <3>4. vault'[conn[m].to] = conn[m].for
      BY <3>1, <3>2, <3>3
    <3> QED  BY <2>1, <3>2, <3>4 DEF LinksOK, LinkOK
  <2>2. CASE conn[m].state # "queued"
    BY <2>2 DEF LinksOK, LinkOK
  <2> QED  BY <2>1, <2>2
<1>3. QueuesOK'
  BY DEF QueuesOK, Queued
<1> QED  BY <1>1, <1>2, <1>3

(* The session of a node ends, and its vault is locked or stays open.      *)
LEMMA DropKeeps ==
  ASSUME TerminalInv, NEW n \in Nodes, DropSession(n),
         \A k \in Nodes \ {n} : Open(k)' = Open(k) /\ vault'[k] = vault[k]
  PROVE  /\ SessionOK' /\ LinksOK' /\ QueuesOK'
         /\ current' \in [Nodes -> Ports \union {NoPort}] /\ current'[n] = NoPort
         /\ queue' \in [Nodes -> Seq(Nodes)]
         /\ bridge' \in [Nodes -> [Ports -> Listeners]]
         /\ conn' \in [Nodes -> Links \union {NoConn}]
         /\ \A m \in Nodes : conn'[m] # NoConn <=> conn[m] # NoConn
<1> USE DEF TerminalInv
<1>1. /\ current' = [current EXCEPT ![n] = NoPort] /\ queue' = [queue EXCEPT ![n] = <<>>]
      /\ bridge' = IF current[n] = NoPort THEN bridge
                   ELSE [bridge EXCEPT ![n][current[n]].state = "stopping"]
      /\ conn' = [m \in Nodes |-> IF conn[m] # NoConn /\ conn[m].to = n /\ conn[m].state = "queued"
                                  THEN [conn[m] EXCEPT !.state = "closed"] ELSE conn[m]]
  BY DEF DropSession, CloseWhere
<1>2. /\ current' \in [Nodes -> Ports \union {NoPort}] /\ current'[n] = NoPort
      /\ queue' \in [Nodes -> Seq(Nodes)]
      /\ \A k \in Nodes \ {n} : current'[k] = current[k] /\ queue'[k] = queue[k]
  BY <1>1 DEF TypeInv
<1>3. /\ bridge' \in [Nodes -> [Ports -> Listeners]]
      /\ \A k \in Nodes \ {n} : bridge'[k] = bridge[k]
      /\ \A p \in Ports : p # current[n] => bridge'[n][p] = bridge[n][p]
      /\ current[n] # NoPort => bridge'[n][current[n]] = [bridge[n][current[n]] EXCEPT !.state = "stopping"]
  <2>1. CASE current[n] = NoPort
    BY <1>1, <2>1 DEF TypeInv
  <2>2. CASE current[n] # NoPort
    <3>1. current[n] \in Ports /\ bridge[n][current[n]] \in Listeners
      BY <2>2 DEF TypeInv
    <3>2. [bridge[n][current[n]] EXCEPT !.state = "stopping"] \in Listeners
      BY <3>1 DEF Listeners
    <3> QED  BY <1>1, <2>2, <3>1, <3>2 DEF TypeInv
  <2> QED  BY <2>1, <2>2
<1>4. ASSUME NEW m \in Nodes
      PROVE  /\ conn'[m] \in Links \union {NoConn}
             /\ conn'[m] # NoConn <=> conn[m] # NoConn
             /\ (conn[m].state = "queued" /\ conn[m].to = n) => conn'[m].state = "closed"
             /\ ~(conn[m].state = "queued" /\ conn[m].to = n) => conn'[m] = conn[m]
             /\ conn[m] # NoConn => conn'[m].for = conn[m].for /\ conn'[m].answer = conn[m].answer
  <2>1. CASE conn[m].state = "queued" /\ conn[m].to = n
    BY <1>1, <2>1, LinkTypes DEF Links, NoConn
  <2>2. CASE ~(conn[m].state = "queued" /\ conn[m].to = n)
    BY <1>1, <2>2, LinkTypes DEF TypeInv, NoConn
  <2> QED  BY <2>1, <2>2
<1>5. conn' \in [Nodes -> Links \union {NoConn}]
  BY <1>1, <1>4
<1>6. SessionOK'
  <2> SUFFICES ASSUME NEW k \in Nodes
               PROVE  /\ current'[k] # NoPort =>
                           /\ Open(k)'
                           /\ bridge'[k][current'[k]] = [state |-> "listening", vault |-> vault'[k]]
                      /\ \A p \in Ports : bridge'[k][p].state = "listening" => current'[k] = p
    BY DEF SessionOK
  <2>0. /\ current[k] # NoPort =>
             Open(k) /\ bridge[k][current[k]] = [state |-> "listening", vault |-> vault[k]]
        /\ \A p \in Ports : bridge[k][p].state = "listening" => current[k] = p
    BY DEF SessionOK
  <2>1. CASE k = n
    <3>1. ASSUME NEW p \in Ports PROVE bridge'[n][p].state # "listening"
      <4>1. CASE p = current[n]
        BY <4>1, <1>3, NoneAssumption DEF TypeInv, Listeners
      <4>2. CASE p # current[n]
        BY <4>2, <2>0, <2>1, <1>3
      <4> QED  BY <4>1, <4>2
    <3> QED  BY <2>1, <1>2, <3>1
  <2>2. CASE k # n
    BY <2>0, <2>2, <1>2, <1>3 DEF Open
  <2> QED  BY <2>1, <2>2
<1>7. LinksOK'
  <2> SUFFICES ASSUME NEW m \in Nodes PROVE LinkOK(m)'
    BY DEF LinksOK
  <2>0. LinkOK(m)
    BY DEF LinksOK
  <2>1. CASE conn[m].state = "queued" /\ conn[m].to = n
    BY <2>0, <2>1, <1>4 DEF LinkOK, NoConn
  <2>2. CASE conn[m].state = "queued" /\ conn[m].to # n
    BY <2>0, <2>2, <1>2, <1>4, LinkTypes DEF LinkOK
  <2>3. CASE conn[m].state = "dialled"
    <3> DEFINE to == conn[m].to  p == conn[m].port
    <3>1. to \in Nodes /\ p \in Ports
      BY <2>3, LinkTypes DEF NoConn
    <3>2. bridge'[to][p] # Gone /\ bridge'[to][p].vault = bridge[to][p].vault
      <4>0. bridge[to][p] \in Listeners /\ bridge[to][p] # Gone
        BY <3>1, <2>0, <2>3 DEF TypeInv, LinkOK
      <4>1. CASE to = n /\ p = current[n]
        BY <4>0, <4>1, <3>1, <1>3, NoneAssumption DEF Gone, Listeners
      <4>2. CASE to # n \/ p # current[n]
        BY <4>0, <4>2, <3>1, <1>3
      <4> QED  BY <4>1, <4>2
    <3> QED  BY <2>0, <2>3, <3>2, <1>4 DEF LinkOK
  <2>4. CASE conn[m].state \notin {"queued", "dialled"}
    BY <2>0, <2>4, <1>4 DEF LinkOK
  <2> QED  BY <2>1, <2>2, <2>3, <2>4
<1>8. QueuesOK'
  <2> SUFFICES ASSUME NEW k \in Nodes
               PROVE  IsInjective(queue'[k]) /\ ToSet(queue'[k]) = Queued(k)'
    BY DEF QueuesOK
  <2>1. CASE k = n
    <3>1. queue'[k] = <<>>
      BY <2>1, <1>1 DEF TypeInv
    <3>2. Queued(k)' = {}
      BY <2>1, <1>4 DEF Queued
    <3> QED  BY <3>1, <3>2, EmptyQueue
  <2>2. CASE k # n
    <3>1. Queued(k)' = Queued(k)
      BY <2>2, <1>4 DEF Queued
    <3> QED  BY <2>2, <1>2, <3>1 DEF QueuesOK
  <2> QED  BY <2>1, <2>2
<1> QED  BY <1>2, <1>3, <1>4, <1>5, <1>6, <1>7, <1>8

-------------------------------------------------------------------------------
(* Keys and time.                                                          *)
LEMMA DialogShown ==
  ASSUME TypeInv, NEW n \in Nodes, NEW d \in Dialogs, ShowDialog(n, d)
  PROVE  /\ dialog' \in [Nodes -> Dialogs] /\ openedFor' \in [Nodes -> Vaults \union {NoneOpen}]
         /\ dialog'[n] = d /\ openedFor'[n] = IF d = NoDialog THEN NoneOpen ELSE vault[n]
         /\ \A k \in Nodes \ {n} : dialog'[k] = dialog[k] /\ openedFor'[k] = openedFor[k]
  BY DEF TypeInv, ShowDialog

LEMMA Kinds ==
  /\ NoDialog \in Dialogs /\ NoDialog.kind = "none"
  /\ \A d \in Dialogs : d = NoDialog <=> d.kind = "none"
  BY DEF NoDialog, Dialogs

LEMMA PlainKeys ==
  ASSUME TerminalInv, NEW n \in Nodes,
         NoKey(n) \/ OtherKey(n) \/ NextTab(n) \/ Launch(n) \/ TimePasses(n)
  PROVE  TerminalInv'
<1> USE DEF TerminalInv
<1>1. /\ UNCHANGED <<screen, vault, dialogVars, sessionVars, conn, granted, joined>>
      /\ tab' = tab \/ ~BlocksTab(n)
  BY DEF NoKey, OtherKey, NextTab, Launch, TimePasses, Pressed, PressedIn, TypeInv
<1>2. TypeInv'
  <2> USE DEF TypeInv, NoKey, OtherKey, NextTab, Launch, TimePasses, Pressed, PressedIn
  <2>1. phase' \in [Nodes -> {"key", "tick", "joining", "off"}]
    OBVIOUS
  <2>2. tab' \in [Nodes -> {"vaults", "network", "other"}]
    OBVIOUS
  <2>3. expired' \in [Nodes -> BOOLEAN]
    OBVIOUS
  <2> QED  BY <1>1, <2>1, <2>2, <2>3 DEF dialogVars, sessionVars
<1>3. /\ \A k \in Nodes \ {n} : tab'[k] = tab[k]
      /\ \A k \in Nodes : phase'[k] = "joining" <=> phase[k] = "joining"
  BY DEF NoKey, OtherKey, NextTab, Launch, TimePasses, Pressed, PressedIn, TypeInv
<1>4. dialog[n].kind # "none" => tab'[n] = tab[n]
  BY <1>1, Kinds DEF BlocksTab, LoopOK, LoopAt, TypeInv
<1>5. LoopOK'
  BY <1>1, <1>3, <1>4 DEF LoopOK, LoopAt, dialogVars, sessionVars
<1>6. SessionOK' /\ LinksOK' /\ QueuesOK'
  BY <1>1, SessionsStay DEF Open
<1> QED  BY <1>2, <1>5, <1>6

LEMMA VaultsKeys ==
  ASSUME TerminalInv, NEW n \in Nodes, VaultsKey(n)
  PROVE  TerminalInv'
<1> USE DEF TerminalInv
<1>1. /\ UNCHANGED <<tab, dialogVars, sessionVars, conn, granted, joined>>
      /\ tab[n] = "vaults" /\ phase[n] = "key"
      /\ phase' = [phase EXCEPT ![n] = "tick"] /\ expired' = [expired EXCEPT ![n] = FALSE]
  BY DEF VaultsKey, PressedIn, Pressed, Shows, UnlockKey
<1>2. PICK s, v : /\ screen' = [screen EXCEPT ![n] = s] /\ vault' = [vault EXCEPT ![n] = v]
                  /\ \/ s = "unlocking" /\ v \in Vaults /\ Owner[v] = n /\ screen[n] = "browsing"
                     \/ s = "browsing" /\ v = NoneOpen /\ screen[n] = "unlocking"
                     \/ s \in {"files", "form"} /\ v = vault[n] /\ screen[n] # "browsing"
  BY DEF VaultsKey, Shows, UnlockKey
<1>3. vault[n] \in Vaults \union {NoneOpen} /\ dialog[n].kind = "none"
  BY <1>1 DEF TypeInv, LoopOK, LoopAt
<1>4. TypeInv'
  BY <1>1, <1>2, <1>3 DEF TypeInv, dialogVars, sessionVars
<1>5. LoopOK'
  BY <1>1, <1>2, <1>3, NoneAssumption DEF LoopOK, LoopAt, TypeInv, dialogVars, sessionVars
<1>6. \A k \in Nodes : Open(k) => Open(k)' /\ vault'[k] = vault[k]
  BY <1>2 DEF Open, TypeInv
<1>7. SessionOK' /\ LinksOK' /\ QueuesOK'
  BY <1>1, <1>6, SessionsStay
<1> QED  BY <1>4, <1>5, <1>7

LEMMA DialogKeys ==
  ASSUME TerminalInv, NEW n \in Nodes,
         OpenDialog(n) \/ CloseDialog(n) \/ SubmitRevoke(n) \/ (\E p \in Nodes : SubmitGrant(n, p))
  PROVE  TerminalInv'
<1> USE DEF TerminalInv
<1>1. /\ UNCHANGED <<tab, screen, vault, sessionVars, conn, joined>>
      /\ tab[n] = "network" /\ phase[n] = "key"
      /\ phase' = [phase EXCEPT ![n] = "tick"] /\ expired' = [expired EXCEPT ![n] = FALSE]
  BY DEF OpenDialog, CloseDialog, SubmitRevoke, SubmitGrant, PressedIn, Pressed
<1>2. granted' \in [Vaults -> SUBSET Nodes]
  BY DEF OpenDialog, CloseDialog, SubmitRevoke, SubmitGrant, TypeInv
<1>3. Open(n) => vault[n] \in Vaults
  BY DEF Open, LoopOK, LoopAt, TypeInv
<1>4. PICK d \in Dialogs :
        /\ ShowDialog(n, d)
        /\ d.kind \in {"granting", "revoking", "serving"} => Open(n)
        /\ d.kind = "serving" => ~Serving(n)
  <2>1. CASE OpenDialog(n)
    <3>1. \A p \in Nodes : [kind |-> "revoking", target |-> p] \in Dialogs
      BY DEF Dialogs
    <3>2. [kind |-> "joining"] \in Dialogs /\ [kind |-> "granting"] \in Dialogs
          /\ [kind |-> "serving"] \in Dialogs
      BY DEF Dialogs
    <3>3. Open(n) => granted[vault[n]] \subseteq Nodes
      BY <1>3 DEF TypeInv
    <3> QED  BY <2>1, <3>1, <3>2, <3>3 DEF OpenDialog
  <2>2. CASE ~OpenDialog(n)
    BY <2>2, Kinds DEF CloseDialog, SubmitRevoke, SubmitGrant
  <2> QED  BY <2>1, <2>2
<1>5. /\ dialog' \in [Nodes -> Dialogs] /\ openedFor' \in [Nodes -> Vaults \union {NoneOpen}]
      /\ dialog'[n] = d /\ openedFor'[n] = IF d = NoDialog THEN NoneOpen ELSE vault[n]
      /\ \A k \in Nodes \ {n} : dialog'[k] = dialog[k] /\ openedFor'[k] = openedFor[k]
  BY <1>4, DialogShown
<1>6. TypeInv'
  BY <1>1, <1>2, <1>5 DEF TypeInv, sessionVars
<1>7. LoopAt(n)'
  <2>1. d.kind = "serving" => current[n] = NoPort
    BY <1>4 DEF Serving
  <2>2. d.kind \in {"granting", "revoking", "serving"} => d # NoDialog /\ vault[n] # NoneOpen
    BY <1>3, <1>4, Kinds, NoneAssumption
  <2>3. conn[n] = NoConn /\ phase'[n] # "joining"
    BY <1>1 DEF LoopOK, LoopAt, TypeInv
  <2> QED  BY <1>1, <1>5, <2>1, <2>2, <2>3 DEF LoopOK, LoopAt, sessionVars
<1>8. ASSUME NEW k \in Nodes \ {n} PROVE LoopAt(k)'
  BY <1>1, <1>5 DEF LoopOK, LoopAt, TypeInv, sessionVars
<1>9. SessionOK' /\ LinksOK' /\ QueuesOK'
  BY <1>1, SessionsStay DEF Open
<1> QED  BY <1>6, <1>7, <1>8, <1>9 DEF LoopOK


-------------------------------------------------------------------------------
(* Sessions end, and begin.                                                *)
LEMMA LockKeeps ==
  ASSUME TerminalInv, NEW n \in Nodes, Lock(n),
         NEW next \in {"key", "tick"}, phase[n] # "joining", phase' = [phase EXCEPT ![n] = next],
         expired' \in [Nodes -> BOOLEAN],
         UNCHANGED <<tab, dialogVars, granted, joined>>
  PROVE  TerminalInv'
<1> USE DEF TerminalInv
<1>1. /\ screen' = [screen EXCEPT ![n] = "browsing"] /\ vault' = [vault EXCEPT ![n] = NoneOpen]
      /\ DropSession(n)
  BY DEF Lock
<1>2. \A k \in Nodes \ {n} : Open(k)' = Open(k) /\ vault'[k] = vault[k]
  BY <1>1 DEF Open, TypeInv
<1>3. /\ SessionOK' /\ LinksOK' /\ QueuesOK'
      /\ current' \in [Nodes -> Ports \union {NoPort}] /\ current'[n] = NoPort
      /\ queue' \in [Nodes -> Seq(Nodes)]
      /\ bridge' \in [Nodes -> [Ports -> Listeners]]
      /\ conn' \in [Nodes -> Links \union {NoConn}]
      /\ \A m \in Nodes : conn'[m] # NoConn <=> conn[m] # NoConn
  BY <1>1, <1>2, DropKeeps
<1>4. TypeInv'
  BY <1>1, <1>3 DEF TypeInv, dialogVars
<1>5. \A k \in Nodes \ {n} : current'[k] = current[k]
  BY <1>1 DEF DropSession, TypeInv
<1>6. LoopAt(n)'
  BY <1>1, <1>3, NoneAssumption DEF LoopOK, LoopAt, TypeInv, dialogVars
<1>7. ASSUME NEW k \in Nodes \ {n} PROVE LoopAt(k)'
  BY <1>1, <1>3, <1>5 DEF LoopOK, LoopAt, TypeInv, dialogVars
<1> QED  BY <1>3, <1>4, <1>6, <1>7 DEF LoopOK

LEMMA LockKeys ==
  ASSUME TerminalInv, NEW n \in Nodes, LockKey(n)
  PROVE  TerminalInv'
<1>1. /\ Lock(n) /\ phase[n] # "joining" /\ phase' = [phase EXCEPT ![n] = "tick"]
      /\ expired' \in [Nodes -> BOOLEAN] /\ UNCHANGED <<tab, dialogVars, granted, joined>>
  BY DEF LockKey, PressedIn, Pressed, TerminalInv, TypeInv
<1> QED  BY <1>1, LockKeeps

LEMMA StopKeeps ==
  ASSUME TerminalInv, NEW n \in Nodes, StopServing(n)
  PROVE  TerminalInv'
<1> USE DEF TerminalInv
<1>1. /\ DropSession(n) /\ phase[n] = "key" /\ phase' = [phase EXCEPT ![n] = "tick"]
      /\ expired' = [expired EXCEPT ![n] = FALSE]
      /\ UNCHANGED <<tab, screen, vault, dialogVars, granted, joined>>
  BY DEF StopServing, PressedIn, Pressed
<1>2. /\ SessionOK' /\ LinksOK' /\ QueuesOK'
      /\ current' \in [Nodes -> Ports \union {NoPort}] /\ current'[n] = NoPort
      /\ queue' \in [Nodes -> Seq(Nodes)]
      /\ bridge' \in [Nodes -> [Ports -> Listeners]]
      /\ conn' \in [Nodes -> Links \union {NoConn}]
      /\ \A m \in Nodes : conn'[m] # NoConn <=> conn[m] # NoConn
  BY <1>1, DropKeeps DEF Open
<1>3. TypeInv'
  BY <1>1, <1>2 DEF TypeInv, dialogVars
<1>4. \A k \in Nodes \ {n} : current'[k] = current[k]
  BY <1>1 DEF DropSession, TypeInv
<1>5. LoopOK'
  BY <1>1, <1>2, <1>4 DEF LoopOK, LoopAt, TypeInv, dialogVars
<1> QED  BY <1>2, <1>3, <1>5

LEMMA StartKeeps ==
  ASSUME TerminalInv, NEW n \in Nodes, NEW p \in Ports, StartServing(n, p)
  PROVE  TerminalInv'
<1> USE DEF TerminalInv
<1>1. /\ phase[n] = "key" /\ phase' = [phase EXCEPT ![n] = "tick"]
      /\ expired' = [expired EXCEPT ![n] = FALSE]
      /\ dialog[n].kind = "serving" /\ Open(n) /\ bridge[n][p] = Gone
      /\ bridge' = [bridge EXCEPT ![n][p] = [state |-> "listening", vault |-> vault[n]]]
      /\ current' = [current EXCEPT ![n] = p]
      /\ ShowDialog(n, NoDialog)
      /\ UNCHANGED <<tab, screen, vault, queue, conn, granted, joined>>
  BY DEF StartServing, PressedIn, Pressed
<1>2. /\ dialog' \in [Nodes -> Dialogs] /\ openedFor' \in [Nodes -> Vaults \union {NoneOpen}]
      /\ dialog'[n] = NoDialog
      /\ \A k \in Nodes \ {n} : dialog'[k] = dialog[k] /\ openedFor'[k] = openedFor[k]
  BY <1>1, DialogShown, Kinds
<1>3. /\ current' \in [Nodes -> Ports \union {NoPort}] /\ current'[n] = p
      /\ \A k \in Nodes \ {n} : current'[k] = current[k]
      /\ current[n] = NoPort
  BY <1>1 DEF TypeInv, LoopOK, LoopAt
<1>4. /\ bridge' \in [Nodes -> [Ports -> Listeners]]
      /\ bridge'[n][p] = [state |-> "listening", vault |-> vault[n]]
      /\ \A k \in Nodes, q \in Ports : (k # n \/ q # p) => bridge'[k][q] = bridge[k][q]
  <2>1. [state |-> "listening", vault |-> vault[n]] \in Listeners
    BY DEF TypeInv, Listeners
  <2> QED  BY <1>1, <2>1 DEF TypeInv
<1>5. TypeInv'
  BY <1>1, <1>2, <1>3, <1>4 DEF TypeInv
<1>6. LoopAt(n)'
  BY <1>1, <1>2, Kinds DEF LoopOK, LoopAt, TypeInv
<1>7. ASSUME NEW k \in Nodes \ {n} PROVE LoopAt(k)'
  BY <1>1, <1>2, <1>3 DEF LoopOK, LoopAt, TypeInv
<1>8. SessionOK'
  <2> SUFFICES ASSUME NEW k \in Nodes
               PROVE  /\ current'[k] # NoPort =>
                           /\ Open(k)'
                           /\ bridge'[k][current'[k]] = [state |-> "listening", vault |-> vault'[k]]
                      /\ \A q \in Ports : bridge'[k][q].state = "listening" => current'[k] = q
    BY DEF SessionOK
  <2>0. /\ current[k] # NoPort =>
             Open(k) /\ bridge[k][current[k]] = [state |-> "listening", vault |-> vault[k]]
        /\ \A q \in Ports : bridge[k][q].state = "listening" => current[k] = q
    BY DEF SessionOK
  <2>1. Open(k)' = Open(k) /\ current[k] \in Ports \union {NoPort}
    BY <1>1 DEF Open, TypeInv
  <2>2. CASE k = n
    BY <2>0, <2>1, <2>2, <1>1, <1>3, <1>4, NoneAssumption
  <2>3. CASE k # n
    BY <2>0, <2>1, <2>3, <1>1, <1>3, <1>4
  <2> QED  BY <2>2, <2>3
<1>9. LinksOK'
  <2> SUFFICES ASSUME NEW m \in Nodes PROVE LinkOK(m)'
    BY DEF LinksOK
  <2>1. LinkOK(m)
    BY DEF LinksOK
  <2>2. CASE conn[m].state = "dialled"
    <3>1. conn[m].to \in Nodes /\ conn[m].port \in Ports
      BY <2>2, LinkTypes DEF NoConn
    <3>2. conn[m].to # n \/ conn[m].port # p
      BY <2>1, <2>2, <1>1 DEF LinkOK
    <3>3. bridge'[conn[m].to][conn[m].port] = bridge[conn[m].to][conn[m].port]
      BY <3>1, <3>2, <1>4
    <3> QED  BY <2>1, <2>2, <3>3, <1>1 DEF LinkOK
  <2>3. CASE conn[m].state = "queued"
    <3>1. conn[m].to \in Nodes /\ conn[m].port \in Ports
      BY <2>3, LinkTypes DEF NoConn
    <3> QED  BY <2>1, <2>3, <3>1, <1>1, <1>3, NoneAssumption DEF LinkOK
  <2>4. CASE conn[m].state \notin {"dialled", "queued"}
    BY <2>1, <2>4, <1>1 DEF LinkOK
  <2> QED  BY <2>2, <2>3, <2>4
<1>10. QueuesOK'
  BY <1>1 DEF QueuesOK, Queued
<1> QED  BY <1>5, <1>6, <1>7, <1>8, <1>9, <1>10 DEF LoopOK


-------------------------------------------------------------------------------
(* Connections.                                                            *)
LEMMA LinkCloses ==
  ASSUME TerminalInv, NEW m \in Nodes, NEW next \in {"delivered", "closed"},
         conn[m].state \in {"dialled", "answered"},
         conn' = [conn EXCEPT ![m].state = next],
         UNCHANGED <<loopVars, dialogVars, sessionVars, granted, joined>>
  PROVE  TerminalInv'
<1> USE DEF TerminalInv, loopVars, dialogVars, sessionVars
<1>1. /\ conn' \in [Nodes -> Links \union {NoConn}]
      /\ conn[m] # NoConn /\ conn'[m] # NoConn
      /\ conn'[m].state = next
      /\ conn'[m].for = conn[m].for /\ conn'[m].answer = conn[m].answer
      /\ \A k \in Nodes \ {m} : conn'[k] = conn[k]
  <2>1. conn[m] \in Links /\ conn[m] # NoConn
    BY LinkTypes DEF NoConn
  <2>2. /\ [conn[m] EXCEPT !.state = next] \in Links
        /\ [conn[m] EXCEPT !.state = next].state = next
        /\ [conn[m] EXCEPT !.state = next].for = conn[m].for
        /\ [conn[m] EXCEPT !.state = next].answer = conn[m].answer
    BY <2>1 DEF Links
  <2>3. conn'[m] = [conn[m] EXCEPT !.state = next] /\ conn'[m] # NoConn
    BY <2>2 DEF TypeInv, NoConn
  <2> QED  BY <2>1, <2>2, <2>3 DEF TypeInv
<1>2. TypeInv'
  BY <1>1 DEF TypeInv
<1>3. LoopOK'
  BY <1>1 DEF LoopOK, LoopAt
<1>4. SessionOK'
  BY DEF SessionOK, Open
<1>5. LinksOK'
  BY <1>1 DEF LinksOK, LinkOK
<1>6. QueuesOK'
  <2>1. \A n \in Nodes : Queued(n)' = Queued(n)
    BY <1>1 DEF Queued
  <2> QED  BY <2>1 DEF QueuesOK
<1> QED  BY <1>2, <1>3, <1>4, <1>5, <1>6

LEMMA TasksKeep ==
  ASSUME TerminalInv, NEW m \in Nodes, Deliver(m) \/ Break(m)
  PROVE  TerminalInv'
  BY LinkCloses DEF Deliver, Break, TaskStep, sessionVars

LEMMA RequestKeeps ==
  ASSUME TerminalInv, NEW m \in Nodes, Request(m)
  PROVE  TerminalInv'
<1> USE DEF TerminalInv
<1> DEFINE to == conn[m].to
<1>1. /\ conn[m] \in Links /\ conn[m] # NoConn /\ to \in Nodes /\ conn[m].port \in Ports
      /\ conn[m].state = "dialled"
  BY LinkTypes DEF Request, NoConn
<1>2. CASE current[to] # conn[m].port
  BY <1>1, <1>2, LinkCloses DEF Request, TaskStep, sessionVars
<1>3. CASE current[to] = conn[m].port
  <2>1. /\ conn' = [conn EXCEPT ![m].state = "queued"]
        /\ queue' = [queue EXCEPT ![to] = Append(queue[to], m)]
        /\ UNCHANGED <<loopVars, dialogVars, current, bridge, granted, joined>>
    BY <1>3 DEF Request, TaskStep
  <2>2. /\ conn' \in [Nodes -> Links \union {NoConn}]
        /\ conn'[m] # NoConn /\ conn'[m].state = "queued" /\ conn'[m].to = to
        /\ conn'[m].port = conn[m].port
        /\ conn'[m].for = conn[m].for /\ conn'[m].answer = conn[m].answer
        /\ \A k \in Nodes \ {m} : conn'[k] = conn[k]
    <3>1. /\ [conn[m] EXCEPT !.state = "queued"] \in Links
          /\ [conn[m] EXCEPT !.state = "queued"].state = "queued"
          /\ [conn[m] EXCEPT !.state = "queued"].to = to
          /\ [conn[m] EXCEPT !.state = "queued"].port = conn[m].port
          /\ [conn[m] EXCEPT !.state = "queued"].for = conn[m].for
          /\ [conn[m] EXCEPT !.state = "queued"].answer = conn[m].answer
      BY <1>1 DEF Links
    <3>2. conn'[m] = [conn[m] EXCEPT !.state = "queued"] /\ conn'[m] # NoConn
      BY <2>1, <3>1 DEF TypeInv, NoConn
    <3> QED  BY <2>1, <3>1, <3>2 DEF TypeInv
  <2>3. /\ queue[to] \in Seq(Nodes) /\ IsInjective(queue[to]) /\ ToSet(queue[to]) = Queued(to)
        /\ m \notin Queued(to)
    BY <1>1 DEF TypeInv, QueuesOK, Queued
  <2>4. /\ Append(queue[to], m) \in Seq(Nodes)
        /\ IsInjective(Append(queue[to], m))
        /\ ToSet(Append(queue[to], m)) = Queued(to) \union {m}
    BY <2>3, JoinQueue
  <2>5. /\ queue' \in [Nodes -> Seq(Nodes)] /\ queue'[to] = Append(queue[to], m)
        /\ \A k \in Nodes \ {to} : queue'[k] = queue[k]
    BY <1>1, <2>1, <2>4 DEF TypeInv
  <2>6. TypeInv'
    BY <2>1, <2>2, <2>5 DEF TypeInv, loopVars, dialogVars
  <2>7. LoopOK'
    BY <1>1, <2>1, <2>2 DEF LoopOK, LoopAt, loopVars, dialogVars
  <2>8. SessionOK'
    BY <2>1 DEF SessionOK, Open, loopVars
  <2>9. LinksOK'
    <3>1. LinkOK(m)'
      <4>1. bridge[to][conn[m].port] = [state |-> "listening", vault |-> vault[to]]
        BY <1>1, <1>3, NoneAssumption DEF SessionOK
      <4>2. current[to] = conn[m].port /\ vault[to] = conn[m].for
        BY <1>1, <1>3, <4>1, NoneAssumption DEF LinksOK, LinkOK
      <4> QED  BY <1>1, <2>1, <2>2, <4>2 DEF LinksOK, LinkOK, loopVars
    <3>2. ASSUME NEW k \in Nodes \ {m} PROVE LinkOK(k)'
      BY <2>1, <2>2 DEF LinksOK, LinkOK, loopVars
    <3> QED  BY <3>1, <3>2 DEF LinksOK
  <2>10. QueuesOK'
    <3> SUFFICES ASSUME NEW k \in Nodes
                 PROVE  IsInjective(queue'[k]) /\ ToSet(queue'[k]) = Queued(k)'
      BY DEF QueuesOK
    <3>1. CASE k = to
      <4>1. Queued(k)' = Queued(to) \union {m}
        BY <1>1, <2>2, <3>1 DEF Queued
      <4> QED  BY <2>4, <2>5, <3>1, <4>1
    <3>2. CASE k # to
      <4>1. Queued(k)' = Queued(k)
        BY <1>1, <2>2, <3>2 DEF Queued
      <4> QED  BY <2>5, <3>2, <4>1 DEF QueuesOK
    <3> QED  BY <3>1, <3>2
  <2> QED  BY <2>6, <2>7, <2>8, <2>9, <2>10
<1> QED  BY <1>2, <1>3


LEMMA PollKeeps ==
  ASSUME TerminalInv, NEW n \in Nodes, PollNetwork(n), Polls(n),
         phase[n] = "tick", phase' = [phase EXCEPT ![n] = "key"],
         UNCHANGED <<tab, expired, dialogVars, granted, joined>>
  PROVE  TerminalInv'
<1> USE DEF TerminalInv
<1> DEFINE v == vault[n]
<1>1. /\ queue[n] \in Seq(Nodes) /\ IsInjective(queue[n]) /\ ToSet(queue[n]) = Queued(n)
      /\ queue[n] # <<>> /\ Open(n) /\ v \in Vaults
  BY DEF Polls, Serving, Open, TypeInv, QueuesOK, LoopOK, LoopAt
<1>2. PICK m \in Nodes : /\ m = Head(queue[n])
                         /\ m \in Queued(n) /\ Tail(queue[n]) \in Seq(Nodes)
                         /\ IsInjective(Tail(queue[n]))
                         /\ ToSet(Tail(queue[n])) = Queued(n) \ {m}
  BY <1>1, LeaveQueue
<1>3. /\ queue' = [queue EXCEPT ![n] = Tail(queue[n])]
      /\ conn' = [conn EXCEPT ![m] = [[conn[m] EXCEPT !.state = "answered"]
                                        EXCEPT !.answer = AnswerFor(v, m)]]
      /\ UNCHANGED <<screen, vault, current, bridge>>
  <2>1. /\ conn' = [conn EXCEPT ![m].state = "answered", ![m].answer = AnswerFor(v, m)]
        /\ queue' = [queue EXCEPT ![n] = Tail(queue[n])]
        /\ UNCHANGED <<screen, vault, current, bridge>>
    BY <1>2 DEF PollNetwork
  <2> QED  BY <2>1 DEF TypeInv
<1>4. /\ conn[m] \in Links /\ conn[m] # NoConn /\ conn[m].state = "queued" /\ conn[m].to = n
      /\ conn[m].for = v
  BY <1>2, LinkTypes DEF Queued, NoConn, LinksOK, LinkOK
<1>5. /\ AnswerFor(v, m) \in Answers
      /\ AnswerFor(v, m).kind = "copy" =>
           AnswerFor(v, m).vault = v /\ m \in AnswerFor(v, m).readers
  BY <1>1 DEF AnswerFor, Answers, TypeInv
<1>6. /\ conn' \in [Nodes -> Links \union {NoConn}]
      /\ conn'[m] # NoConn /\ conn'[m].state = "answered" /\ conn'[m].for = v
      /\ conn'[m].answer = AnswerFor(v, m)
      /\ \A k \in Nodes \ {m} : conn'[k] = conn[k]
  <2> DEFINE c == [[conn[m] EXCEPT !.state = "answered"] EXCEPT !.answer = AnswerFor(v, m)]
  <2>1. /\ c \in Links /\ c.state = "answered" /\ c.for = v /\ c.answer = AnswerFor(v, m)
    BY <1>4, <1>5 DEF Links
  <2>2. conn'[m] = c /\ c # NoConn
    BY <1>3, <2>1 DEF TypeInv, NoConn
  <2> HIDE DEF c
  <2> QED  BY <1>3, <2>1, <2>2 DEF TypeInv
<1>7. TypeInv'
  BY <1>2, <1>3, <1>6 DEF TypeInv, dialogVars
<1>8. LoopOK'
  BY <1>3, <1>4, <1>6 DEF LoopOK, LoopAt, TypeInv, dialogVars
<1>9. SessionOK'
  BY <1>3 DEF SessionOK, Open
<1>10. LinksOK'
  <2>1. LinkOK(m)'
    BY <1>5, <1>6 DEF LinkOK
  <2>2. ASSUME NEW k \in Nodes \ {m} PROVE LinkOK(k)'
    BY <1>3, <1>6 DEF LinksOK, LinkOK
  <2> QED  BY <2>1, <2>2 DEF LinksOK
<1>11. QueuesOK'
  <2> SUFFICES ASSUME NEW k \in Nodes
               PROVE  IsInjective(queue'[k]) /\ ToSet(queue'[k]) = Queued(k)'
    BY DEF QueuesOK
  <2>1. CASE k = n
    <3>1. Queued(k)' = Queued(n) \ {m}
      BY <1>6, <2>1 DEF Queued
    <3> QED  BY <1>2, <1>3, <2>1, <3>1 DEF TypeInv
  <2>2. CASE k # n
    <3>1. Queued(k)' = Queued(k)
      BY <1>4, <1>6, <2>2 DEF Queued
    <3> QED  BY <1>3, <2>2, <3>1 DEF QueuesOK, TypeInv
  <2> QED  BY <2>1, <2>2
<1> QED  BY <1>7, <1>8, <1>9, <1>10, <1>11

LEMMA TickKeeps ==
  ASSUME TerminalInv, NEW n \in Nodes, Tick(n)
  PROVE  TerminalInv'
<1> USE DEF TerminalInv
<1>1. /\ phase[n] = "tick" /\ phase' = [phase EXCEPT ![n] = "key"]
      /\ UNCHANGED <<tab, expired, dialogVars, granted, joined>>
      /\ expired' \in [Nodes -> BOOLEAN]
  BY DEF Tick, TypeInv
<1>2. CASE TimesOut(n)
  BY <1>1, <1>2, LockKeeps DEF Tick
<1>3. CASE ~TimesOut(n) /\ Polls(n)
  BY <1>1, <1>3, PollKeeps DEF Tick
<1>4. CASE ~TimesOut(n) /\ ~Polls(n)
  <2>1. UNCHANGED <<screen, vault, sessionVars, conn>>
    BY <1>4 DEF Tick
  <2>2. TypeInv' /\ LoopOK'
    BY <1>1, <2>1 DEF TypeInv, LoopOK, LoopAt, sessionVars, dialogVars
  <2>3. SessionOK' /\ LinksOK' /\ QueuesOK'
    BY <2>1, SessionsStay DEF Open
  <2> QED  BY <2>2, <2>3
<1> QED  BY <1>2, <1>3, <1>4


LEMMA JoinBegins ==
  ASSUME TerminalInv, NEW n \in Nodes, NEW to \in Nodes, NEW p \in Ports, SubmitJoin(n, to, p)
  PROVE  TerminalInv'
<1> USE DEF TerminalInv
<1> DEFINE c == [state |-> "dialled", to |-> to, port |-> p, for |-> bridge[to][p].vault,
                 answer |-> [kind |-> "none"]]
<1>1. /\ phase[n] = "key" /\ phase' = [phase EXCEPT ![n] = "joining"]
      /\ expired' = [expired EXCEPT ![n] = FALSE]
      /\ bridge[to][p] # Gone
      /\ conn' = [conn EXCEPT ![n] = c]
      /\ UNCHANGED <<tab, screen, vault, dialogVars, sessionVars, granted, joined>>
  BY DEF SubmitJoin
<1>2. c \in Links /\ c # NoConn
  <2>1. [kind |-> "none"] \in Answers
    BY DEF Answers
  <2>2. bridge[to][p].vault \in Vaults \union {NoneOpen}
    BY DEF TypeInv, Listeners
  <2> QED  BY <2>1, <2>2 DEF Links, NoConn
<1>3. /\ conn'[n] = c /\ conn' \in [Nodes -> Links \union {NoConn}]
      /\ \A k \in Nodes \ {n} : conn'[k] = conn[k]
      /\ conn[n] = NoConn
  BY <1>1, <1>2 DEF TypeInv, LoopOK, LoopAt
<1>4. TypeInv'
  BY <1>1, <1>3 DEF TypeInv, dialogVars, sessionVars
<1>5. LoopOK'
  BY <1>1, <1>2, <1>3 DEF LoopOK, LoopAt, TypeInv, dialogVars, sessionVars
<1>6. SessionOK'
  BY <1>1 DEF SessionOK, Open, sessionVars
<1>7. LinksOK'
  <2>1. LinkOK(n)'
    BY <1>1, <1>3 DEF LinkOK, sessionVars
  <2>2. ASSUME NEW k \in Nodes \ {n} PROVE LinkOK(k)'
    BY <1>1, <1>3 DEF LinksOK, LinkOK, sessionVars
  <2> QED  BY <2>1, <2>2 DEF LinksOK
<1>8. QueuesOK'
  <2>1. \A k \in Nodes : Queued(k)' = Queued(k)
    BY <1>3 DEF Queued, NoConn
  <2> QED  BY <1>1, <2>1 DEF QueuesOK, sessionVars
<1> QED  BY <1>4, <1>5, <1>6, <1>7, <1>8

LEMMA JoinEnds ==
  ASSUME TerminalInv, NEW n \in Nodes, EndJoin(n)
  PROVE  TerminalInv'
<1> USE DEF TerminalInv
<1>1. /\ phase[n] = "joining" /\ phase' = [phase EXCEPT ![n] = "tick"]
      /\ conn[n].state \in {"delivered", "closed"}
      /\ conn' = [conn EXCEPT ![n] = NoConn]
      /\ UNCHANGED <<tab, screen, vault, expired, sessionVars, granted>>
      /\ ShowDialog(n, NoDialog) \/ UNCHANGED dialogVars
  BY DEF EndJoin
<1>2. conn[n] # NoConn /\ conn[n].to \in Nodes
  BY <1>1, LinkTypes DEF NoConn
<1>3. joined' \in [Nodes -> SUBSET Nodes]
  <2>1. joined' = joined \/ joined' = [joined EXCEPT ![n] = joined[n] \union {conn[n].to}]
    BY DEF EndJoin
  <2>2. joined \in [Nodes -> SUBSET Nodes] /\ joined[n] \union {conn[n].to} \in SUBSET Nodes
    BY <1>2 DEF TypeInv
  <2> QED  BY <2>1, <2>2
<1>4. /\ conn'[n] = NoConn /\ conn' \in [Nodes -> Links \union {NoConn}]
      /\ \A k \in Nodes \ {n} : conn'[k] = conn[k]
  BY <1>1 DEF TypeInv
<1>5. /\ dialog' \in [Nodes -> Dialogs] /\ openedFor' \in [Nodes -> Vaults \union {NoneOpen}]
      /\ dialog'[n] = NoDialog \/ (dialog'[n] = dialog[n] /\ openedFor'[n] = openedFor[n])
      /\ \A k \in Nodes \ {n} : dialog'[k] = dialog[k] /\ openedFor'[k] = openedFor[k]
  <2>1. CASE ShowDialog(n, NoDialog)
    BY <2>1, DialogShown, Kinds
  <2>2. CASE UNCHANGED dialogVars
    BY <2>2 DEF dialogVars, TypeInv
  <2> QED  BY <1>1, <2>1, <2>2
<1>6. TypeInv'
  BY <1>1, <1>3, <1>4, <1>5 DEF TypeInv, sessionVars
<1>7. LoopAt(n)'
  BY <1>1, <1>4, <1>5, Kinds DEF LoopOK, LoopAt, TypeInv, sessionVars
<1>8. ASSUME NEW k \in Nodes \ {n} PROVE LoopAt(k)'
  BY <1>1, <1>4, <1>5 DEF LoopOK, LoopAt, TypeInv, sessionVars
<1>9. SessionOK'
  BY <1>1 DEF SessionOK, Open, sessionVars
<1>10. LinksOK'
  <2>1. LinkOK(n)'
    BY <1>4 DEF LinkOK, NoConn
  <2>2. ASSUME NEW k \in Nodes \ {n} PROVE LinkOK(k)'
    BY <1>1, <1>4 DEF LinksOK, LinkOK, sessionVars
  <2> QED  BY <2>1, <2>2 DEF LinksOK
<1>11. QueuesOK'
  <2>1. \A k \in Nodes : Queued(k)' = Queued(k)
    BY <1>1, <1>4 DEF Queued, NoConn
  <2> QED  BY <1>1, <2>1 DEF QueuesOK, sessionVars
<1> QED  BY <1>6, <1>7, <1>8, <1>9, <1>10, <1>11 DEF LoopOK

(* Some connections are closed, none of them delivered.                    *)
LEMMA LinksClose ==
  ASSUME TypeInv, NEW L \in SUBSET Nodes, \A m \in L : conn[m] # NoConn,
         conn' = [m \in Nodes |-> IF m \in L THEN [conn[m] EXCEPT !.state = "closed"] ELSE conn[m]]
  PROVE  /\ conn' \in [Nodes -> Links \union {NoConn}]
         /\ \A m \in Nodes : conn'[m] # NoConn <=> conn[m] # NoConn
         /\ \A m \in Nodes \ L : conn'[m] = conn[m]
         /\ \A m \in L : /\ conn'[m].state = "closed"
                         /\ conn'[m].for = conn[m].for /\ conn'[m].answer = conn[m].answer
<1>1. ASSUME NEW m \in L
      PROVE  /\ conn'[m] \in Links /\ conn'[m] # NoConn
             /\ conn'[m].state = "closed"
             /\ conn'[m].for = conn[m].for /\ conn'[m].answer = conn[m].answer
  BY LinkTypes DEF Links, NoConn
<1>2. \A m \in Nodes \ L : conn'[m] = conn[m] /\ conn[m] \in Links \union {NoConn}
  BY DEF TypeInv
<1>3. conn' \in [Nodes -> Links \union {NoConn}]
  BY <1>1, <1>2
<1> QED  BY <1>1, <1>2, <1>3

LEMMA StoppedKeeps ==
  ASSUME TerminalInv, NEW n \in Nodes, NEW p \in Ports, ListenerStops(n, p)
  PROVE  TerminalInv'
<1> USE DEF TerminalInv
<1> DEFINE L == {m \in Nodes : /\ conn[m] # NoConn /\ conn[m].to = n /\ conn[m].port = p
                               /\ conn[m].state # "delivered"}
<1>1. /\ bridge[n][p].state = "stopping"
      /\ bridge' = [bridge EXCEPT ![n][p] = Gone]
      /\ conn' = [m \in Nodes |-> IF m \in L THEN [conn[m] EXCEPT !.state = "closed"] ELSE conn[m]]
      /\ UNCHANGED <<loopVars, dialogVars, current, queue, granted, joined>>
  BY DEF ListenerStops, CloseWhere
<1>2. ASSUME NEW m \in L PROVE conn[m].state # "queued" /\ conn[m] # NoConn
  <2>1. current[n] # p
    <3>1. current[n] = p => bridge[n][p] = [state |-> "listening", vault |-> vault[n]]
      BY NoneAssumption DEF SessionOK
    <3> QED  BY <1>1, <3>1
  <2>2. conn[m].state = "queued" => current[n] = p
    BY DEF LinksOK, LinkOK
  <2> QED  BY <2>1, <2>2
<1>3. /\ conn' \in [Nodes -> Links \union {NoConn}]
      /\ \A m \in Nodes : conn'[m] # NoConn <=> conn[m] # NoConn
      /\ \A m \in Nodes \ L : conn'[m] = conn[m]
      /\ \A m \in L : /\ conn'[m].state = "closed"
                      /\ conn'[m].for = conn[m].for /\ conn'[m].answer = conn[m].answer
  <2> HIDE DEF L
  <2>1. L \in SUBSET Nodes
    BY DEF L
  <2> QED  BY <1>1, <1>2, <2>1, LinksClose
<1>4. /\ bridge' \in [Nodes -> [Ports -> Listeners]]
      /\ bridge'[n][p] = Gone
      /\ \A k \in Nodes, q \in Ports : (k # n \/ q # p) => bridge'[k][q] = bridge[k][q]
  <2>1. Gone \in Listeners
    BY DEF Gone, Listeners
  <2> QED  BY <1>1, <2>1 DEF TypeInv
<1>5. TypeInv'
  BY <1>1, <1>3, <1>4 DEF TypeInv, loopVars, dialogVars
<1>6. LoopOK'
  BY <1>1, <1>3 DEF LoopOK, LoopAt, loopVars, dialogVars
<1>7. SessionOK'
  <2> SUFFICES ASSUME NEW k \in Nodes
               PROVE  /\ current[k] # NoPort =>
                           /\ Open(k)
                           /\ bridge'[k][current[k]] = [state |-> "listening", vault |-> vault[k]]
                      /\ \A q \in Ports : bridge'[k][q].state = "listening" => current[k] = q
    BY <1>1 DEF SessionOK, Open, loopVars
  <2>0. /\ current[k] # NoPort =>
             Open(k) /\ bridge[k][current[k]] = [state |-> "listening", vault |-> vault[k]]
        /\ \A q \in Ports : bridge[k][q].state = "listening" => current[k] = q
    BY DEF SessionOK
  <2>1. current[k] \in Ports \union {NoPort}
    BY DEF TypeInv
  <2> QED  BY <2>0, <2>1, <1>1, <1>4 DEF Gone
<1>8. LinksOK'
  <2> SUFFICES ASSUME NEW m \in Nodes PROVE LinkOK(m)'
    BY DEF LinksOK
  <2>0. LinkOK(m)
    BY DEF LinksOK
  <2>1. CASE m \in L
    BY <2>0, <2>1, <1>2, <1>3 DEF LinkOK
  <2>2. CASE m \notin L /\ conn[m].state = "dialled"
    <3>1. conn[m].to \in Nodes /\ conn[m].port \in Ports /\ conn[m] # NoConn
      BY <2>2, LinkTypes DEF NoConn
    <3>2. conn[m].to # n \/ conn[m].port # p
      BY <2>2, <3>1
    <3> QED  BY <2>0, <2>2, <3>1, <3>2, <1>3, <1>4 DEF LinkOK
  <2>3. CASE m \notin L /\ conn[m].state # "dialled"
    BY <2>0, <2>3, <1>1, <1>3 DEF LinkOK, loopVars
  <2> QED  BY <2>1, <2>2, <2>3
<1>9. QueuesOK'
  <2>1. \A k \in Nodes : Queued(k)' = Queued(k)
    BY <1>2, <1>3 DEF Queued
  <2> QED  BY <1>1, <2>1 DEF QueuesOK
<1> QED  BY <1>5, <1>6, <1>7, <1>8, <1>9


LEMMA QuitKeeps ==
  ASSUME TerminalInv, NEW n \in Nodes, Quit(n)
  PROVE  TerminalInv'
<1> USE DEF TerminalInv
<1> DEFINE L == {m \in Nodes : conn[m] # NoConn /\ conn[m].to = n /\ conn[m].state # "delivered"}
<1>1. /\ phase[n] = "key" /\ ~InterceptsQuit(n)
      /\ phase' = [phase EXCEPT ![n] = "off"] /\ tab' = [tab EXCEPT ![n] = "vaults"]
      /\ screen' = [screen EXCEPT ![n] = "browsing"] /\ vault' = [vault EXCEPT ![n] = NoneOpen]
      /\ expired' = [expired EXCEPT ![n] = FALSE] /\ current' = [current EXCEPT ![n] = NoPort]
      /\ queue' = [queue EXCEPT ![n] = <<>>]
      /\ bridge' = [bridge EXCEPT ![n] = [p \in Ports |-> Gone]]
      /\ conn' = [m \in Nodes |-> IF m \in L THEN [conn[m] EXCEPT !.state = "closed"] ELSE conn[m]]
      /\ UNCHANGED <<dialogVars, granted, joined>>
  BY DEF Quit, CloseWhere
<1>2. /\ conn' \in [Nodes -> Links \union {NoConn}]
      /\ \A m \in Nodes : conn'[m] # NoConn <=> conn[m] # NoConn
      /\ \A m \in Nodes \ L : conn'[m] = conn[m]
      /\ \A m \in L : /\ conn'[m].state = "closed"
                      /\ conn'[m].for = conn[m].for /\ conn'[m].answer = conn[m].answer
  <2>1. L \in SUBSET Nodes /\ \A m \in L : conn[m] # NoConn
    OBVIOUS
  <2> HIDE DEF L
  <2> QED  BY <1>1, <2>1, LinksClose
<1>3. /\ current'[n] = NoPort /\ vault'[n] = NoneOpen /\ screen'[n] = "browsing"
      /\ tab'[n] = "vaults" /\ phase'[n] = "off" /\ queue'[n] = <<>>
      /\ \A p \in Ports : bridge'[n][p] = Gone
      /\ \A k \in Nodes \ {n} :
           /\ current'[k] = current[k] /\ vault'[k] = vault[k] /\ screen'[k] = screen[k]
           /\ tab'[k] = tab[k] /\ phase'[k] = phase[k] /\ queue'[k] = queue[k]
           /\ bridge'[k] = bridge[k]
  BY <1>1 DEF TypeInv
<1>4. dialog[n].kind = "none"
  BY <1>1, Kinds DEF InterceptsQuit, LoopOK, LoopAt, TypeInv
<1>5. TypeInv'
  <2>1. [p \in Ports |-> Gone] \in [Ports -> Listeners]
    BY DEF Gone, Listeners
  <2> QED  BY <1>1, <1>2, <2>1 DEF TypeInv, dialogVars
<1>6. LoopAt(n)'
  BY <1>1, <1>2, <1>3, <1>4, NoneAssumption DEF LoopOK, LoopAt, dialogVars
<1>7. ASSUME NEW k \in Nodes \ {n} PROVE LoopAt(k)'
  BY <1>1, <1>2, <1>3 DEF LoopOK, LoopAt, dialogVars
<1>8. SessionOK'
  BY <1>3 DEF SessionOK, Open, Gone
<1>9. LinksOK'
  <2> SUFFICES ASSUME NEW m \in Nodes PROVE LinkOK(m)'
    BY DEF LinksOK
  <2>0. LinkOK(m)
    BY DEF LinksOK
  <2>1. CASE m \in L
    BY <2>0, <2>1, <1>2 DEF LinkOK
  <2>2. CASE m \notin L /\ conn[m].state \in {"dialled", "queued"}
    <3>1. conn[m].to \in Nodes \ {n} /\ conn[m].port \in Ports
      BY <2>2, LinkTypes DEF NoConn
    <3> QED  BY <2>0, <2>2, <3>1, <1>2, <1>3 DEF LinkOK
  <2>3. CASE m \notin L /\ conn[m].state \notin {"dialled", "queued"}
    BY <2>0, <2>3, <1>2 DEF LinkOK
  <2> QED  BY <2>1, <2>2, <2>3
<1>10. QueuesOK'
  <2> SUFFICES ASSUME NEW k \in Nodes
               PROVE  IsInjective(queue'[k]) /\ ToSet(queue'[k]) = Queued(k)'
    BY DEF QueuesOK
  <2>1. CASE k = n
    <3>1. Queued(k)' = {}
      BY <2>1, <1>2, LinkTypes DEF Queued, NoConn
    <3> QED  BY <2>1, <3>1, <1>3, EmptyQueue
  <2>2. CASE k # n
    <3>1. Queued(k)' = Queued(k)
      BY <2>2, <1>2 DEF Queued
    <3> QED  BY <2>2, <3>1, <1>3 DEF QueuesOK
  <2> QED  BY <2>1, <2>2
<1> QED  BY <1>5, <1>6, <1>7, <1>8, <1>9, <1>10 DEF LoopOK

-------------------------------------------------------------------------------
LEMMA NextInv == TerminalInv /\ [TerminalNext]_terminalVars => TerminalInv'
<1> SUFFICES ASSUME TerminalInv, [TerminalNext]_terminalVars PROVE TerminalInv'
  OBVIOUS
<1>1. CASE UNCHANGED terminalVars
  BY <1>1 DEF terminalVars, loopVars, dialogVars, sessionVars, TerminalInv, TypeInv, LoopOK, LoopAt,
              SessionOK, Open, LinksOK, LinkOK, QueuesOK, Queued
<1>2. ASSUME NEW n \in Nodes, Key(n) PROVE TerminalInv'
  <2>1. CASE NoKey(n) \/ OtherKey(n) \/ NextTab(n)
    BY <2>1, PlainKeys
  <2>2. CASE VaultsKey(n) \/ LockKey(n) \/ StopServing(n)
    BY <2>2, VaultsKeys, LockKeys, StopKeeps
  <2>3. CASE \/ OpenDialog(n) \/ CloseDialog(n) \/ SubmitRevoke(n)
             \/ \E p \in Nodes \ {n} : SubmitGrant(n, p)
    BY <2>3, DialogKeys
  <2>4. CASE \E p \in Ports : StartServing(n, p)
    BY <2>4, StartKeeps
  <2>5. CASE \E to \in Nodes, p \in Ports : SubmitJoin(n, to, p)
    BY <2>5, JoinBegins
  <2> QED  BY <1>2, <2>1, <2>2, <2>3, <2>4, <2>5 DEF Key
<1>3. ASSUME NEW n \in Nodes, Tick(n) \/ EndJoin(n) PROVE TerminalInv'
  BY <1>3, TickKeeps, JoinEnds
<1>4. ASSUME NEW n \in Nodes, Quit(n) \/ Launch(n) \/ TimePasses(n) PROVE TerminalInv'
  BY <1>4, QuitKeeps, PlainKeys
<1>5. ASSUME NEW n \in Nodes, Task(n) \/ Break(n) PROVE TerminalInv'
  BY <1>5, RequestKeeps, TasksKeep DEF Task
<1>6. ASSUME NEW n \in Nodes, NEW p \in Ports, ListenerStops(n, p) PROVE TerminalInv'
  BY <1>6, StoppedKeeps
<1> QED  BY <1>1, <1>2, <1>3, <1>4, <1>5, <1>6 DEF TerminalNext, Loop

LEMMA TerminalInvHolds == TerminalSpec => []TerminalInv
  BY InitInv, NextInv, PTL DEF TerminalSpec

(* The variables of the interface have their types, and a node joins       *)
(* exactly while it has a connection (run_loop, try_join).                 *)
THEOREM TerminalTypesHold == TerminalSpec => []TerminalTypeOK
<1>1. TerminalInv => TerminalTypeOK
  BY DEF TerminalInv, TypeInv, LoopOK, LoopAt, TerminalTypeOK, Listeners, Dialogs
<1> QED  BY <1>1, TerminalInvHolds, PTL

(* Whichever way a vault is locked, its listener is told to stop and its   *)
(* queue is empty: nothing is accepted for a vault that is not open        *)
(* (NetworkSession, dropped with the UnlockedState).                       *)
THEOREM LockAlwaysEndsServing == TerminalSpec => []LockEndsServing
<1>1. TerminalInv => LockEndsServing
  <2> SUFFICES ASSUME TerminalInv PROVE LockEndsServing
    OBVIOUS
  <2>1. ASSUME NEW n \in Nodes, NEW p \in Ports, bridge[n][p].state = "listening"
        PROVE  current[n] = p /\ Open(n) /\ vault[n] = bridge[n][p].vault
    <3>1. current[n] = p /\ p # NoPort
      BY <2>1, NoneAssumption DEF TerminalInv, SessionOK
    <3>2. Open(n) /\ bridge[n][p] = [state |-> "listening", vault |-> vault[n]]
      BY <3>1 DEF TerminalInv, SessionOK
    <3> QED  BY <3>1, <3>2
  <2>2. \A m, n \in Nodes :
          (conn[m].state = "queued" /\ conn[m].to = n) <=> m \in ToSet(queue[n])
    BY DEF TerminalInv, QueuesOK, Queued
  <2>3. \A n \in Nodes : IsInjective(queue[n])
    BY DEF TerminalInv, QueuesOK
  <2> QED  BY <2>1, <2>2, <2>3 DEF LockEndsServing
<1> QED  BY <1>1, TerminalInvHolds, PTL

(* A peer gets a copy of the vault whose listener it dialled, with itself  *)
(* among the readers (poll_network).                                       *)
THEOREM CopiesAreAlwaysOfTheServedVault == TerminalSpec => []CopiesAreOfTheServedVault
<1>1. TerminalInv => CopiesAreOfTheServedVault
  BY DEF TerminalInv, LinksOK, LinkOK, CopiesAreOfTheServedVault
<1> QED  BY <1>1, TerminalInvHolds, PTL


(* What a step grants, revokes or serves.                                  *)
LEMMA StepsActOnTheirVault ==
  TerminalInv /\ [TerminalNext]_terminalVars =>
    [\A n \in Nodes : \A v \in Vaults :
       (Owner[v] = n /\
          \/ granted'[v] # granted[v]
          \/ \E p \in Ports : bridge[n][p] = Gone /\ bridge'[n][p].vault = v)
       => openedFor[n] = v]_terminalVars
<1> DEFINE Acts(n, v) ==
      \/ granted'[v] # granted[v]
      \/ \E p \in Ports : bridge[n][p] = Gone /\ bridge'[n][p].vault = v
<1>1. ASSUME TerminalInv, [TerminalNext]_terminalVars,
             NEW n \in Nodes, NEW v \in Vaults, Owner[v] = n, Acts(n, v)
      PROVE  openedFor[n] = v
  <2>0. TypeInv /\ LoopOK /\ SessionOK
    BY <1>1 DEF TerminalInv
  <2>1. ASSUME UNCHANGED granted, \A p \in Ports : bridge[n][p] = Gone => bridge'[n][p] = Gone
        PROVE  FALSE
    BY <1>1, <2>1, NoneAssumption DEF Gone
  <2>2. ASSUME UNCHANGED <<granted, bridge>> PROVE FALSE
    BY <2>1, <2>2
  <2>3. ASSUME NEW k \in Nodes, DropSession(k), UNCHANGED granted PROVE FALSE
    <3>1. bridge' = IF current[k] = NoPort THEN bridge
                    ELSE [bridge EXCEPT ![k][current[k]].state = "stopping"]
      BY <2>3 DEF DropSession
    <3>2. \A p \in Ports : bridge[n][p] = Gone => bridge'[n][p] = Gone
      <4> SUFFICES ASSUME NEW p \in Ports, bridge[n][p] = Gone PROVE bridge'[n][p] = bridge[n][p]
        OBVIOUS
      <4>1. CASE current[k] = NoPort
        BY <3>1, <4>1
      <4>2. CASE current[k] # NoPort
        <5>1. k # n \/ p # current[k]
          <6>1. Open(k) /\ bridge[k][current[k]] = [state |-> "listening", vault |-> vault[k]]
            BY <2>0, <4>2 DEF SessionOK
          <6>2. bridge[k][current[k]].state = "listening"
            BY <6>1
          <6>3. bridge[n][p].state = "gone"
            BY DEF Gone
          <6> QED  BY <6>2, <6>3
        <5>2. current[k] \in Ports
          BY <2>0, <4>2 DEF TypeInv
        <5> QED  BY <2>0, <3>1, <4>2, <5>1, <5>2 DEF TypeInv
      <4> QED  BY <4>1, <4>2
    <3> QED  BY <2>1, <2>3, <3>2
  <2>4. CASE \E k \in Nodes :
               \/ NoKey(k) \/ OtherKey(k) \/ NextTab(k) \/ VaultsKey(k) \/ OpenDialog(k)
               \/ CloseDialog(k) \/ EndJoin(k) \/ Launch(k) \/ TimePasses(k)
               \/ Task(k) \/ Break(k) \/ \E to \in Nodes, p \in Ports : SubmitJoin(k, to, p)
    BY <2>2, <2>4 DEF NoKey, OtherKey, NextTab, VaultsKey, Shows, UnlockKey, OpenDialog, CloseDialog,
                      EndJoin, Launch, TimePasses, Task, Request, Deliver, Break, TaskStep,
                      SubmitJoin, sessionVars
  <2>5. CASE \E k \in Nodes : LockKey(k) \/ StopServing(k) \/ Tick(k)
    BY <2>2, <2>3, <2>5 DEF LockKey, StopServing, Tick, Lock, PollNetwork, sessionVars
  <2>6. ASSUME NEW k \in Nodes, Quit(k) \/ \E p \in Ports : ListenerStops(k, p)
        PROVE  FALSE
    <3>1. /\ UNCHANGED granted
          /\ \/ bridge' = [bridge EXCEPT ![k] = [p \in Ports |-> Gone]]
             \/ \E p \in Ports : bridge' = [bridge EXCEPT ![k][p] = Gone]
      BY <2>6 DEF Quit, ListenerStops
    <3>2. bridge \in [Nodes -> [Ports -> Listeners]]
      BY <2>0 DEF TypeInv
    <3>3. \A p \in Ports : bridge[n][p] = Gone => bridge'[n][p] = Gone
      <4>1. CASE bridge' = [bridge EXCEPT ![k] = [p \in Ports |-> Gone]]
        BY <3>2, <4>1
      <4>2. CASE \E p \in Ports : bridge' = [bridge EXCEPT ![k][p] = Gone]
        BY <3>2, <4>2
      <4> QED  BY <3>1, <4>1, <4>2
    <3> QED  BY <2>1, <3>1, <3>3
  <2>7. ASSUME NEW k \in Nodes, Open(k), vault[k] = v,
               dialog[k].kind \in {"granting", "revoking", "serving"}
        PROVE  openedFor[n] = v
    BY <1>1, <2>0, <2>7, NoneAssumption DEF LoopOK, LoopAt
  <2>8. ASSUME NEW k \in Nodes, SubmitRevoke(k) \/ \E p \in Nodes : SubmitGrant(k, p)
        PROVE  openedFor[n] = v
    <3>1. /\ Open(k) /\ dialog[k].kind \in {"granting", "revoking"} /\ UNCHANGED bridge
          /\ \E s : granted' = [granted EXCEPT ![vault[k]] = s]
      BY <2>8 DEF SubmitRevoke, SubmitGrant, sessionVars
    <3>2. granted'[v] # granted[v]
      BY <1>1, <3>1, NoneAssumption DEF Gone
    <3>3. vault[k] = v
      BY <2>0, <3>1, <3>2 DEF TypeInv
    <3> QED  BY <2>7, <3>1, <3>3
  <2>9. ASSUME NEW k \in Nodes, NEW p \in Ports, StartServing(k, p)
        PROVE  openedFor[n] = v
    <3>1. /\ Open(k) /\ dialog[k].kind = "serving" /\ UNCHANGED granted
          /\ bridge' = [bridge EXCEPT ![k][p] = [state |-> "listening", vault |-> vault[k]]]
      BY <2>9 DEF StartServing
    <3>2. PICK q \in Ports : bridge[n][q] = Gone /\ bridge'[n][q].vault = v
      BY <1>1, <3>1
    <3>3. bridge[n][q].vault # v
      BY <3>2, NoneAssumption DEF Gone
    <3>4. vault[k] = v
      BY <2>0, <3>1, <3>2, <3>3 DEF TypeInv
    <3> QED  BY <2>7, <3>1, <3>4
  <2>10. CASE UNCHANGED terminalVars
    BY <2>2, <2>10 DEF terminalVars, sessionVars
  <2> QED  BY <1>1, <2>4, <2>5, <2>6, <2>8, <2>9, <2>10 DEF TerminalNext, Loop, Key
<1> QED  BY <1>1

(* Grants, revocations and new listeners are of the vault for which the    *)
(* dialog was opened, even if the timeout has locked it since              *)
(* (submit_grant, submit_revoke, start_serving).                           *)
THEOREM DialogsAlwaysActOnTheirVault == TerminalSpec => DialogsActOnTheirVault
  BY TerminalInvHolds, StepsActOnTheirVault, PTL DEF TerminalSpec, DialogsActOnTheirVault

===============================================================================
