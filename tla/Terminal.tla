-------------------------------- MODULE Terminal --------------------------------
(***************************************************************************)
(* The terminal interface: its loop with tabs, screens and dialogs, the    *)
(* inactivity timeout, and the network bridge through which an unlocked    *)
(* vault is served.                                                        *)
(*                                                                         *)
(* Every node runs one loop that reads at most one key and then ticks.  A  *)
(* tick locks a vault that has been idle for too long or else answers one  *)
(* request of a peer.  The bridge listens in a thread of its own, with a   *)
(* task per connection; only the loop touches the vault.  A join is done   *)
(* by the loop itself, which waits for its end.                            *)
(*                                                                         *)
(* The clock is reduced to whether the timeout has passed since the last   *)
(* activity.  The tabs Logs and Settings, which treat keys alike as long   *)
(* as no setting is edited, are one.                                       *)
(***************************************************************************)
EXTENDS Sequences, FiniteSets, SequencesExt

CONSTANTS
  Nodes,
  Vaults,
  NoneOpen,     \* no vault
  Owner,        \* Owner[v]: the node that has vault v and its password
  Ports,
  NoPort,
  Invites       \* <<m, n>>: node m holds an invite code of node n

ASSUME OwnerAssumption == Owner \in [Vaults -> Nodes]
ASSUME NoneAssumption == NoneOpen \notin Vaults /\ NoPort \notin Ports
ASSUME InvitesAssumption == Invites \subseteq Nodes \X Nodes

VARIABLES
  phase,      \* where a node's loop is: "key", "tick", "joining"; "off" when it has quit
  tab,        \* the selected tab
  screen,     \* the mode of the Vaults tab
  vault,      \* the vault that is unlocked or being unlocked
  expired,    \* whether the timeout has passed since the last activity
  dialog,     \* the mode of the Network tab
  openedFor,  \* history: the vault that was unlocked when the dialog was opened
  current,    \* the port of the serving session, if there is one
  queue,      \* the requests that wait for the loop
  bridge,     \* the listener of each port, with (history) the vault it was started for
  conn,       \* each node's connection while it joins
  granted,    \* the peers granted access to each vault
  joined      \* the nodes of whose vaults a node has a replica

loopVars == <<phase, tab, screen, vault, expired>>
dialogVars == <<dialog, openedFor>>
sessionVars == <<current, queue, bridge>>
terminalVars == <<loopVars, dialogVars, sessionVars, conn, granted, joined>>

NoDialog == [kind |-> "none"]
Gone == [state |-> "gone", vault |-> NoneOpen]
NoConn == [state |-> "none"]

Open(n) == screen[n] \in {"files", "form"}
Serving(n) == Open(n) /\ current[n] # NoPort

-------------------------------------------------------------------------------
(* Locking a vault, quitting and stopping drop the session: its listener   *)
(* is told to stop, and the requests in its queue are dropped, which their *)
(* tasks take as an error.                                                 *)
CloseWhere(test(_)) ==
  conn' = [m \in Nodes |-> IF conn[m] # NoConn /\ test(m)
                           THEN [conn[m] EXCEPT !.state = "closed"] ELSE conn[m]]

KeepSession(n) == UNCHANGED <<sessionVars, conn>>                   \* mutant
DropSession(n) ==
  LET Queued(m) == conn[m].to = n /\ conn[m].state = "queued" IN
  /\ current' = [current EXCEPT ![n] = NoPort]
  /\ queue' = [queue EXCEPT ![n] = <<>>]
  /\ bridge' = IF current[n] = NoPort THEN bridge
               ELSE [bridge EXCEPT ![n][current[n]].state = "stopping"]
  /\ CloseWhere(Queued)

Lock(n) ==
  /\ screen' = [screen EXCEPT ![n] = "browsing"]
  /\ vault' = [vault EXCEPT ![n] = NoneOpen]
  /\ DropSession(n)

-------------------------------------------------------------------------------
(* Keys.  Only keys that reach the Vaults tab or the Network tab count as  *)
(* activity.                                                               *)
Pressed(n) == phase[n] = "key" /\ phase' = [phase EXCEPT ![n] = "tick"]
PressedIn(n, t) ==
  /\ Pressed(n)
  /\ tab[n] = t
  /\ expired' = [expired EXCEPT ![n] = FALSE]
  /\ UNCHANGED tab

NoKey(n) ==
  /\ Pressed(n)
  /\ UNCHANGED <<tab, screen, vault, expired, dialogVars, sessionVars, conn, granted, joined>>

(* A key that only types, moves or redraws.                                *)
OtherKey(n) ==
  /\ PressedIn(n, "vaults") \/ PressedIn(n, "network")
  /\ Open(n)
  /\ UNCHANGED <<screen, vault, dialogVars, sessionVars, conn, granted, joined>>

InterceptsQuit(n) ==
  CASE tab[n] = "vaults"  -> screen[n] # "browsing"
    [] tab[n] = "network" -> dialog[n] # NoDialog
    [] OTHER              -> FALSE
FormsBlockTab(n) == tab[n] = "vaults" /\ screen[n] \in {"unlocking", "form"}    \* mutant
BlocksTab(n) ==
  CASE tab[n] = "vaults"  -> screen[n] \in {"unlocking", "form"}
    [] tab[n] = "network" -> dialog[n] # NoDialog
    [] OTHER              -> FALSE

NextTab(n) ==
  /\ Pressed(n)
  /\ ~BlocksTab(n)
  /\ tab' = [tab EXCEPT ![n] = CASE @ = "vaults" -> "network"
                                 [] @ = "network" -> "other"
                                 [] OTHER -> "vaults"]
  /\ UNCHANGED <<screen, vault, expired, dialogVars, sessionVars, conn, granted, joined>>

(* The process ends, and with it the bridge's threads and connections.     *)
Quit(n) ==
  LET ToHere(m) == conn[m].to = n /\ conn[m].state # "delivered" IN
  /\ phase[n] = "key"
  /\ ~InterceptsQuit(n)
  /\ phase' = [phase EXCEPT ![n] = "off"]
  /\ tab' = [tab EXCEPT ![n] = "vaults"]
  /\ screen' = [screen EXCEPT ![n] = "browsing"]
  /\ vault' = [vault EXCEPT ![n] = NoneOpen]
  /\ expired' = [expired EXCEPT ![n] = FALSE]
  /\ current' = [current EXCEPT ![n] = NoPort]
  /\ queue' = [queue EXCEPT ![n] = <<>>]
  /\ bridge' = [bridge EXCEPT ![n] = [p \in Ports |-> Gone]]
  /\ CloseWhere(ToHere)
  /\ UNCHANGED <<dialogVars, granted, joined>>

Launch(n) ==
  /\ phase[n] = "off"
  /\ phase' = [phase EXCEPT ![n] = "key"]
  /\ UNCHANGED <<tab, screen, vault, expired, dialogVars, sessionVars, conn, granted, joined>>

(* The Vaults tab.                                                         *)
Shows(n, s, v) ==
  /\ screen' = [screen EXCEPT ![n] = s]
  /\ vault' = [vault EXCEPT ![n] = v]
  /\ UNCHANGED <<dialogVars, sessionVars, conn, granted, joined>>

(* Esc, or Enter on the right password; a wrong one leaves the form open.  *)
UnlockKey(n) == Shows(n, "browsing", NoneOpen) \/ Shows(n, "files", vault[n])

VaultsKey(n) ==
  /\ PressedIn(n, "vaults")
  /\ \/ screen[n] = "browsing" /\ \E v \in Vaults : Owner[v] = n /\ Shows(n, "unlocking", v)
     \/ screen[n] = "unlocking" /\ UnlockKey(n)
     \/ screen[n] = "files" /\ Shows(n, "form", vault[n])
     \/ screen[n] = "form" /\ Shows(n, "files", vault[n])

LockKey(n) ==
  /\ PressedIn(n, "vaults")
  /\ screen[n] = "files"
  /\ Lock(n)
  /\ UNCHANGED <<dialogVars, granted, joined>>

(* The Network tab.                                                        *)
ShowDialog(n, d) ==
  /\ dialog' = [dialog EXCEPT ![n] = d]
  /\ openedFor' = [openedFor EXCEPT ![n] = IF d = NoDialog THEN NoneOpen ELSE vault[n]]

OpenDialog(n) ==
  /\ PressedIn(n, "network")
  /\ dialog[n] = NoDialog
  /\ \/ ShowDialog(n, [kind |-> "joining"])
     \/ Open(n) /\ ShowDialog(n, [kind |-> "granting"])
     \/ Open(n) /\ \E p \in granted[vault[n]] : ShowDialog(n, [kind |-> "revoking", target |-> p])
     \/ Open(n) /\ ~Serving(n) /\ ShowDialog(n, [kind |-> "serving"])
  /\ UNCHANGED <<screen, vault, sessionVars, conn, granted, joined>>

(* Esc, or Enter after the vault has been locked under the dialog.         *)
CloseDialog(n) ==
  /\ PressedIn(n, "network")
  /\ dialog[n] # NoDialog
  /\ ShowDialog(n, NoDialog)
  /\ UNCHANGED <<screen, vault, sessionVars, conn, granted, joined>>

SubmitGrant(n, p) ==
  /\ PressedIn(n, "network")
  /\ dialog[n].kind = "granting"
  /\ Open(n)
  /\ p \notin granted[vault[n]]
  /\ granted' = [granted EXCEPT ![vault[n]] = @ \union {p}]
  /\ ShowDialog(n, NoDialog)
  /\ UNCHANGED <<screen, vault, sessionVars, conn, joined>>

SubmitRevoke(n) ==
  /\ PressedIn(n, "network")
  /\ dialog[n].kind = "revoking"
  /\ Open(n)
  /\ dialog[n].target \in granted[vault[n]]
  /\ granted' = [granted EXCEPT ![vault[n]] = @ \ {dialog[n].target}]
  /\ ShowDialog(n, NoDialog)
  /\ UNCHANGED <<screen, vault, sessionVars, conn, joined>>

(* A port is free when its last listener is gone.                          *)
StartServing(n, p) ==
  /\ PressedIn(n, "network")
  /\ dialog[n].kind = "serving"
  /\ Open(n)
  /\ bridge[n][p] = Gone
  /\ bridge' = [bridge EXCEPT ![n][p] = [state |-> "listening", vault |-> vault[n]]]
  /\ current' = [current EXCEPT ![n] = p]
  /\ ShowDialog(n, NoDialog)
  /\ UNCHANGED <<screen, vault, queue, conn, granted, joined>>

StopServing(n) ==
  /\ PressedIn(n, "network")
  /\ dialog[n] = NoDialog
  /\ Serving(n)
  /\ DropSession(n)
  /\ UNCHANGED <<screen, vault, dialogVars, granted, joined>>

(* The loop dials and waits.  If nobody listens, the dialog shows an error.*)
SubmitJoin(n, to, p) ==
  /\ phase[n] = "key"
  /\ tab[n] = "network"
  /\ dialog[n].kind = "joining"
  /\ <<n, to>> \in Invites
  /\ to \notin joined[n]
  /\ bridge[to][p] # Gone
  /\ phase' = [phase EXCEPT ![n] = "joining"]
  /\ expired' = [expired EXCEPT ![n] = FALSE]
  /\ conn' = [conn EXCEPT ![n] =
       [state |-> "dialled", to |-> to, port |-> p, for |-> bridge[to][p].vault,
        answer |-> [kind |-> "none"]]]
  /\ UNCHANGED <<tab, screen, vault, dialogVars, sessionVars, granted, joined>>

EndJoin(n) ==
  /\ phase[n] = "joining"
  /\ conn[n].state \in {"delivered", "closed"}
  /\ phase' = [phase EXCEPT ![n] = "tick"]
  /\ conn' = [conn EXCEPT ![n] = NoConn]
  /\ IF conn[n].state = "delivered" /\ conn[n].answer.kind = "copy"
     THEN joined' = [joined EXCEPT ![n] = @ \union {conn[n].to}] /\ ShowDialog(n, NoDialog)
     ELSE UNCHANGED <<joined, dialogVars>>
  /\ UNCHANGED <<tab, screen, vault, expired, sessionVars, granted>>

-------------------------------------------------------------------------------
(* The tick.                                                               *)
AnswerAnyone(v, m) == [kind |-> "copy", vault |-> v, readers |-> granted[v]]  \* mutant
AnswerFor(v, m) ==
  IF m \in granted[v] THEN [kind |-> "copy", vault |-> v, readers |-> granted[v]]
                      ELSE [kind |-> "refused"]

PollNetwork(n) ==
  /\ queue' = [queue EXCEPT ![n] = Tail(@)]
  /\ conn' = [conn EXCEPT ![Head(queue[n])].state = "answered",
                          ![Head(queue[n])].answer = AnswerFor(vault[n], Head(queue[n]))]
  /\ UNCHANGED <<screen, vault, current, bridge>>

PollsOnItsTab(n) == Serving(n) /\ queue[n] # <<>> /\ tab[n] = "network"      \* mutant
Polls(n) == Serving(n) /\ queue[n] # <<>>
NotWhileServing(n) == Open(n) /\ expired[n] /\ ~Serving(n)                   \* mutant
TimesOut(n) == Open(n) /\ expired[n]

Tick(n) ==
  /\ phase[n] = "tick"
  /\ phase' = [phase EXCEPT ![n] = "key"]
  /\ IF TimesOut(n) THEN Lock(n)
     ELSE IF Polls(n) THEN PollNetwork(n)
     ELSE UNCHANGED <<screen, vault, sessionVars, conn>>
  /\ UNCHANGED <<tab, expired, dialogVars, granted, joined>>

TimePasses(n) ==
  /\ Open(n)
  /\ ~expired[n]
  /\ expired' = [expired EXCEPT ![n] = TRUE]
  /\ UNCHANGED <<phase, tab, screen, vault, dialogVars, sessionVars, conn, granted, joined>>

-------------------------------------------------------------------------------
(* The bridge's thread and tasks; m is the node that has dialled.          *)
TaskStep(m) == UNCHANGED <<loopVars, dialogVars, current, bridge, granted, joined>>

(* After the handshake, the task sends the request, unless the session has *)
(* been dropped.                                                           *)
Request(m) ==
  /\ conn[m].state = "dialled"
  /\ IF current[conn[m].to] = conn[m].port
     THEN /\ conn' = [conn EXCEPT ![m].state = "queued"]
          /\ queue' = [queue EXCEPT ![conn[m].to] = Append(@, m)]
     ELSE /\ conn' = [conn EXCEPT ![m].state = "closed"]
          /\ UNCHANGED queue
  /\ TaskStep(m)

Deliver(m) ==
  /\ conn[m].state = "answered"
  /\ conn' = [conn EXCEPT ![m].state = "delivered"]
  /\ UNCHANGED queue
  /\ TaskStep(m)

(* The connection breaks, or the answer is too long for a frame.           *)
BreakUnnoticed(m) ==                                                \* mutant
  /\ conn[m].state \in {"dialled", "answered"}
  /\ conn' = [conn EXCEPT ![m] = NoConn]
  /\ UNCHANGED queue
  /\ TaskStep(m)
Break(m) ==
  /\ conn[m].state \in {"dialled", "answered"}
  /\ conn' = [conn EXCEPT ![m].state = "closed"]
  /\ UNCHANGED queue
  /\ TaskStep(m)

(* The listener sees that it is to stop; its runtime cancels the tasks.    *)
ListenerStops(n, p) ==
  LET Task(m) == conn[m].to = n /\ conn[m].port = p /\ conn[m].state # "delivered" IN
  /\ bridge[n][p].state = "stopping"
  /\ bridge' = [bridge EXCEPT ![n][p] = Gone]
  /\ CloseWhere(Task)
  /\ UNCHANGED <<loopVars, dialogVars, current, queue, granted, joined>>

-------------------------------------------------------------------------------
TerminalInit ==
  /\ phase = [n \in Nodes |-> "key"]
  /\ tab = [n \in Nodes |-> "vaults"]
  /\ screen = [n \in Nodes |-> "browsing"]
  /\ vault = [n \in Nodes |-> NoneOpen]
  /\ expired = [n \in Nodes |-> FALSE]
  /\ dialog = [n \in Nodes |-> NoDialog]
  /\ openedFor = [n \in Nodes |-> NoneOpen]
  /\ current = [n \in Nodes |-> NoPort]
  /\ queue = [n \in Nodes |-> <<>>]
  /\ bridge = [n \in Nodes |-> [p \in Ports |-> Gone]]
  /\ conn = [n \in Nodes |-> NoConn]
  /\ granted = [v \in Vaults |-> {}]
  /\ joined = [n \in Nodes |-> {}]

(* Granting to oneself is left out.                                        *)
Key(n) ==
  \/ NoKey(n) \/ OtherKey(n) \/ NextTab(n) \/ VaultsKey(n) \/ LockKey(n)
  \/ OpenDialog(n) \/ CloseDialog(n) \/ SubmitRevoke(n) \/ StopServing(n)
  \/ \E p \in Nodes \ {n} : SubmitGrant(n, p)
  \/ \E p \in Ports : StartServing(n, p)
  \/ \E to \in Nodes, p \in Ports : SubmitJoin(n, to, p)

Loop(n) == Key(n) \/ Tick(n) \/ EndJoin(n)
Task(m) == Request(m) \/ Deliver(m)

TerminalNext ==
  \E n \in Nodes :
    \/ Loop(n) \/ Quit(n) \/ Launch(n) \/ TimePasses(n)
    \/ Task(n) \/ Break(n)
    \/ \E p \in Ports : ListenerStops(n, p)

(* The loop never waits for a key, and the bridge's runtime runs its tasks.*)
TerminalFairness ==
  \A n \in Nodes :
    /\ WF_terminalVars(Loop(n))
    /\ WF_terminalVars(Task(n))
    /\ \A p \in Ports : WF_terminalVars(ListenerStops(n, p))

TerminalSpec == TerminalInit /\ [][TerminalNext]_terminalVars /\ TerminalFairness

-------------------------------------------------------------------------------
(* The variables have their types, and a node is joining exactly while it  *)
(* has a connection.                                                       *)
TerminalTypeOK ==
  /\ phase \in [Nodes -> {"key", "tick", "joining", "off"}]
  /\ tab \in [Nodes -> {"vaults", "network", "other"}]
  /\ screen \in [Nodes -> {"browsing", "unlocking", "files", "form"}]
  /\ vault \in [Nodes -> Vaults \union {NoneOpen}]
  /\ \A n \in Nodes : vault[n] = NoneOpen <=> screen[n] = "browsing"
  /\ expired \in [Nodes -> BOOLEAN]
  /\ \A n \in Nodes : dialog[n].kind \in {"none", "joining", "granting", "revoking", "serving"}
  /\ openedFor \in [Nodes -> Vaults \union {NoneOpen}]
  /\ current \in [Nodes -> Ports \union {NoPort}]
  /\ \A n \in Nodes : queue[n] \in Seq(Nodes)
  /\ bridge \in [Nodes -> [Ports -> [state : {"gone", "listening", "stopping"},
                                     vault : Vaults \union {NoneOpen}]]]
  /\ \A n \in Nodes : (conn[n] # NoConn) <=> (phase[n] = "joining")
  /\ granted \in [Vaults -> SUBSET Nodes]
  /\ joined \in [Nodes -> SUBSET Nodes]

(* However a vault comes to be locked -- by a key, by the timeout under an *)
(* open dialog, by quitting -- its listener does not outlive it as a       *)
(* listener that would accept, and no request waits in a queue that nobody *)
(* empties: a listener that has not been told to stop serves the vault     *)
(* that is open, and a connection is queued exactly if its request is.     *)
LockEndsServing ==
  /\ \A n \in Nodes, p \in Ports :
       bridge[n][p].state = "listening" =>
         current[n] = p /\ Open(n) /\ vault[n] = bridge[n][p].vault
  /\ \A m, n \in Nodes :
       (conn[m].state = "queued" /\ conn[m].to = n) <=> m \in ToSet(queue[n])
  /\ \A n \in Nodes : IsInjective(queue[n])

(* A peer is answered with the vault whose listener it had dialled, never  *)
(* with one that the same node unlocked later, and the copy lists it as a  *)
(* reader, so that it can be opened.                                       *)
CopiesAreOfTheServedVault ==
  \A m \in Nodes :
    (conn[m] # NoConn /\ conn[m].answer.kind = "copy") =>
      conn[m].answer.vault = conn[m].for /\ m \in conn[m].answer.readers

(* A dialog outlives the vault under it when that is locked by the         *)
(* timeout.  Whatever is unlocked later, a grant, a revocation or a start  *)
(* of serving is done on the vault for which the dialog was opened.        *)
DialogsActOnTheirVault ==
  [][\A n \in Nodes : \A v \in Vaults :
       (Owner[v] = n /\
          \/ granted'[v] # granted[v]
          \/ \E p \in Ports : bridge[n][p] = Gone /\ bridge'[n][p].vault = v)
       => openedFor[n] = v]_terminalVars

(* A join ends, with a replica or with an error.                           *)
JoinsEnd == \A n \in {i[1] : i \in Invites} : phase[n] = "joining" ~> phase[n] # "joining"

(* A vault that has been idle for too long is locked, unless a key comes   *)
(* first.                                                                  *)
IdleVaultsLock ==
  \A n \in {Owner[v] : v \in Vaults} : (Open(n) /\ expired[n]) ~> (~Open(n) \/ ~expired[n])
===============================================================================
