------------------------------ MODULE IdentityFile ------------------------------
(***************************************************************************)
(* The identity file of a node, $REVAULT_HOME/identity, and the processes  *)
(* of that node that load it or, where it is missing, write it.  Key pairs *)
(* are numbered in the order in which they are generated.                  *)
(***************************************************************************)
EXTENDS Integers

CONSTANT Procs        \* processes of the node

VARIABLES
  idFile,     \* the identity in the file, or one of the two below
  loader,     \* loader[q]: how far load_or_create has got in process q
  loaded,     \* loaded[q]: the identity that process q has got
  generated,  \* number of key pairs generated
  unsettled   \* history: two processes created the file at a time, or it was lost

identityVars == <<idFile, loader, loaded, generated, unsettled>>

Missing == 0
Damaged == -1     \* shorter than 64 bytes, or not to be read

IdentityInit ==
  /\ idFile = Missing
  /\ loader = [q \in Procs |-> "off"]
  /\ loaded = [q \in Procs |-> Missing]
  /\ generated = 0
  /\ unsettled = FALSE

HasIdentity(q) == loader[q] = "done"

(* load_or_create reads the file, and generates a key pair if that fails   *)
(* in any way.                                                             *)
LoadIdentity(q) ==
  /\ UNCHANGED idFile
  /\ \/ /\ idFile \notin {Missing, Damaged}
        /\ loader' = [loader EXCEPT ![q] = "done"]
        /\ loaded' = [loaded EXCEPT ![q] = idFile]
        /\ UNCHANGED <<generated, unsettled>>
     \/ /\ idFile \in {Missing, Damaged}
        /\ loader' = [loader EXCEPT ![q] = "generated"]
        /\ loaded' = [loaded EXCEPT ![q] = generated + 1]
        /\ generated' = generated + 1
        /\ unsettled' = (unsettled \/ \E p \in Procs : loader[p] \in {"generated", "opened"})

(* fs::write truncates the file, then writes it.                           *)
TruncateIdentity(q) ==
  /\ loader[q] = "generated"
  /\ loader' = [loader EXCEPT ![q] = "opened"]
  /\ idFile' = Damaged
  /\ UNCHANGED <<loaded, generated, unsettled>>

KeptInMemory(q) ==                                                      \* mutant
  /\ loader[q] = "opened"
  /\ loader' = [loader EXCEPT ![q] = "done"]
  /\ UNCHANGED <<idFile, loaded, generated, unsettled>>
WriteIdentity(q) ==
  /\ loader[q] = "opened"
  /\ loader' = [loader EXCEPT ![q] = "done"]
  /\ idFile' = loaded[q]
  /\ UNCHANGED <<loaded, generated, unsettled>>

(* Something else damages the file, or makes it unreadable.                *)
LoseIdentity ==
  /\ idFile \notin {Missing, Damaged}
  /\ idFile' = Damaged
  /\ unsettled' = TRUE
  /\ UNCHANGED <<loader, loaded, generated>>

Unload(q) ==
  /\ loader' = [loader EXCEPT ![q] = "off"]
  /\ loaded' = [loaded EXCEPT ![q] = Missing]
  /\ UNCHANGED <<idFile, generated, unsettled>>
===============================================================================
