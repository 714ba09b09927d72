------------------------------ MODULE VaultPromise ------------------------------
(***************************************************************************)
(* What a vault promises to its users: named files, and peers who may read *)
(* them.  Every call takes effect in one atomic step or not at all.  A     *)
(* call that returned or died before that step has no effect afterwards,   *)
(* and a file's content is always the one that the last call to store it   *)
(* was given: deleted or replaced content never comes back.                *)
(*                                                                         *)
(* The promise names what a call puts at risk.  An update or a deletion    *)
(* that is cut off may lose the one file it was given, a revocation every  *)
(* file; adding a file and granting access put nothing at risk.  A call    *)
(* on a lost file may lose all the others.  What is lost stays lost.       *)
(***************************************************************************)
EXTENDS Integers

CONSTANTS Names, Peers

VARIABLES
  files,     \* the content of each file, as the number of the call that stored it
  readers,   \* the peers who may read every file
  call,      \* the number of the latest call
  pending,   \* whether that call may still take effect
  atRisk     \* the files that are lost if that call is cut off now

promiseVars == <<files, readers, call, pending, atRisk>>

Absent == 0
Lost == -2
LostFiles == {n \in Names : files[n] = Lost}

(* Nobody reads anything in a vault in which everything is lost.           *)
Lose(names) ==
  /\ files' = [n \in Names |-> IF n \in names THEN Lost ELSE files[n]]
  /\ readers' = IF names \union LostFiles = Names THEN {} ELSE readers

Promised ==
  /\ files = [n \in Names |-> Absent]
  /\ readers = {}
  /\ call = 0
  /\ pending = FALSE
  /\ atRisk = {}

BeginCall ==
  /\ ~pending /\ atRisk = {}
  /\ call' = call + 1
  /\ pending' \in BOOLEAN
  /\ \/ atRisk' = {}
     \/ \E n \in Names \ LostFiles : files[n] # Absent /\ atRisk' = {n}
     \/ readers # {} /\ atRisk' = Names \ LostFiles
  /\ \/ Lose({})
     \/ LostFiles # {} /\ Lose(Names)

TakeEffect == pending /\ pending' = FALSE /\ UNCHANGED call

PutFile(n) ==
  /\ atRisk \subseteq {n} /\ files[n] # Lost
  /\ TakeEffect
  /\ files' = [files EXCEPT ![n] = call] /\ atRisk' = {} /\ UNCHANGED readers
RemoveFile(n) ==
  /\ atRisk \subseteq {n} /\ files[n] \notin {Absent, Lost}
  /\ TakeEffect
  /\ files' = [files EXCEPT ![n] = Absent] /\ atRisk' = {} /\ UNCHANGED readers
AddReader(p) ==
  /\ atRisk = {} /\ p \notin readers
  /\ TakeEffect
  /\ readers' = readers \union {p} /\ UNCHANGED <<files, atRisk>>
RemoveReader(p) ==
  /\ p \in readers
  /\ TakeEffect
  /\ readers' = readers \ {p} /\ UNCHANGED <<files, atRisk>>

(* A revocation that has taken effect has come to the end of the rewriting. *)
Settle ==
  /\ ~pending /\ atRisk # {}
  /\ atRisk' = {} /\ UNCHANGED <<files, readers, call, pending>>

GiveUp ==
  /\ pending \/ atRisk # {}
  /\ pending' = FALSE /\ atRisk' = {}
  /\ Lose(atRisk)
  /\ UNCHANGED call

PromiseNext ==
  \/ BeginCall
  \/ \E n \in Names : PutFile(n) \/ RemoveFile(n)
  \/ \E p \in Peers : AddReader(p) \/ RemoveReader(p)
  \/ Settle
  \/ GiveUp

PromiseSpec == Promised /\ [][PromiseNext]_promiseVars
===============================================================================
