----------------------------- MODULE MCReplication -----------------------------
(* Replication with one peer: peers do not affect the container or each    *)
(* other.                                                                  *)
EXTENDS Replication
===============================================================================
