------------------------------- MODULE MCTerminal -------------------------------
(* Terminal on two nodes.                                                  *)
EXTENDS Terminal, TLC
CONSTANTS n1, n2, va, vb

OneServes == va :> n1 @@ vb :> n1       \* n1 has both vaults
BothServe == va :> n1 @@ vb :> n2       \* each has one
TwoJoinsOne == {<<n2, n1>>}
JoinEachOther == {<<n1, n2>>, <<n2, n1>>}
===============================================================================
