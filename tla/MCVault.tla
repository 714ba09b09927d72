-------------------------------- MODULE MCVault --------------------------------
(* Vault on a container of a few blocks.                                   *)
EXTENDS Vault, TLC
CONSTANTS f1, f2, p1, p2
MCHashes == 0 .. 4095
MCHash(n, prev, payload) == (8 * prev + payload + 1) % 4096

(* Contents of which a chunk parses as an index block: the third chunk of  *)
(* the first two contents points to the block on which it often lies, that *)
(* of the third lists a block of perhaps another file and one past the     *)
(* end, and the second of the fourth points past the end.                  *)
MCIndexLike ==
     <<1, 3>> :> [next |-> 2, list |-> <<2>>]
  @@ <<2, 3>> :> [next |-> 2, list |-> <<>>]
  @@ <<3, 3>> :> [next |-> 0, list |-> <<0, 7>>]
  @@ <<4, 2>> :> [next |-> 9, list |-> <<1>>]

(* Files and peers are interchangeable: nothing depends on which is which. *)
Symmetry == {f @@ g : f \in Permutations({f1, f2}), g \in Permutations({p1, p2})}

(* Cut off here, an update has freed the blocks that its entry still names. *)
InterruptedUpdate == {<<"update", "block">>}

(* Cut off anywhere. *)
AllPoints == Calls \X Regions
===============================================================================
