------------------------------ MODULE MCHashChain ------------------------------
(* HashChain on a small ring.  Payloads are 1 and 2, and a hash is the     *)
(* number of the path of payloads that leads to it in a binary tree: with  *)
(* 512 numbers the histories of up to eight records all differ.            *)
EXTENDS HashChain
MCHashes == 0 .. 511
MCHash(n, prev, payload) == (2 * prev + payload) % 512
===============================================================================
