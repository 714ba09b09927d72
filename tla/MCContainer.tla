------------------------------ MODULE MCContainer ------------------------------
(* Containers of 9 and 20 blocks, with some bytes left over: more blocks   *)
(* than a byte of bitmap holds, and a table and a chain of the smallest    *)
(* sizes and beyond them.                                                  *)
EXTENDS Container
MCCapacities == {9 * 4096 + 4095, 20 * 4096}
===============================================================================
