------------------------------- MODULE Powers -------------------------------
(***************************************************************************)
(* The powers of two as a recursive function: the widths of binary trees,  *)
(* and the depth that a generalized index has in one.                      *)
(***************************************************************************)
EXTENDS Integers

(* 1 << k *)
pow2[k \in Nat] == IF k = 0 THEN 1 ELSE 2 * pow2[k - 1]

(* The turns from the node with generalized index h up to the root:        *)
(* h.bit_length() - 1.                                                     *)
Depth(h) == CHOOSE d \in 0 .. h : pow2[d] <= h /\ h < pow2[d + 1]
=============================================================================
