------------------------- MODULE MCGNARequestSlots -------------------------
(* TLC instance of GNARequestSlots: more requests than slots.              *)
EXTENDS GNARequestSlots, TLC

Symmetry == Permutations(Requests)
=============================================================================
