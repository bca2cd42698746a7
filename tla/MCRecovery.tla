----------------------------- MODULE MCRecovery -----------------------------
(* Recovery with a firmware, a full image, a file of another product and   *)
(* one of this product with a wrong size.                                  *)
EXTENDS Recovery

MCSize == [firmware |-> 4, full |-> 7, other |-> 4, short |-> 3]
=============================================================================
