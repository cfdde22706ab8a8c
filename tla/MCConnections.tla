--------------------------- MODULE MCConnections ---------------------------
(* Connections with two structs and a handful of descriptors, the last one *)
(* a number the kernel hands out but select(2) cannot take.  With nothing  *)
(* else open two whole connections coexist; with two numbers held, either  *)
(* a client or an origin meets the selector's limit.                       *)
EXTENDS Connections

MCFds == 0..5
MCHeldSets == {{}, {1, 2}}
=============================================================================
