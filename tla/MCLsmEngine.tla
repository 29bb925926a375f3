---------------------------- MODULE MCLsmEngine ----------------------------
(***************************************************************************)
(* Model-checking instances of LsmEngine.  The .cfg files give the options *)
(* and the bounds; clients are model values.                               *)
(***************************************************************************)
EXTENDS LsmDurabilityInv
=============================================================================
