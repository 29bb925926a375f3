----------------------------- MODULE MCLsmReopen -----------------------------
(***************************************************************************)
(* Model-checking instances of LsmReopen.                                  *)
(***************************************************************************)
EXTENDS LsmReopenInv
=============================================================================
