---------------------------- MODULE MCLsmRefinesKV ----------------------------
(***************************************************************************)
(* Model-checking instances of LsmRefinesKV.                               *)
(***************************************************************************)
EXTENDS LsmRefinesKVInv
=============================================================================
