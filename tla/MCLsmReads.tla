------------------------------ MODULE MCLsmReads ------------------------------
(***************************************************************************)
(* Model-checking instances of LsmReads; readers are model values.         *)
(***************************************************************************)
EXTENDS LsmReadsInv
=============================================================================
