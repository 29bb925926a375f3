---------------------------- MODULE MCLsmDirCrash ----------------------------
(***************************************************************************)
(* Model-checking instances of LsmDirCrash.                                *)
(***************************************************************************)
EXTENDS LsmDirCrashInv
=============================================================================
