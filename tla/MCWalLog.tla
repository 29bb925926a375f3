------------------------------ MODULE MCWalLog ------------------------------
(***************************************************************************)
(* Model-checking instance of WalLog: one key, whose frames are 12 bytes   *)
(* (buffered) or 14 bytes (written directly) against a buffer of 13.       *)
(***************************************************************************)
EXTENDS WalLog

CallsOf(op, values) == [op : {op}, key : {<<1>>}, value : values]

SmallCalls == CallsOf("put", {<< >>, <<5, 6>>}) \cup CallsOf("delete", {<< >>})
=============================================================================
