---------------------------- MODULE MCEngineTests ----------------------------
(***************************************************************************)
(* Model-checking instance of EngineTests: all tests, one after another as *)
(* initial states.                                                         *)
(***************************************************************************)
EXTENDS EngineTests

AllTests == ManualTests \cup WorkerTests
=============================================================================
