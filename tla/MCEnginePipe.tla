---------------------------- MODULE MCEnginePipe ----------------------------
(* Two threads of the plugin make three requests over pipes that hold a      *)
(* frame, so that a writer and the engine wait for the other side.           *)
EXTENDS EnginePipe, TLC
CONSTANTS c1, c2
=============================================================================
