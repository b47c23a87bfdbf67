---------------------------- MODULE MCSerialBridge ----------------------------
(***************************************************************************)
(* An instance of SerialBridge for TLC: two clients with a command each.   *)
(***************************************************************************)
EXTENDS SerialBridge

CONSTANTS c1, c2

OneEach == [c \in {c1, c2} |-> 1]
=============================================================================
