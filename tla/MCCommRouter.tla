---------------------------- MODULE MCCommRouter ----------------------------
(***************************************************************************)
(* Instances of CommRouter for TLC: MultiPassthrough between the USB port  *)
(* and two UARTs, and Passthrough between the USB port and one UART.       *)
(***************************************************************************)
EXTENDS CommRouter

CONSTANTS main, a, b

MultiServed     == <<a, b, main>>
MultiRegistered == <<main, a, b>>
MultiTargets    == [d \in {main, a, b} |-> IF d = main THEN <<a, b>> ELSE <<main>>]
MultiBytes      == [d \in {main, a, b} |-> CASE d = main -> 6 [] d = a -> 3 [] d = b -> 0]

PassOrder       == <<main, a>>
PassTargets     == [d \in {main, a} |-> IF d = main THEN <<a>> ELSE <<main>>]
PassBytes       == [d \in {main, a} |-> IF d = main THEN 0 ELSE 3]
=============================================================================
