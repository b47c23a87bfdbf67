---------------------------- MODULE MCTaskLifetime ----------------------------
(***************************************************************************)
(* An instance of TaskLifetime for TLC: one buzzer and one strip of two    *)
(* LEDs.                                                                   *)
(***************************************************************************)
EXTENDS TaskLifetime

Tone(sound, lasts) == [sound |-> sound, lasts |-> lasts]

TwoMelodies == {<<Tone("tone", TRUE)>>,
                <<Tone("tone", FALSE), Tone("refused", TRUE), Tone("rest", FALSE)>>}

TwoPatterns == {[size |-> 4, jump |-> 1], [size |-> 3, jump |-> 2]}
=============================================================================
