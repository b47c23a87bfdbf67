------------------------------- MODULE MCSPFS -------------------------------
(***************************************************************************)
(* Instances of SPFS for TLC: a handful of blocks of three bytes, the      *)
(* header taking one byte and ending at the second.                        *)
(***************************************************************************)
EXTENDS SPFS

\* one byte, and a content that crosses a page and contains 0xFF
ShortAndLong == {<<7>>, <<8, Blank, 8>>}
Short        == {<<7>>}
Long         == {<<8, 8>>}
=============================================================================
