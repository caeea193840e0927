------------------------------- MODULE Texts --------------------------------
(***************************************************************************)
(* What the pure functions of the server are told apart by in a text that  *)
(* somebody else wrote: not there, there and empty, blank, or nothing they *)
(* can read.  A text that is none of these is a number or a word.          *)
(***************************************************************************)
EXTENDS Integers

CONSTANTS Absent, Empty, Spaces, Garbage, Rejected

ASSUME TextAssumption ==
  /\ Absent \notin Int /\ Garbage \notin Int
  /\ Absent \notin {Empty, Spaces, Garbage}

Blank == {Empty, Spaces}
=============================================================================
