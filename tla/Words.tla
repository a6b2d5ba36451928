-------------------------------- MODULE Words --------------------------------
(***************************************************************************)
(* The 32-bit integers of JavaScript's bit operators.  A word is the set   *)
(* of the positions of its ones, 0 the lowest, so that & and | are         *)
(* intersection and union, -1 is Word, and what does not fit is lost.      *)
(***************************************************************************)
EXTENDS Integers

Word == 0..31

(* The shift of JavaScript: its count is taken modulo 32. *)
ShiftLeft(w, n) == {b + (n % 32) : b \in w} \cap Word

(* (w >> n) & (2^width - 1) *)
Field(w, n, width) == {b \in 0..(width - 1) : b + n \in w}
=============================================================================
