----------------------------- MODULE MCSubject ------------------------------
(* What the instances of the parts share: the part a behaviour is about,   *)
(* and the names of who acts in it.                                        *)
EXTENDS Integers, Sequences, TLC

CONSTANTS x1, x2, x3, y1, y2, u1, u2, NoOne

Three == {x1, x2, x3}
Two   == {y1, y2}

VARIABLE subject
=============================================================================
