-------------------------- MODULE MCAodvTimeslot --------------------------
(* Model-checking instance of AodvTimeslot. *)
EXTENDS AodvTimeslot, TLC

\* Objects are interchangeable.
Symmetry == Permutations(Object)
=============================================================================
