------------------------------ MODULE MCAodvRt ------------------------------
(* Model-checking instance of AodvRt. *)
EXTENDS AodvRt, TLC

\* Destinations, neighbours and threads are interchangeable.
Symmetry ==
    Permutations(Dest) \cup Permutations(Hop) \cup Permutations(MeshThread)
=============================================================================
