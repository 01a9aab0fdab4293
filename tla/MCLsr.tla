------------------------------- MODULE MCLsr -------------------------------
(* The duplicate check alone over many packets, or a mesh of daemons that  *)
(* use it over few: which of the two a behaviour shows is chosen at first. *)
EXTENDS Lsr
CONSTANTS a, b, c, d
VARIABLE part

Both(pairs) == pairs \cup {<<p[2], p[1]>> : p \in pairs}
\* A ring: from a to d it is one hop, or three as long as a has not heard d.
Ring == Both({<<a, b>>, <<b, c>>, <<c, d>>, <<d, a>>})
\* All but a run for a while, or all begin.
OldNodes == {<<b, c, d>>, <<>>}

MCInit == part \in {"numbers", "mesh"} /\ SeqInit /\ Init
MCNext ==
    \/ part = "numbers" /\ SeqNext /\ UNCHANGED <<vars, part>>
    \/ part = "mesh" /\ Next /\ UNCHANGED <<seqVars, part>>
MCSpec == MCInit /\ [][MCNext]_<<vars, seqVars, part>>
=============================================================================
