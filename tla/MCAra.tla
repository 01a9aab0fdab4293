------------------------------- MODULE MCAra -------------------------------
(* An instance of Ara: h1 sends to h3, and h2 has to relay. *)
EXTENDS Ara

CONSTANTS h1, h2, h3

Both(pairs) == pairs \cup {<<p[2], p[1]>> : p \in pairs}
Line == Both({<<h1, h2>>, <<h2, h3>>})
OneWay == {<<h1, h3>>}
=============================================================================
