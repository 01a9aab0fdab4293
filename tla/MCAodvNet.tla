----------------------------- MODULE MCAodvNet -----------------------------
(* Model-checking instance of AodvNet: a triangle, on which a asks for c, and  *)
(* a chain a - b - c and a star around c, on which c asks as well, so that     *)
(* there is a number of c that c may have forgotten when a asks again.         *)
EXTENDS AodvNet, TLC

CONSTANTS a, b, c

Both(pairs) == pairs \cup {<<p[2], p[1]>> : p \in pairs}

Triangle == [link    |-> Both({<<a, b>>, <<b, c>>, <<a, c>>}),
             request |-> {<<a, c>>},
             ttl     |-> {1, 3},
             last    |-> [n \in Node |-> 1],
             faults  |-> 2]

Chain == [link    |-> Both({<<a, b>>, <<b, c>>}),
          request |-> {<<a, c>>, <<c, b>>},
          ttl     |-> {3},
          last    |-> (a :> 2) @@ (b :> 0) @@ (c :> 1),
          faults  |-> 1]

\* c is the neighbour of both: it answers itself.
Star == [Chain EXCEPT !.link = Both({<<a, c>>, <<b, c>>})]

All == {Triangle, Chain, Star}
=============================================================================
