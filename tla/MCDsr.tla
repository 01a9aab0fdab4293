------------------------------- MODULE MCDsr -------------------------------
(* Small networks for Dsr: h1 is the source and h4 the destination. *)
EXTENDS Dsr

CONSTANTS h1, h2, h3, h4, t1, t2

Both(pairs) == pairs \cup {<<p[2], p[1]>> : p \in pairs}
Line == Both({<<h1, h2>>, <<h2, h4>>})
Triangle == Both({<<h1, h2>>, <<h2, h4>>, <<h1, h4>>})
Kite == Both({<<h1, h2>>, <<h1, h3>>, <<h2, h3>>, <<h2, h4>>, <<h3, h4>>})

Packets == {<<h1, h4, 1>>, <<h1, h4, 2>>}
One == {<<h1, h4, 1>>}

Plain == [link |-> Triangle, ring |-> FALSE, retries |-> 0, retransmit |-> 0,
          threads |-> {t1, t2}, packets |-> Packets,
          rreq |-> 1, ack |-> 1, forget |-> 0, restart |-> 0]

All ==
    {Plain,
     [Plain EXCEPT !.link = Line, !.threads = {t1}, !.ack = 2],
     [Plain EXCEPT !.packets = One, !.restart = 1],
     [Plain EXCEPT !.packets = One, !.link = Kite, !.threads = {t1}, !.forget = 1],
     [Plain EXCEPT !.link = Line, !.threads = {t1}, !.ring = TRUE, !.retries = 1,
                   !.rreq = 2, !.packets = One, !.ack = 2, !.retransmit = 1]}

Faultless == {Plain}
=============================================================================
