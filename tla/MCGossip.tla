------------------------------ MODULE MCGossip ------------------------------
(* Instances of Gossip: which one a behaviour shows is chosen at first. *)
EXTENDS Gossip

CONSTANTS a, b, c, d, x, y, t1, t2

Both(pairs) == pairs \cup {<<p[2], p[1]>> : p \in pairs}
Pair == Both({<<a, b>>})
LineABC == Both({<<a, b>>, <<b, c>>})
Triangle == LineABC \cup Both({<<a, c>>})
OneWay == {<<a, b>>, <<b, c>>, <<a, c>>}

ABC == {a, b, c}
Nothing == [n \in ABC |-> {}]
NoPackets == [n \in ABC |-> <<>>]
From(n, to) == [NoPackets EXCEPT ![n] = to]

\* NHDP alone: a chooses its MPRs periodically, b and c when something changes.
Hellos == [node |-> ABC, radio |-> LineABC, two |-> Nothing, faults |-> 1,
           mode |-> [n \in ABC |-> IF n = a THEN "periodic" ELSE "event"],
           g |-> 11, sure |-> TRUE, plan |-> NoPackets, threads |-> {t1}, forwarder |-> {}]
HelloScenarios ==
    {Hellos, [Hellos EXCEPT !.radio = Pair, !.faults = 2],
     [Hellos EXCEPT !.radio = @ \cup {<<a, c>>}, !.faults = 0]}

\* A node that already knows its 2-hop neighbours x and y chooses its MPRs.
Chooser == {a, b, c, d, x, y}
MprScenarios ==
    {[Hellos EXCEPT !.node = Chooser, !.radio = {}, !.faults = 0,
                    !.mode = [n \in Chooser |-> "periodic"],
                    !.two = [n \in Chooser |-> IF n = a THEN S ELSE {}],
                    !.plan = [n \in Chooser |-> <<>>]] :
        S \in SUBSET ({b, c, d} \X {x, y})}

\* A packet that may come before, while or after its relay is chosen as MPR
RelayScenarios == {[Hellos EXCEPT !.faults = 0, !.plan = From(a, <<All>>)]}

\* Packets without NHDP
Packets == [Hellos EXCEPT !.g = 0, !.faults = 0, !.plan = From(a, <<All, All>>)]
Listening == [Packets EXCEPT !.sure = FALSE, !.radio = Triangle, !.plan = From(a, <<All>>)]
PacketScenarios ==
    {[Packets EXCEPT !.g = v] : v \in {0, 1, 3, 14}}
    \cup {[Listening EXCEPT !.g = v] : v \in {1, 6, 7, 10}}
    \cup {[Listening EXCEPT !.g = v, !.threads = {t1, t2}] : v \in {3, 14}}
    \cup {[Packets EXCEPT !.g = 12, !.forwarder = {b}, !.faults = 1, !.plan = From(a, <<All, c>>)],
          [Packets EXCEPT !.threads = {t1, t2}, !.radio = OneWay],
          [Packets EXCEPT !.radio = OneWay, !.plan = From(a, <<All, All, All>>)]}

AllScenarios == HelloScenarios \cup MprScenarios \cup RelayScenarios \cup PacketScenarios
=============================================================================
