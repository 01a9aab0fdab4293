-------------------------------- MODULE Lsr --------------------------------
(***************************************************************************)
(* A mesh of des-lsr nodes (branch sfriesel).  Every node floods whom it   *)
(* hears in TCs; TCs that came over one hop are hellos.  Each critical     *)
(* section of the database lock is a step of its own, between which the    *)
(* periodic thread may rebuild the routes.  Nothing ages: age_neighbors    *)
(* and age_nodes are not registered by main.                               *)
(***************************************************************************)
EXTENDS LsrSeq, SequencesExt, FiniteSets

CONSTANTS
    Node,
    InRange,  \* <<n, m>>: n hears m
    Infinite, \* INFINITE_WEIGHT, the largest weight there is
    Orders,   \* bound: the nodes that run for a while, in the order of the hash
    MaxHellos, \* bound: the TCs with a TTL of 1 that are sent
    MaxFloods, \* bound: others are sent as long as fewer were
    Speaker,  \* bound: the nodes that send TCs
    Router    \* bound: the nodes whose neighbours end and routes are rebuilt

ASSUME LsrAssumption ==
    /\ IsFiniteSet(Node) /\ InRange \subseteq Node \X Node
    /\ Infinite \in Nat /\ Infinite > Cardinality(Node) + 1 /\ {MaxHellos, MaxFloods} \subseteq Nat
    /\ Speaker \subseteq Node /\ Router \subseteq Node
    /\ \A o \in Orders : o \in Seq(Node) /\ IsInjective(o)

VARIABLES
    known,  \* node_set of each node, in the order of the hash
    edges,  \* neighbors of the nodes in node_set
    nt,     \* nodes of the neighbour table: "none", "fresh" or "stale"
    route,  \* next_hop and weight of the nodes, as rt_regenerate left them
    seen,   \* windows of the broadcast sequence numbers, of each sender
    thread, \* the TC the receiving thread of each node works on
    air,    \* the TCs that may be heard
    sent    \* broadcast_seq_nr of each node

vars == <<known, edges, nt, route, seen, thread, air, sent>>

Idle == [pc |-> "idle"]
NoRoute == [hop |-> {}, weight |-> Infinite]

\* The nodes of old run for a while: they have heard each other and what is
\* flooded, a first TC of each with nothing in it, and two with its neighbours.
\* The last may still be heard, from it or from one that has sent it on.
OldEdge(old, l, m) == {l, m} \subseteq old /\ <<l, m>> \in InRange
LastTc(old, m, from) ==
    [orig |-> m, from |-> from, seq |-> 3, hops |-> IF from = m THEN 1 ELSE 2,
     hello |-> FALSE, list |-> {k \in Node : OldEdge(old, m, k)}]

\* The first number came before the sender was known, and was not remembered.
Start(order, old) ==
    /\ known = [n \in Node |-> IF n \in old THEN order ELSE <<>>]
    /\ edges = [n \in Node |-> {l \in Node \X Node : /\ OldEdge(old, l[1], l[2])
                                                     /\ n \in old \ {l[1]}}]
    /\ nt = [n \in Node |-> [m \in Node |->
                 IF OldEdge(old, n, m) THEN "fresh" ELSE "none"]]
    /\ route = [n \in Node |-> [m \in Node |-> NoRoute]]
    /\ seen = [n \in Node |-> [m \in Node |->
                 IF {n, m} \subseteq old /\ n # m THEN See(See(NewWindow, 2), 3)
                 ELSE NewWindow]]
    /\ thread = [n \in Node |-> Idle]
    /\ air = {LastTc(old, m, n) : m, n \in old}
    /\ sent = [n \in Node |-> IF n \in old THEN 3 ELSE 0]

Init == \E order \in Orders : Start(order, ToSet(order))

\* lsr_tc_get_or_create_node
Create(ks, m) == IF Contains(ks, m) THEN ks ELSE Append(ks, m)

-----------------------------------------------------------------------------
(* lsr_tc_dijkstra, of the tables of node n.                               *)

\* lsr_nt_set_neighbor_weights: all neighbours in the table, stale ones too,
\* with DEFAULT_WEIGHT.
Direct(n) ==
    [m \in Node |-> IF nt[n][m] # "none" THEN [hop |-> {m}, weight |-> 1] ELSE NoRoute]

\* priority_queue_poll: the lightest node; of equal ones the queue, to which
\* nodes are prepended, gives the one that was created last.
Poll(r, queue) ==
    CHOOSE k \in queue :
       \A j \in queue :
          \/ r[k.node].weight < r[j.node].weight
          \/ r[k.node].weight = r[j.node].weight /\ j.pos <= k.pos

\* Mutant: a longer way replaces a shorter one.
RelaxLonger(r, m, out) ==
    LET dist == (r[m].weight + 1) % (Infinite + 1) IN
    [k \in Node |-> IF k \in out THEN [hop |-> r[m].hop, weight |-> dist] ELSE r[k]]

\* One round: the edges of the polled node.  dist has 32 bits.
Relax(r, m, out) ==
    LET dist == (r[m].weight + 1) % (Infinite + 1) IN
    [k \in Node |-> IF k \in out /\ r[k].weight > dist
                    THEN [hop |-> r[m].hop, weight |-> dist] ELSE r[k]]

\* One turn of the loop: the lightest node leaves the queue.
Round(n, s) ==
    LET p == Poll(s.r, s.queue)
    IN  [r |-> Relax(s.r, p.node, {e[2] : e \in {f \in edges[n] : f[1] = p.node}}),
         queue |-> s.queue \ {p}]

\* The queue at first: the nodes with their places in node_set.
Queue(n) == {[pos |-> k, node |-> known[n][k]] : k \in DOMAIN known[n]}

Dijkstra(n) ==
    LET state[k \in 0 .. Cardinality(Queue(n))] ==
           IF k = 0 THEN [r |-> Direct(n), queue |-> Queue(n)]
           ELSE Round(n, state[k - 1])
    IN  state[Cardinality(Queue(n))].r

\* lsr_periodic_regenerate_rt
Regenerate(n) ==
    /\ route' = [route EXCEPT ![n] = Dijkstra(n)]
    /\ UNCHANGED <<known, edges, nt, seen, thread, air, sent>>

-----------------------------------------------------------------------------

\* The TCs that were sent so far.
Sent == {tc \in air : tc.from = tc.orig}

\* _lsr_periodic_send_tc_with_ttl: a hello has a TTL of 1.  Neighbours whose
\* lifetime is over are left out (lsr_nt_dump_neighbor_table).
SendTc(n, hello) ==
    /\ Cardinality({tc \in Sent : tc.hello = hello})
          < IF hello THEN MaxHellos ELSE MaxFloods
    /\ sent' = [sent EXCEPT ![n] = @ + 1]
    /\ air' = air \cup {[orig |-> n, from |-> n, seq |-> sent'[n], hops |-> 1,
                         hello |-> hello, list |-> {m \in Node : nt[n][m] = "fresh"}]}
    /\ UNCHANGED <<known, edges, nt, route, seen, thread>>

\* lsr_process_ttl and lsr_drop_errors.  The number of a node that is not yet
\* known passes and is not remembered.
ReceiveTc(n, tc) ==
    /\ thread[n] = Idle
    /\ <<n, tc.from>> \in InRange /\ tc.orig # n
    /\ IsUnseen(seen[n][tc.orig], tc.seq)
    /\ seen' = IF Contains(known[n], tc.orig)
               THEN [seen EXCEPT ![n][tc.orig] = See(@, tc.seq)] ELSE seen
    /\ thread' = [thread EXCEPT ![n] =
                    [pc |-> IF tc.hops = 1 THEN "neighbor" ELSE "node",
                     tc |-> tc, list |-> tc.list]]
    /\ UNCHANGED <<known, edges, nt, route, air, sent>>

\* lsr_process_tc, first lock: lsr_db_nt_update
UpdateNeighbor(n) ==
    LET t == thread[n] IN
    /\ t.pc = "neighbor"
    /\ known' = [known EXCEPT ![n] = Create(@, t.tc.orig)]
    /\ nt' = [nt EXCEPT ![n][t.tc.orig] = "fresh"]
    /\ thread' = [thread EXCEPT ![n].pc = "node"]
    /\ UNCHANGED <<edges, route, seen, air, sent>>

\* second lock: lsr_db_tc_update
UpdateNode(n) ==
    LET t == thread[n] IN
    /\ t.pc = "node"
    /\ known' = [known EXCEPT ![n] = Create(@, t.tc.orig)]
    /\ thread' = [thread EXCEPT ![n].pc = "edges"]
    /\ UNCHANGED <<edges, nt, route, seen, air, sent>>

\* a lock for each element: lsr_db_tc_neighbor_update
UpdateEdge(n, m) ==
    LET t == thread[n] IN
    /\ t.pc = "edges" /\ m \in t.list
    /\ known' = [known EXCEPT ![n] = Create(Create(@, t.tc.orig), m)]
    /\ edges' = [edges EXCEPT ![n] = @ \cup {<<t.tc.orig, m>>}]
    /\ thread' = [thread EXCEPT ![n].list = @ \ {m}]
    /\ UNCHANGED <<nt, route, seen, air, sent>>

\* lsr_send_randomized
Resend(n) ==
    LET t == thread[n] IN
    /\ t.pc = "edges" /\ t.list = {}
    /\ air' = IF t.tc.hello THEN air
              ELSE air \cup {[t.tc EXCEPT !.from = n, !.hops = 2]}
    /\ thread' = [thread EXCEPT ![n] = Idle]
    /\ UNCHANGED <<known, edges, nt, route, seen, sent>>

\* The lifetime of an entry ends; the entry stays.
LifetimeEnds(n, m) ==
    /\ nt[n][m] = "fresh"
    /\ nt' = [nt EXCEPT ![n][m] = "stale"]
    /\ UNCHANGED <<known, edges, route, seen, thread, air, sent>>

Next ==
    \E n \in Node :
       \/ n \in Router /\ (Regenerate(n) \/ \E m \in Node : LifetimeEnds(n, m))
       \/ n \in Speaker /\ \E hello \in BOOLEAN : SendTc(n, hello)
       \/ \E tc \in air : ReceiveTc(n, tc)
       \/ UpdateNeighbor(n) \/ UpdateNode(n) \/ Resend(n)
       \/ \E m \in Node : UpdateEdge(n, m)

Spec == Init /\ [][Next]_vars

-----------------------------------------------------------------------------
(* Properties. *)

LastSeq == 3 + MaxHellos + MaxFloods

Tc == [orig : Node, from : Node, seq : 1 .. LastSeq, hops : {1, 2},
       hello : BOOLEAN, list : SUBSET Node]

TypeOK ==
    /\ \A n \in Node : IsInjective(known[n]) /\ Range(known[n]) \subseteq Node
    /\ edges \in [Node -> SUBSET (Node \X Node)]
    /\ nt \in [Node -> [Node -> {"none", "fresh", "stale"}]]
    /\ route \in [Node -> [Node -> [hop : SUBSET Node, weight : 0 .. Infinite]]]
    /\ seen \in [Node -> [Node -> Window(LastSeq)]]
    /\ air \subseteq Tc
    /\ sent \in [Node -> 0 .. LastSeq]

Neighbours(n) == {m \in Node : nt[n][m] # "none"}

\* The nodes in S and those one edge further.
Further(n, S) == S \cup {m \in Node : \E l \in S : <<l, m>> \in edges[n]}

\* Length of the shortest path from n over what n knows; Infinite if none.
Distance(n) ==
    LET near[k \in 1 .. Cardinality(Node) + 1] ==
           IF k = 1 THEN Neighbours(n) ELSE Further(n, near[k - 1])
    IN  [m \in Node |->
           IF m \in near[Cardinality(Node) + 1]
           THEN CHOOSE k \in DOMAIN near :
                   m \in near[k] /\ \A j \in DOMAIN near : m \in near[j] => k <= j
           ELSE Infinite]

\* The route that rt_regenerate finds over the tables at any time, also in
\* the middle of a TC, is a shortest one and starts at a neighbour; and a node
\* finds one to all that it can reach, unless it knows of one it cannot.
RoutesShortest ==
    \A n \in Router :
       LET r == Dijkstra(n)
           dist == Distance(n)
       IN  /\ \A m \in Node : r[m].hop # {} =>
                 /\ r[m].weight = dist[m]
                 /\ \A h \in r[m].hop : nt[n][h] # "none"
           /\ (\A m \in ToSet(known[n]) : dist[m] < Infinite)
              => \A m \in ToSet(known[n]) : r[m].hop # {}
=============================================================================
