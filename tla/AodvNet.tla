------------------------------ MODULE AodvNet ------------------------------
(***************************************************************************)
(* A mesh of des-aodv nodes that discover routes: RREQs flood the network, *)
(* RREPs travel back along the reverse routes, RERRs report broken links.  *)
(* Every node keeps a routing database (AodvTable) and a sequence number.  *)
(* The network may lose, delay, reorder and duplicate: a message that was  *)
(* sent stays in msgs, may be received any number of times and need not be *)
(* received at all.  A node has one mesh interface, so that hosts and      *)
(* interfaces have the same addresses.  A handler is one step here: how    *)
(* its critical sections interleave with other threads is the matter of    *)
(* AodvRt.                                                                 *)
(***************************************************************************)
EXTENDS AodvTable

CONSTANTS
    DestOnly,    \* dest_only
    HopCount,    \* metric_type is AODV_METRIC_HOP_COUNT, else _RFC
    MaxSeq,      \* bound: the sequence number that no node passes
    MaxLosses,   \* bound: neighbours that are lost
    MaxRestarts, \* bound: restarts of the daemon
    MaxLeases,   \* bound: routes whose lease ends
    Scenarios    \* the networks and bounds to explore

Node == Dest
UINT32_MAX == SeqMod - 1

ASSUME NetAssumption ==
    /\ Hop = Node
    /\ DestOnly \in BOOLEAN /\ HopCount \in BOOLEAN
    /\ MoreIsBetter = FALSE
    /\ MaxSeq \in Nat /\ MaxSeq < HalfRange
    /\ MaxLosses \in Nat /\ MaxRestarts \in Nat /\ MaxLeases \in Nat

\* link: the pairs of nodes in radio range; request (bound): the pairs
\* <<originator, dest>> that need a route; ttl (bound): the TTLs of their RREQs;
\* last (bound): the number a node stops at; faults (bound): losses, restarts and
\* ended leases together.
Scenario ==
    [link : SUBSET {l \in Node \X Node : l[1] # l[2]},
     request : SUBSET {r \in Node \X Node : r[1] # r[2]},
     ttl : SUBSET (1..255), last : [Node -> 0..MaxSeq], faults : Nat]

ASSUME ScenarioAssumption == Scenarios \subseteq Scenario

VARIABLES
    world,      \* the scenario, which never changes
    table,      \* the routing database of each node
    seq_num,    \* seq_num_global of each node
    neighbours, \* the bidirectional neighbours of each node
    msgs,       \* every message that was ever sent
    budget      \* losses, restarts and ended leases that are left

vars == <<world, table, seq_num, neighbours, msgs, budget>>

Init ==
    /\ world \in Scenarios
    /\ table = [n \in Node |-> EmptyTable]
    /\ seq_num = [n \in Node |-> 0]
    /\ neighbours = [n \in Node |-> {h \in Node : <<h, n>> \in world.link}]
    /\ msgs = {}
    /\ budget = [loss |-> MaxLosses, restart |-> MaxRestarts,
                 lease |-> MaxLeases]

\* aodv_metric_do for the metrics that need no measurement.
Metric(metric) == IF HopCount THEN metric + 1 ELSE metric

Known(n, d) == table[n].rt[d].known
Seq(n, d) == IF Known(n, d) THEN table[n].rt[d].seq ELSE 0

-----------------------------------------------------------------------------
(* Discovery. *)

Rreq(o, d, n, seq, dseq, asked, ttl, metric) ==
    [type |-> "rreq", orig |-> o, dest |-> d, from |-> n, seq |-> seq,
     dseq |-> dseq, asked |-> asked, ttl |-> ttl, metric |-> metric]

\* d route_dest, o route_source, n the sender, h rrep_next_hop.
Rrep(d, o, n, h, seq, metric) ==
    [type |-> "rrep", dest |-> d, orig |-> o, from |-> n, to |-> h,
     seq |-> seq, metric |-> metric]

\* orig created the RERR, n sends it, list holds pairs <<host, seq>>.
Rerr(orig, n, list) ==
    [type |-> "rerr", orig |-> orig, from |-> n, list |-> list]

\* aodv_send_rreq: the first RREQ of a series.  asked is the negated flag
\* AODV_FLAGS_RREQ_U: the RREQ names the sequence number we last knew, or 0.
SendRreq(o, d, ttl) ==
    /\ seq_num[o] < world.last[o]
    /\ seq_num' = [seq_num EXCEPT ![o] = @ + 1]
    /\ msgs' = msgs \cup
          {Rreq(o, d, o, seq_num[o] + 1, Seq(o, d), Known(o, d), ttl, 0)}
    /\ UNCHANGED <<table, neighbours, budget>>

\* aodv_send_rreq_repeat: the same message with a new sequence number.
RepeatRreq(m, ttl) ==
    /\ m.type = "rreq" /\ m.from = m.orig
    /\ seq_num[m.orig] < world.last[m.orig]
    /\ seq_num' = [seq_num EXCEPT ![m.orig] = @ + 1]
    /\ msgs' = msgs \cup
          {Rreq(m.orig, m.dest, m.orig, seq_num[m.orig] + 1, m.dseq, m.asked,
                ttl, 0)}
    /\ UNCHANGED <<table, neighbours, budget>>

\* Mutant: a destination that restarted does not adopt the number it is asked for.
AnswerSeqOwn(own, m, result) == IF result = "metric_hit" THEN own + 1 ELSE own

\* What the destination makes of its own sequence number (RFC 6.6.1).
AnswerSeq(own, m, result) ==
    LET bumped == IF result = "metric_hit" THEN own + 1 ELSE own
    IN  IF m.asked /\ Comp(m.dseq, bumped) > 0 THEN m.dseq ELSE bumped

\* An intermediate node answers unless the RREQ asks for a newer route.
MayRepair(n, m, T) ==
    /\ ~DestOnly
    /\ T.rt[m.dest].known
    /\ ~(m.asked /\ Comp(m.dseq, T.rt[m.dest].seq) > 0)

\* Mutants: the TTL is not looked at; the repairing node bumps the number.
AnswerPastTtl(n, m, ttl, metric, T) ==
    IF MayRepair(n, m, T)
    THEN {Rrep(m.dest, m.orig, n, m.from, T.rt[m.dest].seq,
               T.rt[m.dest].metric)}
    ELSE {Rreq(m.orig, m.dest, n, m.seq, m.dseq, m.asked, ttl, metric)}
AnswerBumped(n, m, ttl, metric, T) ==
    IF MayRepair(n, m, T)
    THEN {Rrep(m.dest, m.orig, n, m.from, T.rt[m.dest].seq + 1,
               T.rt[m.dest].metric)}
    ELSE IF ttl = 0 THEN {}
    ELSE {Rreq(m.orig, m.dest, n, m.seq, m.dseq, m.asked, ttl, metric)}

\* What n sends in answer to the RREQ m that left it with table T.
Answer(n, m, ttl, metric, T) ==
    IF MayRepair(n, m, T)
    THEN {Rrep(m.dest, m.orig, n, m.from, T.rt[m.dest].seq,
               T.rt[m.dest].metric)}
    ELSE IF ttl = 0 THEN {}
    ELSE {Rreq(m.orig, m.dest, n, m.seq, m.dseq, m.asked, ttl, metric)}

\* Mutant: no reverse route is installed.
HandleRreqNoReverse(n, m) ==
    LET metric == Metric(m.metric)
        F      == FindOrCreate(FindOrCreate(table[n], m.dest), m.orig)
        result == CaptRreqResult(F.rt[m.orig], m.seq, metric)
        T      == CaptRreq(table[n], m.dest, m.orig, m.from, m.seq, metric)
        answer == AnswerSeq(seq_num[n], m, result)
    IN
    /\ m.type = "rreq" /\ n # m.orig
    /\ m.from \in neighbours[n] /\ metric <= MaxMetric
    /\ table' = [table EXCEPT ![n] = T]
    /\ IF result = "old" THEN UNCHANGED <<seq_num, msgs>>
       ELSE IF n = m.dest
       THEN /\ answer <= world.last[n]
            /\ seq_num' = [seq_num EXCEPT ![n] = answer]
            /\ msgs' = msgs \cup {Rrep(n, m.orig, n, m.from, answer, 0)}
       ELSE /\ msgs' = msgs \cup Answer(n, m, m.ttl - 1, metric, T)
            /\ UNCHANGED seq_num
    /\ UNCHANGED <<neighbours, budget>>

\* aodv_handle_rreq: capture the RREQ, then as a RREP with the sequence number
\* 0 /* force */, then answer it or pass it on.
HandleRreq(n, m) ==
    LET metric == Metric(m.metric)
        F      == FindOrCreate(FindOrCreate(table[n], m.dest), m.orig)
        result == CaptRreqResult(F.rt[m.orig], m.seq, metric)
        T      == CaptRreq(table[n], m.dest, m.orig, m.from, m.seq, metric)
        U      == CaptRrep(T, m.orig, m.from, 0, metric)
        answer == AnswerSeq(seq_num[n], m, result)
    IN
    /\ m.type = "rreq" /\ n # m.orig
    /\ m.from \in neighbours[n] /\ metric <= MaxMetric
    /\ IF result = "old"
       THEN /\ table' = [table EXCEPT ![n] = T]
            /\ UNCHANGED <<seq_num, msgs>>
       ELSE /\ table' = [table EXCEPT ![n] = U]
            /\ IF n = m.dest
               THEN /\ answer <= world.last[n]
                    /\ seq_num' = [seq_num EXCEPT ![n] = answer]
                    /\ msgs' = msgs \cup
                          {Rrep(n, m.orig, n, m.from, answer, 0)}
               ELSE /\ msgs' = msgs \cup Answer(n, m, m.ttl - 1, metric, U)
                    /\ UNCHANGED seq_num
    /\ UNCHANGED <<neighbours, budget>>

\* Mutant: only the originator captures the route.
HandleRrepUncaptured(n, m) ==
    LET metric == Metric(m.metric) IN
    /\ m.type = "rrep" /\ m.to = n /\ n # m.dest
    /\ m.from \in neighbours[n] /\ metric <= MaxMetric
    /\ IF n = m.orig
       THEN /\ table' = [table EXCEPT
                           ![n] = CaptRrep(@, m.dest, m.from, m.seq, metric)]
            /\ UNCHANGED msgs
       ELSE /\ Usable(table[n], m.orig)
            /\ msgs' = msgs \cup {Rrep(m.dest, m.orig, n,
                                       table[n].rt[m.orig].hop, m.seq, metric)}
            /\ UNCHANGED table
    /\ UNCHANGED <<seq_num, neighbours, budget>>

\* aodv_handle_rrep: capture the route and pass the RREP on along the reverse
\* route.
HandleRrep(n, m) ==
    LET metric == Metric(m.metric)
        F      == FindOrCreate(table[n], m.dest)
        used   == CaptRrepUsed(F.rt[m.dest], m.seq)
        T      == CaptRrep(table[n], m.dest, m.from, m.seq, metric)
        back   == used /\ n # m.orig /\ Usable(T, m.orig)
    IN
    /\ m.type = "rrep" /\ m.to = n /\ n # m.dest
    /\ m.from \in neighbours[n] /\ metric <= MaxMetric
    /\ table' = [table EXCEPT ![n] = IF back THEN Refresh(T, m.orig) ELSE T]
    /\ msgs' = IF back
               THEN msgs \cup {Rrep(m.dest, m.orig, n, T.rt[m.orig].hop,
                                    m.seq, metric)}
               ELSE msgs
    /\ UNCHANGED <<seq_num, neighbours, budget>>

-----------------------------------------------------------------------------
(* Broken links, and the end of leases and of daemons. *)

FaultsLeft ==
    (MaxLosses - budget.loss) + (MaxRestarts - budget.restart)
        + (MaxLeases - budget.lease) < world.faults

\* h leaves the neighbour table of n, the scheduled AODV_SC_SEND_OUT_RERR
\* invalidates the routes over it and reports them.  (What a dangling pointer
\* in its destination list does is in AodvRt.)
LoseNeighbour(n, h) ==
    LET lost == DestList(table[n], h) IN
    /\ FaultsLeft /\ budget.loss > 0 /\ h \in neighbours[n]
    /\ \A d \in Dest : <<h, d>> \notin table[n].stale
    /\ budget' = [budget EXCEPT !.loss = @ - 1]
    /\ neighbours' = [neighbours EXCEPT ![n] = @ \ {h}]
    /\ table' = [table EXCEPT ![n] = Invalidate(@, lost)]
    /\ msgs' = IF lost = {} THEN msgs
               ELSE msgs \cup
                      {Rerr(n, n, {<<d, table[n].rt[d].seq>> : d \in lost})}
    /\ UNCHANGED seq_num

\* The schedule finds RERR_RATELIMIT reached and does nothing at all.
LoseNeighbourUnreported(n, h) ==
    /\ FaultsLeft /\ budget.loss > 0 /\ h \in neighbours[n]
    /\ budget' = [budget EXCEPT !.loss = @ - 1]
    /\ neighbours' = [neighbours EXCEPT ![n] = @ \ {h}]
    /\ UNCHANGED <<table, seq_num, msgs>>

\* The hellos of h come through again.
HearHello(n, h) ==
    /\ <<h, n>> \in world.link /\ h \notin neighbours[n]
    /\ neighbours' = [neighbours EXCEPT ![n] = @ \cup {h}]
    /\ UNCHANGED <<table, seq_num, msgs, budget>>

\* aodv_forward at n for a packet to d that h sent here: there is no route.
DataUndeliverable(n, h, d) ==
    /\ n # d /\ h # d /\ <<h, n>> \in world.link
    /\ Usable(table[h], d) /\ table[h].rt[d].hop = n
    /\ ~Usable(table[n], d)
    /\ msgs' = msgs \cup {Rerr(n, n, {<<d, UINT32_MAX>>})}
    /\ UNCHANGED <<table, seq_num, neighbours, budget>>

\* The destinations of the RERR m that n reaches over its sender.
Affected(n, m) ==
    {e \in m.list : Known(n, e[1]) /\ table[n].rt[e[1]].hop = m.from}

\* aodv_handle_rerr: invalidate the affected routes and pass the RERR on.
HandleRerr(n, m) ==
    LET inv == {e[1] : e \in {a \in Affected(n, m) :
                                 MarkRouteInvApplies(table[n], a[1], a[2])}}
    IN
    /\ m.type = "rerr" /\ n # m.orig /\ <<m.from, n>> \in world.link
    /\ table' = [table EXCEPT ![n] = Invalidate(@, inv)]
    /\ msgs' = IF inv = {} THEN msgs
               ELSE msgs \cup {Rerr(m.orig, n, m.list)}
    /\ UNCHANGED <<seq_num, neighbours, budget>>

\* The lease of the route to d ends and the cleanup purges it.
RouteExpires(n, d) ==
    /\ FaultsLeft /\ budget.lease > 0 /\ table[n].rt[d].live
    /\ budget' = [budget EXCEPT !.lease = @ - 1]
    /\ table' = [table EXCEPT ![n] = Purge([@ EXCEPT !.due = {d}])]
    /\ UNCHANGED <<seq_num, neighbours, msgs>>

\* The daemon starts anew: nothing it knew is stored.
Restart(n) ==
    /\ FaultsLeft /\ budget.restart > 0
    /\ budget' = [budget EXCEPT !.restart = @ - 1]
    /\ table' = [table EXCEPT ![n] = EmptyTable]
    /\ seq_num' = [seq_num EXCEPT ![n] = 0]
    /\ neighbours' = [neighbours EXCEPT ![n] = {}]
    /\ UNCHANGED msgs

Receive(n) ==
    \E m \in msgs : HandleRreq(n, m) \/ HandleRrep(n, m) \/ HandleRerr(n, m)

NetStep ==
    \/ \E r \in world.request, ttl \in world.ttl : SendRreq(r[1], r[2], ttl)
    \/ \E m \in msgs, ttl \in world.ttl : RepeatRreq(m, ttl)
    \/ \E n \in Node : Receive(n) \/ Restart(n)
    \/ \E n, h \in Node : \/ LoseNeighbour(n, h)
                         \/ LoseNeighbourUnreported(n, h)
                         \/ HearHello(n, h)
    \/ \E n, h, d \in Node : DataUndeliverable(n, h, d)
    \/ \E n, d \in Node : RouteExpires(n, d)

Next == NetStep /\ UNCHANGED world

Spec == Init /\ [][Next]_vars

-----------------------------------------------------------------------------
(* Properties. *)

Message ==
    [type : {"rreq"}, orig : Node, dest : Node, from : Node, seq : SeqNum,
     dseq : SeqNum, asked : BOOLEAN, ttl : 1..255, metric : 0..MaxMetric]
    \cup [type : {"rrep"}, dest : Node, orig : Node, from : Node, to : Node,
          seq : SeqNum, metric : 0..MaxMetric]
    \cup [type : {"rerr"}, orig : Node, from : Node,
          list : SUBSET (Node \X SeqNum)]

TypeOK ==
    /\ table \in [Node -> Table]
    /\ seq_num \in [Node -> 0..MaxSeq]
    /\ neighbours \in [Node -> SUBSET Node]
    /\ \A m \in msgs : m \in Message
    /\ budget \in [loss : 0..MaxLosses, restart : 0..MaxRestarts,
                   lease : 0..MaxLeases]

NoRestart == budget.restart = MaxRestarts
NothingForgotten == NoRestart /\ budget.lease = MaxLeases

\* As long as no daemon restarts, no table and no message holds a sequence
\* number of a host that the host has not reached: nobody invents one, and
\* no destination ever has to adopt a number from a RREQ (RFC 6.6.1).
SeqBound ==
    NoRestart =>
    /\ \A n, d \in Node : n # d => table[n].rt[d].seq <= seq_num[d]
    /\ \A m \in msgs :
          /\ m.type = "rreq" => m.seq <= seq_num[m.orig]
                               /\ m.dseq <= seq_num[m.dest]
          /\ m.type = "rrep" => m.seq <= seq_num[m.dest]

\* Until a lease ends or a daemon restarts, the next hop of a route is its
\* destination or has a next hop itself: no RREQ or RREP, in whatever order it
\* is received, leads a route to a node that never heard of the destination.
NextHopKnows ==
    NothingForgotten =>
    \A n, d \in Node : Known(n, d) =>
        table[n].rt[d].hop = d \/ Known(table[n].rt[d].hop, d)

\* Likewise every RREP on its way is addressed to the originator of the RREQ
\* or to a node that knows a next hop to it.
RrepFindsReverse ==
    NothingForgotten =>
    \A m \in msgs : m.type = "rrep" => m.to = m.orig \/ Known(m.to, m.orig)

\* An answer to a RREQ that names a sequence number is never older than that
\* number, whoever answers and whatever a restart has made the
\* node forget: the originator can tell the new route from the one it lost.
AnswersAreFresh ==
    [][\A n \in Node, m \in msgs :
          HandleRreq(n, m) /\ m.asked =>
              \A k \in msgs' \ msgs :
                  k.type = "rrep" => Comp(k.seq, m.dseq) >= 0]_vars
=============================================================================
