-------------------------------- MODULE Dsr --------------------------------
(***************************************************************************)
(* A mesh of des-dsr nodes (build des-dsr-hc: hop count, path cache with   *)
(* one path per destination) that acknowledge on the network layer and not *)
(* passively.  RREQs collect the route they took, the target sends it back *)
(* in a REPL, packets carry it, and a packet whose next hop does not       *)
(* acknowledge it makes its node report the link in a RERR.                *)
(*                                                                         *)
(* Each table has its own lock, so that a handler is a sequence of steps:  *)
(* jobs holds what the threads in the middle of a handler still have to    *)
(* do.  A message that was sent stays in msgs: it may be lost, delayed,    *)
(* reordered and duplicated.                                               *)
(***************************************************************************)
EXTENDS Integers, FiniteSets, SequencesExt

CONSTANTS
    Node,
    Packet,     \* bound: packets of the hosts, <<source, destination, k>>
    Thread,     \* the threads of the daemons
    Scenarios   \* the networks, settings and bounds to explore

\* link holds the pairs <<n, m>> where m can hear n; ring, retries and
\* retransmit are settings of the daemons; the other fields bound the handlers
\* in progress at the same time, the packets, the RREQs and ACK requests of one
\* run of a daemon, the entries of RREQ tables that time out, and the restarts
\* by hand.
Scenario ==
    [link : SUBSET (Node \X Node), ring : BOOLEAN, retries : Nat, retransmit : Nat,
     threads : SUBSET Thread, packets : SUBSET Packet,
     rreq : Nat, ack : Nat, forget : Nat, restart : Nat]

ASSUME DsrAssumption ==
    /\ \A p \in Packet : p[1] \in Node /\ p[2] \in Node /\ p[1] # p[2]
    /\ Scenarios \subseteq Scenario
    /\ \A s \in Scenarios : \A l \in s.link : l[1] # l[2]

VARIABLES
    world,    \* the scenario, which never changes
    cache,    \* routecache: the path to each destination, or <<>>
    reqs,     \* rreqtable: rreqs_since_repl for each destination, or NoEntry
    seen,     \* rreqcache: the RREQs a node has sent on
    sendbuf,  \* sendbuffer: the packets that wait for a route, in any order
    maint,    \* maintenance buffer: the messages that wait for an ACK
    black,    \* blacklist: the neighbours that are PROBABLE
    nextId,   \* the next identification of a RREQ and of an ACK request
    jobs,     \* the rest of each handler in progress
    msgs,     \* every message that was ever sent
    fate,     \* history: what became of each packet
    broken,   \* history: a link was given up
    aborted,  \* history: nodes whose daemon ended by an assertion
    budget

tables == <<cache, reqs, seen, sendbuf, maint, black>>
history == <<fate, broken, aborted>>
vars == <<world, tables, nextId, jobs, msgs, history, budget>>

NoEntry == -1
Idle == [do |-> "idle"]
Job(n, what, arg) == [at |-> n, do |-> what, arg |-> arg]

Init ==
    /\ world \in Scenarios
    /\ cache = [n \in Node |-> [d \in Node |-> <<>>]]
    /\ reqs = [n \in Node |-> [d \in Node |-> NoEntry]]
    /\ seen = [n \in Node |-> {}]
    /\ sendbuf = [n \in Node |-> {}]
    /\ maint = [n \in Node |-> {}]
    /\ black = [n \in Node |-> {}]
    /\ nextId = [n \in Node |-> [rreq |-> 0, ack |-> 1]]
    /\ jobs = [t \in world.threads |-> Idle]
    /\ msgs = {}
    /\ fate = [p \in world.packets |-> "host"]
    /\ broken = FALSE
    /\ aborted = {}
    /\ budget = [forget |-> world.forget, restart |-> world.restart]

-----------------------------------------------------------------------------
(* Messages. *)

Rreq(id, route, target, ttl) ==
    [type |-> "rreq", id |-> id, route |-> route, target |-> target, ttl |-> ttl]

\* A message with a SOURCE extension on its way to route[to].  body is what it
\* carries, ack the identification of its ACKREQ extension or 0.
Routed(kind, load, route, to, ack) ==
    [type |-> "routed", kind |-> kind, load |-> load, route |-> route,
     to |-> to, ack |-> ack]

Ack(n, h, id) == [type |-> "ack", from |-> n, to |-> h, id |-> id]

NextHop(m) == m.route[m.to]
Sender(m) == m.route[m.to - 1]
IsLast(m) == m.to = Len(m.route)

HasLink(route, u, v) ==
    \E i \in 1 .. Len(route) - 1 : route[i] = u /\ route[i + 1] = v

\* ackreq_meshrx_cb
Acks(n, m) ==
    IF m.ack # 0 /\ NextHop(m) = n THEN {Ack(n, Sender(m), m.ack)} ELSE {}

\* An element of the maintenance buffer: count retransmissions, -1 for a
\* message that is not yet sent; own when this node originates it.
Element(m, count, own) == [msg |-> m, count |-> count, own |-> own]

\* dsr_msg_send_with_route_maintenance
Maintain(n, kind, load, route, to, own, acks) ==
    /\ nextId[n].ack <= world.ack
    /\ nextId' = [nextId EXCEPT ![n].ack = @ + 1]
    /\ LET m == Routed(kind, load, route, to, nextId[n].ack) IN
       /\ maint' = [maint EXCEPT ![n] = @ \cup {Element(m, 0, own)}]
       /\ msgs' = msgs \cup {m} \cup acks

-----------------------------------------------------------------------------
(* Packets of the host: sys2dsr_cb. *)

\* A packet for a cached path leaves at once.
SendPacket(p) ==
    LET n == p[1] IN
    /\ fate[p] = "host" /\ cache[n][p[2]] # <<>>
    /\ Maintain(n, "data", p, cache[n][p[2]], 2, TRUE, {})
    /\ fate' = [fate EXCEPT ![p] = "on the way"]
    /\ UNCHANGED <<cache, reqs, seen, sendbuf, black, jobs, broken, aborted, budget>>

\* There is no path: the packet will be buffered.
MissPath(t, p) ==
    LET n == p[1] IN
    /\ jobs[t] = Idle
    /\ fate[p] = "host" /\ cache[n][p[2]] = <<>>
    /\ jobs' = [jobs EXCEPT ![t] = Job(n, "buffer", p)]
    /\ fate' = [fate EXCEPT ![p] = "on the way"]
    /\ UNCHANGED <<tables, nextId, msgs, broken, aborted, budget>>

\* dsr_sendbuffer_add
BufferPacket(t) ==
    LET j == jobs[t] IN
    /\ j.do = "buffer"
    /\ sendbuf' = [sendbuf EXCEPT ![j.at] = @ \cup {j.arg}]
    /\ jobs' = [jobs EXCEPT ![t] = Job(j.at, "discover", j.arg[2])]
    /\ UNCHANGED <<cache, reqs, seen, maint, black, nextId, msgs, history, budget>>

-----------------------------------------------------------------------------
(* Route discovery. *)

\* The TTL of the RREQ after k others: 1, 2, 4 .. 128, 255.
Ttl(k) == IF ~world.ring \/ k > 7 THEN 255 ELSE 2 ^ k

\* _is_routediscovery_ok_now finds the timeout over and tries left.
SendRreq(n, d) ==
    LET sent == IF reqs[n][d] = NoEntry THEN 0 ELSE reqs[n][d] IN
    /\ sent <= world.retries /\ nextId[n].rreq < world.rreq
    /\ reqs' = [reqs EXCEPT ![n][d] = sent + 1]
    /\ nextId' = [nextId EXCEPT ![n].rreq = @ + 1]
    /\ msgs' = msgs \cup {Rreq(nextId[n].rreq, <<n>>, d, Ttl(sent))}

\* Mutant: no RREQ when there is a path by now.
DiscoverIfNoPath(t) ==
    LET j == jobs[t] IN
    /\ j.do = "discover"
    /\ jobs' = [jobs EXCEPT ![t] = Idle]
    /\ \/ cache[j.at][j.arg] = <<>> /\ SendRreq(j.at, j.arg)
       \/ cache[j.at][j.arg] # <<>> /\ UNCHANGED <<reqs, nextId, msgs>>
    /\ UNCHANGED <<cache, seen, sendbuf, maint, black, history, budget>>

\* dsr_do_route_discovery: after a RREQ the next one has to wait.
Discover(t) ==
    LET j == jobs[t] IN
    /\ j.do = "discover"
    /\ jobs' = [jobs EXCEPT ![t] = Idle]
    /\ \/ SendRreq(j.at, j.arg)
       \/ reqs[j.at][j.arg] > 0 /\ UNCHANGED <<reqs, nextId, msgs>>
    /\ UNCHANGED <<cache, seen, sendbuf, maint, black, history, budget>>

\* run_rreqtable: the timeout is over and there is no REPL.
Retry(n, d) ==
    /\ reqs[n][d] > 0
    /\ SendRreq(n, d)
    /\ UNCHANGED <<cache, seen, sendbuf, maint, black, jobs, history, budget>>

\* run_rreqtable: all tries are used up.  Packets stay in the send buffer.
GiveUp(n, d) ==
    /\ reqs[n][d] = world.retries + 1
    /\ reqs' = [reqs EXCEPT ![n][d] = 0]
    /\ fate' = [p \in world.packets |->
                  IF p \in sendbuf[n] /\ p[2] = d THEN "given up" ELSE fate[p]]
    /\ UNCHANGED <<cache, seen, sendbuf, maint, black, nextId, jobs, msgs, broken,
                   aborted, budget>>

\* rreq_meshrx_cb at the target, for every copy that arrives: dsr_send_repl.
AnswerRreq(n, m) ==
    LET route == Append(m.route, n) IN
    /\ m.type = "rreq" /\ m.target = n /\ <<Last(m.route), n>> \in world.link
    /\ msgs' = msgs \cup {Routed("repl", route, Reverse(route), 2, 0)}
    /\ UNCHANGED <<tables, nextId, jobs, history, budget>>

\* Mutant: the own address may be in the list already.
PassesAgain(n, m) ==
    /\ Last(m.route) \notin black[n]
    /\ <<Head(m.route), m.id, m.target>> \notin seen[n]

\* rreq_meshrx_cb elsewhere: the checks.
Passes(n, m) ==
    /\ n \notin ToSet(m.route)
    /\ Last(m.route) \notin black[n]
    /\ <<Head(m.route), m.id, m.target>> \notin seen[n]

CheckRreq(t, n, m) ==
    /\ jobs[t] = Idle
    /\ m.type = "rreq" /\ m.target # n /\ <<Last(m.route), n>> \in world.link
    /\ m.ttl > 1 /\ n # Head(m.route) /\ Passes(n, m)
    /\ jobs' = [jobs EXCEPT ![t] = Job(n, "propagate", m)]
    /\ UNCHANGED <<tables, nextId, msgs, history, budget>>

\* dsr_add_node_to_rreqtable_cache, then dsr_propagate_rreq.
Propagate(t) ==
    LET j == jobs[t]
        m == j.arg
        o == Head(m.route)
    IN
    /\ j.do = "propagate"
    /\ jobs' = [jobs EXCEPT ![t] = Idle]
    /\ seen' = [seen EXCEPT ![j.at] = @ \cup {<<o, m.id, m.target>>}]
    /\ reqs' = [reqs EXCEPT ![j.at][o] = IF @ = NoEntry THEN 0 ELSE @]
    /\ msgs' = msgs \cup {Rreq(m.id, Append(m.route, j.at), m.target, m.ttl - 1)}
    /\ UNCHANGED <<cache, sendbuf, maint, black, nextId, history, budget>>

-----------------------------------------------------------------------------
(* A REPL at the initiator of the RREQ: three steps. *)

\* What a node forgets with its process.
ForgetAll(n) ==
    /\ cache' = [cache EXCEPT ![n] = [d \in Node |-> <<>>]]
    /\ reqs' = [reqs EXCEPT ![n] = [d \in Node |-> NoEntry]]
    /\ seen' = [seen EXCEPT ![n] = {}]
    /\ sendbuf' = [sendbuf EXCEPT ![n] = {}]
    /\ maint' = [maint EXCEPT ![n] = {}]
    /\ black' = [black EXCEPT ![n] = {}]
    /\ nextId' = [nextId EXCEPT ![n] = [rreq |-> 0, ack |-> 1]]
    /\ jobs' = [t \in world.threads |-> IF jobs[t] # Idle /\ jobs[t].at = n THEN Idle ELSE jobs[t]]
    /\ UNCHANGED msgs

\* An assertion fails; the daemon is started again.
Abort(n) ==
    /\ ForgetAll(n)
    /\ aborted' = aborted \cup {n}
    /\ UNCHANGED <<fate, broken, budget>>

Target(m) == Last(m.load)

\* Mutant: the list is cut off before the first path and not behind it.
BetterNone(old, new) == IF old = <<>> THEN new ELSE <<>>

\* _add_to_pathlist sorts, the older first of two as long, and keeps one path.
Better(old, new) == IF old = <<>> \/ Len(new) < Len(old) THEN new ELSE old

\* dsr_msg_cache_repl_ext_to_routecache.  REPLs are read when overheard, too.
CacheRepl(t, n, m) ==
    /\ jobs[t] = Idle
    /\ m.type = "routed" /\ m.kind = "repl" /\ Head(m.load) = n
    /\ <<Sender(m), n>> \in world.link
    /\ cache' = [cache EXCEPT ![n][Target(m)] = Better(@, m.load)]
    /\ jobs' = [jobs EXCEPT ![t] = Job(n, "reset", m)]
    /\ UNCHANGED <<reqs, seen, sendbuf, maint, black, nextId, msgs, history, budget>>

\* dsr_rreqtable_got_repl asserts that there is an entry.
GotRepl(t) ==
    LET j == jobs[t]
        d == Target(j.arg)
    IN
    /\ j.do = "reset"
    /\ IF reqs[j.at][d] = NoEntry THEN Abort(j.at)
       ELSE /\ reqs' = [reqs EXCEPT ![j.at][d] = 0]
            /\ jobs' = [jobs EXCEPT ![t] = Job(j.at, "flush", j.arg)]
            /\ UNCHANGED <<cache, seen, sendbuf, maint, black, nextId, msgs, history, budget>>

\* dsr_sendbuffer_send_msgs_to asserts that there is a path; the packets go
\* to the maintenance buffer, which sends them after a delay.  Their order in
\* the send buffer shows only in the identifications id of their ACK requests.
Flush(t) ==
    LET j == jobs[t]
        n == j.at
        d == Target(j.arg)
        ready == {p \in sendbuf[n] : p[2] = d}
        next == nextId[n].ack + Cardinality(ready)
    IN
    /\ j.do = "flush"
    /\ IF cache[n][d] = <<>> THEN Abort(n)
       ELSE /\ next <= world.ack + 1
            /\ nextId' = [nextId EXCEPT ![n].ack = next]
            /\ \E id \in Injection(ready, nextId[n].ack .. next - 1) :
                  maint' = [maint EXCEPT ![n] = @ \cup
                     {Element(Routed("data", p, cache[n][d], 2, id[p]), -1, TRUE) : p \in ready}]
            /\ sendbuf' = [sendbuf EXCEPT ![n] = @ \ ready]
            /\ jobs' = [jobs EXCEPT ![t] = Idle]
            /\ msgs' = msgs \cup Acks(n, j.arg)
            /\ UNCHANGED <<cache, reqs, seen, black, history, budget>>

-----------------------------------------------------------------------------
(* Source routes, acknowledgements and link errors. *)

\* dsr_routecache_process_link_error
Cut(paths, u, v) == [d \in Node |-> IF HasLink(paths[d], u, v) THEN <<>> ELSE paths[d]]

\* rerr_meshrx_cb, then the message goes on: only its receiver answers it.
AfterRerr(n, m) ==
    cache' = IF m.kind = "rerr"
             THEN [cache EXCEPT ![n] = Cut(@, m.load[1], m.load[2])] ELSE cache

\* A message for another node is acknowledged and sent on, under maintenance.
Forward(n, m) ==
    /\ m.type = "routed" /\ NextHop(m) = n /\ ~IsLast(m) /\ <<Sender(m), n>> \in world.link
    /\ AfterRerr(n, m)
    /\ Maintain(n, m.kind, m.load, m.route, m.to + 1, FALSE, Acks(n, m))
    /\ UNCHANGED <<reqs, seen, sendbuf, black, jobs, history, budget>>

\* dsr2sys_meshrx_cb for a packet, and the end of the way of a RERR.
Arrive(n, m) ==
    /\ m.type = "routed" /\ NextHop(m) = n /\ IsLast(m) /\ <<Sender(m), n>> \in world.link
    /\ m.kind # "repl"
    /\ AfterRerr(n, m)
    /\ msgs' = msgs \cup Acks(n, m)
    /\ fate' = IF m.kind = "data" THEN [fate EXCEPT ![m.load] = "delivered"] ELSE fate
    /\ UNCHANGED <<reqs, seen, sendbuf, maint, black, nextId, jobs, broken, aborted, budget>>

\* A RERR for somebody else is read as well.
OverhearRerr(n, m) ==
    /\ m.type = "routed" /\ m.kind = "rerr" /\ NextHop(m) # n
    /\ <<Sender(m), n>> \in world.link
    /\ AfterRerr(n, m)
    /\ UNCHANGED <<reqs, seen, sendbuf, maint, black, nextId, jobs, msgs, history, budget>>

\* Mutant: an ACK answers for all that its sender was to send on.
HandleAckAll(n, m) ==
    /\ m.type = "ack" /\ m.to = n /\ <<m.from, n>> \in world.link
    /\ black' = [black EXCEPT ![n] = @ \ {m.from}]
    /\ maint' = [maint EXCEPT ![n] = {e \in @ : NextHop(e.msg) # m.from}]
    /\ UNCHANGED <<cache, reqs, seen, sendbuf, nextId, jobs, msgs, history, budget>>

\* ack_meshrx_cb
HandleAck(n, m) ==
    /\ m.type = "ack" /\ m.to = n /\ <<m.from, n>> \in world.link
    /\ black' = [black EXCEPT ![n] = @ \ {m.from}]
    /\ maint' = [maint EXCEPT ![n] = {e \in @ : e.msg.ack # m.id}]
    /\ UNCHANGED <<cache, reqs, seen, sendbuf, nextId, jobs, msgs, history, budget>>

\* cleanup_maintenance_buffer, an element that is due: send it (again).
Resend(n, e) ==
    /\ e \in maint[n] /\ e.count < world.retransmit
    /\ maint' = [maint EXCEPT ![n] = (@ \ {e}) \cup {[e EXCEPT !.count = @ + 1]}]
    /\ msgs' = msgs \cup {e.msg}
    /\ UNCHANGED <<cache, reqs, seen, sendbuf, black, nextId, jobs, history, budget>>

\* dsr_send_rerr_for_msg: back along the route, not under maintenance.
Report(n, e) ==
    IF e.own THEN {}
    ELSE {Routed("rerr", <<n, NextHop(e.msg)>>, Reverse(e.msg.route),
                 Len(e.msg.route) - e.msg.to + 3, 0)}

\* cleanup_maintenance_buffer: the link is given up with all that waits for it.
LinkError(n, e) ==
    LET h == NextHop(e.msg)
        gone == {x \in maint[n] : NextHop(x.msg) = h}
    IN
    /\ e \in maint[n] /\ e.count >= world.retransmit
    /\ cache' = [cache EXCEPT ![n] = Cut(@, n, h)]
    /\ maint' = [maint EXCEPT ![n] = @ \ gone]
    /\ black' = [black EXCEPT ![n] = IF e.msg.kind = "repl" THEN @ \cup {h} ELSE @]
    /\ msgs' = msgs \cup Report(n, e)
    /\ broken' = TRUE
    /\ fate' = [p \in world.packets |->
                  IF fate[p] # "delivered"
                     /\ \E x \in gone : x.msg.kind = "data" /\ x.msg.load = p
                  THEN "lost" ELSE fate[p]]
    /\ UNCHANGED <<reqs, seen, sendbuf, nextId, jobs, aborted, budget>>

-----------------------------------------------------------------------------
(* Timeouts of the other tables, and restarts. *)

\* cleanup_sendbuffer
Expire(n, p) ==
    /\ p \in sendbuf[n]
    /\ sendbuf' = [sendbuf EXCEPT ![n] = @ \ {p}]
    /\ fate' = [fate EXCEPT ![p] = "expired"]
    /\ UNCHANGED <<cache, reqs, seen, maint, black, nextId, jobs, msgs, broken, aborted, budget>>

\* cleanup_rreqtable after 60 s without use.  run_rreqtable uses entries that
\* wait for a REPL, and no packet is buffered and no handler takes as long.
ForgetEntry(n, d) ==
    /\ budget.forget > 0 /\ reqs[n][d] = 0
    /\ \A p \in sendbuf[n] : p[2] # d
    /\ \A t \in world.threads : jobs[t] # Idle => jobs[t].at # n
    /\ budget' = [budget EXCEPT !.forget = @ - 1]
    /\ reqs' = [reqs EXCEPT ![n][d] = NoEntry]
    /\ seen' = [seen EXCEPT ![n] = {s \in @ : s[1] # d}]
    /\ UNCHANGED <<cache, sendbuf, maint, black, nextId, jobs, msgs, history>>

\* cleanup_blacklist: from PROBABLE to QUESTIONABLE, which has no effect.
Forgive(n, h) ==
    /\ h \in black[n]
    /\ black' = [black EXCEPT ![n] = @ \ {h}]
    /\ UNCHANGED <<cache, reqs, seen, sendbuf, maint, nextId, jobs, msgs, history, budget>>

Restart(n) ==
    /\ budget.restart > 0
    /\ budget' = [budget EXCEPT !.restart = @ - 1]
    /\ ForgetAll(n)
    /\ UNCHANGED history

Step ==
    \/ \E p \in world.packets : SendPacket(p) \/ \E t \in world.threads : MissPath(t, p)
    \/ \E t \in world.threads : \/ BufferPacket(t) \/ Discover(t) \/ Propagate(t)
                         \/ GotRepl(t) \/ Flush(t)
    \/ \E n \in Node, m \in msgs :
          \/ AnswerRreq(n, m) \/ Forward(n, m) \/ Arrive(n, m)
          \/ OverhearRerr(n, m) \/ HandleAck(n, m)
          \/ \E t \in world.threads : CheckRreq(t, n, m) \/ CacheRepl(t, n, m)
    \/ \E n \in Node : \/ \E e \in maint[n] : Resend(n, e) \/ LinkError(n, e)
                       \/ \E p \in world.packets : Expire(n, p)
                       \/ Restart(n)
    \/ \E n, d \in Node : \/ Retry(n, d) \/ GiveUp(n, d)
                          \/ ForgetEntry(n, d) \/ Forgive(n, d)

Next == Step /\ UNCHANGED world

Spec == Init /\ [][Next]_vars

-----------------------------------------------------------------------------
(* Properties. *)

Routes == BoundedSeq(Node, Cardinality(Node))

Message ==
    [type : {"rreq"}, id : 0..world.rreq, route : Routes, target : Node, ttl : 1..255]
    \cup [type : {"routed"}, kind : {"data"}, load : Packet, route : Routes,
          to : 2..Cardinality(Node), ack : 0..world.ack]
    \cup [type : {"routed"}, kind : {"repl"}, load : Routes, route : Routes,
          to : 2..Cardinality(Node), ack : 0..world.ack]
    \cup [type : {"routed"}, kind : {"rerr"}, load : Node \X Node, route : Routes,
          to : 2..Cardinality(Node), ack : 0..world.ack]
    \cup [type : {"ack"}, from : Node, to : Node, id : 1..world.ack]

TypeOK ==
    /\ \A n, d \in Node : cache[n][d] \in Routes /\ reqs[n][d] \in NoEntry..(world.retries + 1)
    /\ \A n \in Node :
          /\ seen[n] \subseteq Node \X (0..world.rreq) \X Node
          /\ sendbuf[n] \subseteq Packet
          /\ \A e \in maint[n] : /\ e.msg \in msgs \/ e.count = -1
                                 /\ e.count \in -1..world.retransmit /\ e.own \in BOOLEAN
          /\ black[n] \subseteq Node
          /\ nextId[n] \in [rreq : 0..world.rreq, ack : 1..(world.ack + 1)]
    /\ \A t \in world.threads : jobs[t] # Idle =>
          /\ jobs[t].at \in Node
          /\ jobs[t].do \in {"buffer", "discover", "propagate", "reset", "flush"}
    /\ msgs \subseteq Message
    /\ \A p \in world.packets : fate[p] \in {"host", "on the way", "given up", "expired",
                                      "lost", "delivered"}
    /\ broken \in BOOLEAN /\ aborted \subseteq Node
    /\ budget \in [forget : 0..world.forget, restart : 0..world.restart]

IsRoute(route, u, v) ==
    /\ Head(route) = u /\ Last(route) = v /\ IsInjective(route)
    /\ \A i \in 1 .. Len(route) - 1 : <<route[i], route[i + 1]>> \in world.link

\* The path that a node keeps for a destination, that a RREQ collects and that
\* a packet carries leads there over links that exist and visits no node twice,
\* whatever the nodes on the way have forgotten of the RREQ.
PathsAreRoutes ==
    /\ \A n, d \in Node : cache[n][d] # <<>> => IsRoute(cache[n][d], n, d)
    /\ \A m \in msgs :
          /\ m.type = "rreq" => IsRoute(m.route, Head(m.route), Last(m.route))
          /\ m.type = "routed" /\ m.kind = "data" =>
                IsRoute(m.route, m.load[1], m.load[2])

Pending(n, d) == \E t \in world.threads : jobs[t] # Idle /\ jobs[t].at = n /\
                    \/ jobs[t].do = "discover" /\ jobs[t].arg = d
                    \/ jobs[t].do = "flush" /\ Target(jobs[t].arg) = d

\* A packet in the send buffer has a discovery for it: a RREQ without a REPL
\* yet, which run_rreqtable repeats, or a thread that is about to send one or
\* to empty the buffer; unless all tries were used up after it was buffered.
BufferedHasDiscovery ==
    \A n \in Node : \A p \in sendbuf[n] :
        fate[p] = "given up" \/ reqs[n][p[2]] > 0 \/ Pending(n, p[2])

NoRestart == budget.restart = world.restart /\ aborted = {}

Holds(n, p) ==
    \/ p \in sendbuf[n]
    \/ \E e \in maint[n] : e.msg.kind = "data" /\ e.msg.load = p
    \/ \E t \in world.threads : jobs[t] # Idle /\ jobs[t].at = n
                         /\ jobs[t].do = "buffer" /\ jobs[t].arg = p

\* No packet vanishes: until it is delivered some node answers for it, in its
\* send buffer or its maintenance buffer, or it expired there or was given up
\* with a link; however messages and ACKs are lost, duplicated and delayed.
PacketsKept ==
    NoRestart =>
    \A p \in world.packets : fate[p] \in {"on the way", "given up"} => \E n \in Node : Holds(n, p)

\* A daemon aborts only after a link was given up, or when a REPL finds that
\* the RREQ was forgotten: threads alone do not lead two REPLs or a REPL and
\* a packet into one of the assertions.
AbortsExplained ==
    aborted # {} => \/ broken
                    \/ budget.restart < world.restart
                    \/ budget.forget < world.forget

\* assert(res == DSR_ROUTECACHE_SUCCESS): when a REPL has been cached, there
\* is a path to its sender.
NeverAborts ==
    budget.restart = world.restart /\ budget.forget = world.forget => aborted = {}
=============================================================================
