-------------------------------- MODULE Olsr --------------------------------
(***************************************************************************)
(* One des-olsr node: the link, neighbour, 2-hop neighbour and topology    *)
(* sets that HELLOs and TCs fill, the choice of its multipoint relays      *)
(* (MPRs) and its routing table.  Each mesh interface has a receiving      *)
(* thread; a periodic rebuilds the routes when pending_rtc is set.  The    *)
(* node is Self; what the other nodes send is left open.                   *)
(***************************************************************************)
EXTENDS SlidingWindow, FiniteSets

CONSTANTS
    Self,      \* dessert_l25_defsrc
    Neigh,     \* the nodes that HELLOs may come from
    Far,       \* further nodes
    Iface,     \* mesh interfaces
    NoIface,   \* NULL
    InRange,   \* bound: <<i, m>>, m is heard over the interface i
    Quality,   \* bound: the link qualities in messages, in per cent
    Willing,   \* willingness of the nodes in Neigh, as in their HELLOs
    Always,    \* WILL_ALLWAYS
    Threshold, \* MPR_QUALITY_THRESHOLD
    ByHops,    \* rc_metric: RC_METRIC_HC, else RC_METRIC_PLR
    TcOrig,    \* bound: the nodes that TCs come from
    FirstTc,   \* bound: sequence number of their first TC
    TcList,    \* bound: the neighbours in each of their TCs, with qualities
    Heard,     \* bound: what HELLOs list, as pairs of a node and a quality
    Budgets    \* bound: how many HELLOs come, TCs are taken, entries time out

Node == Neigh \cup Far

ASSUME OlsrAssumption ==
    /\ Self \notin Node /\ NoIface \notin Iface /\ TcOrig \subseteq Node
    /\ IsFiniteSet(Node) /\ IsFiniteSet(DOMAIN TcList)
    /\ DOMAIN TcList = 1 .. Cardinality(DOMAIN TcList)
    /\ Quality \subseteq 0 .. 100 /\ {Always, Threshold} \subseteq Nat
    /\ Willing \in [Neigh -> Nat] /\ FirstTc \in SeqNum /\ ByHops \in BOOLEAN
    /\ \A k \in DOMAIN TcList : TcList[k] \subseteq (Node \cup {Self}) \X Quality
    /\ Heard \subseteq Node \X Quality /\ InRange \subseteq Iface \X Neigh
    /\ Budgets \subseteq [hello : Nat, tc : Nat, purge : Nat]

VARIABLES
    link,    \* link_set: "none", "asym", "sym", or "lost" when the times are over
    ns,      \* neighbor_set
    hop2,    \* _1hset_entrys: <<1-hop neighbour, 2-hop neighbour, link_quality>>
    hop1,    \* _2hset_entrys, by 2-hop neighbours: the same pairs
    tc,      \* tc_set; num tells which TC of its node the number seq is of
    rt,      \* rt_set
    pending, \* pending_rtc
    thread,  \* what the receiving thread of each interface does
    builder, \* olsr_periodic_build_routingtable
    got,     \* the TCs of each node that were taken since its entry was made
    crossed, \* whether an entry got the neighbours of another TC than its number
    changed, \* whether the tables were changed since rt was built
    budget   \* the HELLOs, TCs and timeouts that are left

vars == <<link, ns, hop2, hop1, tc, rt, pending, thread, builder, got, crossed,
          changed, budget>>

Spend(what) == budget[what] > 0 /\ budget' = [budget EXCEPT ![what] = @ - 1]

Empty == [x \in {} |-> x]
Idle == [pc |-> "idle"]

Init ==
    /\ link = [l \in InRange |-> "none"]
    /\ ns = Empty /\ hop2 = {} /\ hop1 = {} /\ tc = Empty /\ rt = Empty
    /\ pending = FALSE /\ thread = [i \in Iface |-> Idle] /\ builder = "idle"
    /\ got = [o \in TcOrig |-> {}] /\ crossed = FALSE /\ changed = FALSE
    /\ budget \in Budgets

\* f without the keys in S, and f with x at k.
Without(f, S) == [x \in DOMAIN f \ S |-> f[x]]
With(f, k, x) == [y \in DOMAIN f \cup {k} |-> IF y = k THEN x ELSE f[y]]

-----------------------------------------------------------------------------
(* Multipoint relays *)

\* set_willing_koeff
Koeff(h, two, unreached) ==
    LET Sum[S \in SUBSET {t \in two : t[1] = h}] ==
           IF S = {} THEN 0
           ELSE LET t == CHOOSE t \in S : TRUE
                IN  Sum[S \ {t}] + IF t[2] \in unreached THEN 3 * t[3] ELSE t[3]
    IN  Willing[h] * Sum[{t \in two : t[1] = h}]

\* Mutant: the quality of the link to the relay does not count.
ReachedByLink(n, two, h) == {t[2] : t \in {u \in two : u[1] = h /\ u[3] >= Threshold}}

\* What select_as_mpr takes as reached through h.
Reached(n, two, h) ==
    {t[2] : t \in {u \in two : u[1] = h /\ (n[h].quality * u[3]) \div 100 >= Threshold}}

\* One turn of the loop of olsr_db_rc_chose_mprset; of equally good candidates
\* the code takes the first of the hash, here a fixed one.
Relay(n, two, s) ==
    LET best == CHOOSE h \in s.left : \A g \in s.left :
                   Koeff(g, two, s.unreached) <= Koeff(h, two, s.unreached)
    IN  IF s.unreached = {} THEN s
        ELSE [left |-> s.left \ {best},
              unreached |-> s.unreached \ Reached(n, two, best)]

\* olsr_db_rc_chose_mprset: the relays.
Mprs(n, two) ==
    LET all == {t[1] : t \in two} \cap DOMAIN n
        choice[k \in 0 .. Cardinality(all)] ==
           IF k = 0 THEN [left |-> all, unreached |-> {t[2] : t \in two}]
           ELSE Relay(n, two, choice[k - 1])
        left == choice[Cardinality(all)].left
    IN  (all \ left) \cup {h \in left : Willing[h] >= Always}

-----------------------------------------------------------------------------
(* HELLO *)

\* A HELLO of m over i: whether it lists the interface of Self as not lost,
\* with which quality, and the other neighbours it lists.  That it lists Self
\* as its MPR (mpr_selector) matters for the messages Self sends on only, which
\* are left out.
Hello(m) ==
    [sym : {TRUE}, quality : Quality,
     list : {L \in SUBSET {p \in Heard : p[1] # m} :
               \A p, q \in L : p[1] = q[1] => p = q}]
    \cup {[sym |-> FALSE]}

NewTuple == [mpr |-> FALSE, best |-> NoIface, quality |-> 0]

\* olsr_db_2hns_del2hneighbor, on either map.
WithoutTwoHop(two, m) == {t \in two : t[2] # m}

\* The neighbour after a HELLO over a symmetric link.  A better link replaces
\* the best one; the best one is not given up when it gets worse.
UpdatedTuple(old, i, hello) ==
    LET rewrite == old.best # i /\ old.quality < hello.quality IN
    [mpr |-> FALSE,
     best |-> IF rewrite THEN i ELSE old.best,
     quality |-> IF rewrite \/ old.best = i THEN hello.quality ELSE old.quality]

\* olsr_handle_hello, until the database is unlocked.
HandleHello(i, m, hello) ==
    /\ Spend("hello")
    /\ thread[i] = Idle
    /\ link' = [link EXCEPT ![<<i, m>>] = IF hello.sym THEN "sym" ELSE "asym"]
    /\ IF hello.sym
       THEN LET old == IF m \in DOMAIN ns THEN ns[m] ELSE NewTuple
                with == With(ns, m, UpdatedTuple(old, i, hello))
                new == {<<m, p[1], p[2]>> :
                          p \in {q \in hello.list : q[1] \notin DOMAIN with}}
                two == {t \in WithoutTwoHop(hop2, m) : \A u \in new :
                           <<t[1], t[2]>> # <<u[1], u[2]>>} \cup new
            IN  /\ hop2' = two
                /\ hop1' = WithoutTwoHop(hop1, m) \cup {<<m, t[2]>> : t \in new}
                /\ ns' = [h \in DOMAIN with |->
                            [with[h] EXCEPT !.mpr = h \in Mprs(with, two)]]
       ELSE UNCHANGED <<ns, hop2, hop1>>
    /\ thread' = [thread EXCEPT ![i] = [pc |-> "pending"]]
    /\ changed' = TRUE
    /\ UNCHANGED <<tc, rt, pending, builder, got, crossed>>

\* ... and pending_rtc, under a lock of its own, for HELLOs and TCs.
SetPending(i) ==
    /\ thread[i].pc = "pending"
    /\ pending' = TRUE
    /\ thread' = [thread EXCEPT ![i] = Idle]
    /\ UNCHANGED <<link, ns, hop2, hop1, tc, rt, builder, got, crossed, changed, budget>>

\* The SYM and ASYM times of a link are over.
LinkTimeOver(l) ==
    /\ Spend("purge")
    /\ link[l] \in {"sym", "asym"}
    /\ link' = [link EXCEPT ![l] = "lost"]
    /\ UNCHANGED <<ns, hop2, hop1, tc, rt, pending, thread, builder, got, crossed, changed>>

\* purge_ltuple
PurgeLink(l) ==
    /\ link[l] = "lost"
    /\ link' = [link EXCEPT ![l] = "none"]
    /\ UNCHANGED <<ns, hop2, hop1, tc, rt, pending, thread, builder, got, crossed, changed, budget>>

\* olsr_db_2hns_del1hneighbor
WithoutOneHop(two, m) == {t \in two : t[1] # m}

\* purge_nstuple: the neighbour is kept as long as the last HELLO over any
\* symmetric link said.
PurgeNeighbour(m) ==
    /\ Spend("purge")
    /\ m \in DOMAIN ns /\ \A l \in InRange : l[2] = m => link[l] # "sym"
    /\ ns' = Without(ns, {m})
    /\ hop2' = WithoutOneHop(hop2, m)
    /\ hop1' = WithoutOneHop(hop1, m)
    /\ UNCHANGED <<link, tc, rt, pending, thread, builder, got, crossed, changed>>

\* Mutant: _2hset_entrys is forgotten.
PurgeOneMap(t) ==
    /\ Spend("purge")
    /\ hop2' = hop2 \ {t}
    /\ hop1' = hop1
    /\ UNCHANGED <<link, ns, tc, rt, pending, thread, builder, got, crossed, changed>>

\* purge_2h_neighbor
PurgeTwoHop(t) ==
    /\ Spend("purge")
    /\ hop2' = hop2 \ {t}
    /\ hop1' = hop1 \ {<<t[1], t[2]>>}
    /\ UNCHANGED <<link, ns, tc, rt, pending, thread, builder, got, crossed, changed>>

-----------------------------------------------------------------------------
(* TC *)

TcSeq(k) == (FirstTc + k - 1) % SeqMod

\* Mutant: whatever the number of the TC.
AcceptAny(o, s) == TRUE

\* olsr_db_tc_updateseqnum: the number is newer, or the first of the entry.
Accepts(o, s) == o \in DOMAIN tc => Comp(tc[o].seq, s) < 0

\* olsr_handle_tc, first lock.  The k-th TC of o may come late or twice.
HandleTc(i, o, k) ==
    /\ Spend("tc")
    /\ thread[i] = Idle
    /\ Accepts(o, TcSeq(k))
    /\ tc' = With(tc, o, [seq |-> TcSeq(k), num |-> k,
                          links |-> IF o \in DOMAIN tc THEN tc[o].links ELSE {}])
    /\ got' = [got EXCEPT ![o] = IF o \in DOMAIN tc THEN @ \cup {k} ELSE {k}]
    /\ thread' = [thread EXCEPT ![i] = [pc |-> "tc", orig |-> o, tc |-> k]]
    /\ UNCHANGED <<link, ns, hop2, hop1, rt, pending, builder, crossed, changed>>

\* Of the TCs of o that were taken, the k-th was sent last.
IsNewest(o, k) == k \in got[o] /\ \A l \in got[o] : l <= k

\* second lock: olsr_db_tc_removetc, or removeneighbors and settuple, which
\* creates an entry with number 0 when it was purged in the meantime.  That the
\* TC is sent on if the previous hop selected Self changes nothing here.
StoreTc(i) ==
    LET t == thread[i]
        gone == t.orig \notin DOMAIN tc
    IN
    /\ t.pc = "tc"
    /\ IF TcList[t.tc] = {}
       THEN tc' = Without(tc, {t.orig}) /\ got' = [got EXCEPT ![t.orig] = {}]
            /\ UNCHANGED crossed
       ELSE /\ tc' = With(tc, t.orig, [seq |-> IF gone THEN 0 ELSE tc[t.orig].seq,
                                       num |-> IF gone THEN 0 ELSE tc[t.orig].num,
                                       links |-> TcList[t.tc]])
            /\ crossed' = (crossed \/ gone \/ tc[t.orig].num # t.tc)
            /\ UNCHANGED got
    /\ changed' = TRUE
    /\ thread' = [thread EXCEPT ![i] = [pc |-> "pending"]]
    /\ UNCHANGED <<link, ns, hop2, hop1, rt, pending, builder, budget>>

\* purge_tcs
PurgeTc(o) ==
    /\ Spend("purge")
    /\ o \in DOMAIN tc
    /\ tc' = Without(tc, {o})
    /\ got' = [got EXCEPT ![o] = {}]
    /\ UNCHANGED <<link, ns, hop2, hop1, rt, pending, thread, builder, crossed, changed>>

-----------------------------------------------------------------------------
(* Routes *)

\* Mutant: compare_candidates_hc for every metric.
BetterByHops(c, d) == c.hops < d.hops

\* compare_candidates_hc and compare_candidates_plr
Better(c, d) ==
    IF ByHops THEN c.hops < d.hops
    ELSE c.quality > d.quality \/ (c.quality = d.quality /\ c.hops < d.hops)

Links(o) == IF o \in DOMAIN tc THEN tc[o].links ELSE {}

\* The quality of a path after one more link.  It is a float in the code, here
\* a number of 1/10000, which is exact for the paths and qualities of the runs.
PathQuality(q, p) == (q * p[2]) \div 100

\* The candidates after c was taken: the neighbours of c that have no route,
\* without those for c itself.
Candidates(cands, routes, c) ==
    {e \in cands \cup
           {[node |-> p[1], prec |-> c.node, hops |-> c.hops + 1,
             quality |-> PathQuality(c.quality, p)] :
              p \in {q \in Links(c.node) : q[1] \notin DOMAIN routes \cup {Self}}}
       : e.node # c.node}

\* Of equally good candidates the code takes the first of the list, here a
\* fixed one.
BestCandidate(s) == CHOOSE x \in s.cands : \A y \in s.cands : ~Better(y, x)

\* The best candidate becomes a route.
Captured(s, cand) ==
    With(s.routes, cand.node,
         [hop |-> IF cand.prec = Self THEN cand.node ELSE s.routes[cand.prec].hop,
          prec |-> cand.prec, hops |-> cand.hops, quality |-> cand.quality])

\* One turn of the loop of olsr_db_rc_dijkstra.
Turn(s) ==
    LET cand == BestCandidate(s) IN
    IF s.cands = {} THEN s
    ELSE [cands |-> Candidates(s.cands, Captured(s, cand), cand),
          routes |-> Captured(s, cand)]

\* The neighbours are the first candidates.
Start ==
    [cands |-> {[node |-> m, prec |-> Self, hops |-> 1,
                 quality |-> ns[m].quality * 10000] : m \in DOMAIN ns},
     routes |-> Empty]

\* olsr_db_rc_dijkstra: until no candidate is left.
Dijkstra ==
    LET state[k \in 0 .. Cardinality(Node)] ==
           IF k = 0 THEN Start ELSE Turn(state[k - 1])
    IN  state[Cardinality(Node)].routes

\* olsr_periodic_build_routingtable: pending_rtc is read and reset under its
\* own lock, before and after the database is locked.
StartBuild ==
    /\ builder = "idle" /\ pending
    /\ builder' = "build"
    /\ UNCHANGED <<link, ns, hop2, hop1, tc, rt, pending, thread, got, crossed, changed, budget>>

Build ==
    /\ builder = "build"
    /\ rt' = Dijkstra
    /\ changed' = FALSE
    /\ builder' = "reset"
    /\ UNCHANGED <<link, ns, hop2, hop1, tc, pending, thread, got, crossed, budget>>

EndBuild ==
    /\ builder = "reset"
    /\ pending' = FALSE
    /\ builder' = "idle"
    /\ UNCHANGED <<link, ns, hop2, hop1, tc, rt, thread, got, crossed, changed, budget>>

Next ==
    \/ \E i \in Iface :
          \/ \E m \in {k \in Neigh : <<i, k>> \in InRange} :
                \E hello \in Hello(m) : HandleHello(i, m, hello)
          \/ \E o \in TcOrig, k \in DOMAIN TcList : HandleTc(i, o, k)
          \/ StoreTc(i) \/ SetPending(i)
    \/ \E l \in InRange : LinkTimeOver(l) \/ PurgeLink(l)
    \/ \E m \in Neigh : PurgeNeighbour(m)
    \/ \E t \in hop2 : PurgeTwoHop(t)
    \/ \E o \in TcOrig : PurgeTc(o)
    \/ StartBuild \/ Build \/ EndBuild

Spec == Init /\ [][Next]_vars
-----------------------------------------------------------------------------
(* Properties. *)

TypeOK ==
    /\ link \in [InRange -> {"none", "asym", "sym", "lost"}]
    /\ DOMAIN ns \subseteq Neigh /\ hop2 \subseteq Neigh \X Node \X Quality
    /\ \A m \in DOMAIN ns :
          ns[m] \in [mpr : BOOLEAN, quality : Quality \cup {0},
                    best : Iface \cup {NoIface}]
    /\ \A o \in DOMAIN tc : tc[o].seq \in SeqNum
    /\ \A d \in DOMAIN rt : d \in Node /\ rt[d].hops \in 1 .. Cardinality(Node)
    /\ pending \in BOOLEAN /\ builder \in {"idle", "build", "reset"}

\* _1hset_entrys and _2hset_entrys are each other's inverse, whichever of
\* their entries are purged and in which order; a "host in 1hop neighborhood can
\* not be 2hop neighbor", and a 2-hop neighbour is one of a node that is still a
\* neighbour.
TwoHopSetsMirror ==
    /\ hop1 = {<<t[1], t[2]>> : t \in hop2}
    /\ \A t \in hop2 : t[1] \in DOMAIN ns /\ t[2] \notin DOMAIN ns

\* A 2-hop neighbour that some neighbour reaches well enough is reached so by
\* an MPR.
Covered(n, two) ==
    LET well == {t \in two : t[1] \in DOMAIN n /\ n[t[1]].quality * t[3] >= 100 * Threshold}
    IN  \A t \in well : \E u \in well : u[2] = t[2] /\ n[u[1]].mpr

\* Every HELLO that changes the neighbours leaves MPRs that cover the 2-hop
\* neighbours, so that what MPRs relay comes to all of them.
MprsCover ==
    [][thread' # thread /\ <<ns, hop2>>' # <<ns, hop2>> => Covered(ns', hop2')
      ]_<<thread, ns, hop2>>

\* The neighbours of a node in the topology are those of its newest TC that was
\* taken, unless an older one crossed it between the two critical sections.
TopologyNewest ==
    \/ crossed
    \/ \A o \in DOMAIN tc :
          \/ \E i \in Iface : thread[i].pc = "tc" /\ thread[i].orig = o
          \/ \E k \in got[o] : IsNewest(o, k) /\ tc[o].links = TcList[k]

\* Where a set of paths leads, with their length and quality, after one more
\* link.
Longer(paths) ==
    {<<e[2][1], e[1][2] + 1, PathQuality(e[1][3], e[2])>> :
       e \in {f \in paths \X UNION {Links(o) : o \in Node} :
                f[2] \in Links(f[1][1]) /\ f[2][1] # Self}}

\* The paths to the neighbours.
Shortest == {<<m, 1, ns[m].quality * 10000>> : m \in DOMAIN ns}

\* The paths from Self, all[k] those with at most k links behind a neighbour.
BestPaths ==
    LET all[k \in 0 .. Cardinality(Node)] ==
           IF k = 0 THEN Shortest ELSE all[k - 1] \cup Longer(all[k - 1])
    IN  all[Cardinality(Node)]

\* The routes built from the tables, at any time, are the best paths in them by
\* the metric, to exactly the nodes that have one, and start with a neighbour.
RoutesBest ==
    LET r == Dijkstra
        paths == BestPaths
    IN  /\ DOMAIN r = {p[1] : p \in paths}
        /\ \A p \in paths : IF ByHops THEN r[p[1]].hops <= p[2]
                             ELSE r[p[1]].quality >= p[3]
        /\ \A d \in DOMAIN r :
              /\ <<d, r[d].hops, r[d].quality>> \in paths
              /\ r[d].hop \in DOMAIN ns

\* "schedule update of rt everytime a hello is received": after a change of the
\* tables the routes are rebuilt or pending_rtc is set.
UpdateScheduled ==
    changed /\ builder = "idle" /\ (\A i \in Iface : thread[i] = Idle) => pending
=============================================================================
