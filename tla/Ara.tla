-------------------------------- MODULE Ara --------------------------------
(***************************************************************************)
(* A mesh of des-ara nodes, set up as des-ara.conf does: packets take any  *)
(* of the usable next hops (WEIGHTED), the nodes acknowledge passively,    *)
(* find node disjoint paths, learn from data and prune long detours.       *)
(*                                                                         *)
(* Ants are flooded and leave routes to their source behind them.  A node  *)
(* without a route traps its packets, sends a FANT and tries again after a *)
(* while; elsewhere a packet without a route is flooded as a route fail.   *)
(* A node that sees a packet again returns it to the previous hop.         *)
(*                                                                         *)
(* A pheromone matters here only by its end (Evaporate): the random choice *)
(* may take any next hop that is left.  Handlers are atomic, but for the   *)
(* timer thread, which retries the packets of a trap one by one.           *)
(***************************************************************************)
EXTENDS Integers, FiniteSets, FiniteSetsExt, SequencesExt

CONSTANTS
    Host,
    All,         \* ether_broadcast
    Link,        \* pairs <<n, m>> where m can hear n
    Request,     \* bound: pairs <<source, destination>> of the hosts' packets
    DefTtl,      \* ara_defttl
    Seqs,        \* how many sequence numbers there are, 2^16
    First,       \* what _ara_nextseq may be when the tables are empty
    Window,      \* how many sequence numbers back an entry remembers, 64
    RetryMax,    \* ara_retry_max
    MissCredit,  \* ara_ack_miss_credit
    CreditMax,   \* ARA_ACK_CREDIT_MAX
    Prune,       \* ara_prune_routes
    MaxSends,    \* bound: packets of each request
    MaxFaults    \* bound: frames that are lost or arrive twice, pheromones that
                 \* evaporate, acknowledgements that are missed

ASSUME AraAssumption ==
    /\ All \notin Host /\ Link \subseteq Host \X Host /\ Request \subseteq Host \X Host
    /\ \A l \in Link \cup Request : l[1] # l[2]
    /\ {DefTtl, Seqs, Window, RetryMax, MissCredit, CreditMax} \subseteq Nat \ {0}
    /\ First \cup {Prune, MaxSends, MaxFaults} \subseteq Nat
    /\ Seqs % Window = 0 /\ 2 * Window <= Seqs

VARIABLES
    rt,       \* newrt: the next hops for each destination
    lp,       \* lptt: the last number of each source, and those seen by how far
              \* they are behind it; with late, see Late
    trap,     \* traped_packets: the packets that wait for each destination
    timer,    \* the destinations with an ara_routefail_untrap_packets scheduled
    hand,     \* the packets that the timer thread has taken out of a trap
    wait,     \* the packets that wait for an acknowledgement
    next,     \* _ara_nextseq
    air,      \* pairs <<host that will hear it, frame>>
    sends,    \* how many packets of each request the host has sent
    fate,     \* history: what became of each packet, by source and number
    took,     \* history: who has taken which packet
    again,    \* history: who has taken a packet twice that was not returned
    cut,      \* history: some node has given up a next hop
    budget

tables == <<rt, lp, trap, timer, hand, wait, next>>
history == <<fate, took, again>>
state == <<tables, air, sends, history, budget>>
vars == <<state, cut>>

NoRoute == [hop |-> <<>>, bant |-> TRUE]

Init ==
    /\ rt = [n \in Host |-> [d \in Host |-> NoRoute]]
    /\ lp = [n \in Host |-> [s \in Host |-> [last |-> 0, seen |-> {}, late |-> FALSE]]]
    /\ trap = [n \in Host |-> [d \in Host |-> <<>>]]
    /\ timer = [n \in Host |-> {}]
    /\ hand = [n \in Host |-> <<>>]
    /\ wait = [n \in Host |-> {}]
    /\ next \in [Host -> First]
    /\ air = {}
    /\ sends = [q \in Request |-> 0]
    /\ fate = <<>>
    /\ took = {}
    /\ again = {}
    /\ cut = FALSE
    /\ budget = MaxFaults

-----------------------------------------------------------------------------
(* Routing table: operations on the entry e of one destination. *)

Ttls(e) == {e.hop[h].ttl : h \in DOMAIN e.hop}
MaxTtl(e) == Max(Ttls(e) \cup {0})

\* The way that a frame with this ttl took is a detour, compared to the best.
Pruned(e, ttl) ==
    /\ Prune > 0 /\ ttl > 0
    /\ MaxTtl(e) - ttl + 1 > (DefTtl - MaxTtl(e) + 1) * Prune

\* f with x at k.
With(f, k, x) == [y \in DOMAIN f \cup {k} |-> IF y = k THEN x ELSE f[y]]

\* ara_rt_update with a positive pheromone.
Update(e, h, ttl) ==
    LET old == e.hop[h]
        new == IF h \in DOMAIN e.hop
               THEN [ttl |-> Max({ttl, old.ttl}), credit |-> Min({old.credit + 1, CreditMax})]
               ELSE [ttl |-> ttl, credit |-> MissCredit]
    IN IF Pruned(e, ttl) THEN e ELSE [e EXCEPT !.hop = With(@, h, new)]

\* ara_rt_delete: without a next hop the entry goes, too.
Delete(e, h) ==
    LET left == DOMAIN e.hop \ {h}
    IN IF left = {} THEN NoRoute ELSE [e EXCEPT !.hop = Restrict(@, left)]

-----------------------------------------------------------------------------
(* Loop protection: the entry e of one source and a sequence number q.  The   *)
(* model numbers without a bound, also in lp; the code sees the 16 bits.      *)

Wire(q) == q % Seqs

\* ara_seq_overflow: it looks back over a wrap, never ahead.
Overflow(x, y) == x - y > (Seqs - 1) \div 2

Behind(e, q) == (e.last - q) % Seqs

\* _ara_loopprotect_checkduplicate: without an entry all is new.
New(e, q) ==
    e.seen = {} \/ Wire(e.last) < Wire(q) \/ Overflow(Wire(e.last), Wire(q))

\* A number that has left the window counts as seen.
Known(e, q) == ~New(e, q) /\ (Behind(e, q) >= Window \/ Behind(e, q) \in e.seen)

\* History: a number came from too far away to be told from others, or from
\* before a wrap of the numbers after one from behind it.
Late(e, q) ==
    /\ e.seen # {}
    /\ \/ Overflow(q, e.last) \/ Overflow(e.last, q)
       \/ q < e.last /\ q \div Seqs # e.last \div Seqs

\* The machine shifts seen by the distance modulo its width.
Advance(e, q) ==
    LET shift == (q - e.last) % Window
    IN [last |-> q, seen |-> {0} \cup {b \in 0..Window - 1 : b - shift \in e.seen},
        late |-> e.late \/ Late(e, q)]

\* Mutant: what comes late is not remembered.
NoteLast(e, q) ==
    IF New(e, q) THEN Advance(e, q) ELSE [e EXCEPT !.late = @ \/ Late(e, q)]

Note(e, q) ==
    IF New(e, q) THEN Advance(e, q)
    ELSE [e EXCEPT !.seen = IF Behind(e, q) < Window THEN @ \cup {Behind(e, q)} ELSE @,
                   !.late = @ \/ Late(e, q)]

-----------------------------------------------------------------------------
(* Frames. *)

\* dst is the target of an ant; loop, fail and req are the flags in u8.
Frame(kind, src, dst, seq, ttl, from, to) ==
    [kind |-> kind, src |-> src, dst |-> dst, seq |-> seq, ttl |-> ttl,
     from |-> from, to |-> to, loop |-> FALSE, fail |-> FALSE, req |-> FALSE]

Waiting(src, seq, hop, dst) ==
    [src |-> src, seq |-> Wire(seq), hop |-> hop, dst |-> dst]

\* A unicast frame is overheard to some effect by who waits for it as an
\* acknowledgement and by the destination of its packet.
Overhears(r, f) ==
    \/ f.kind = "data" /\ f.dst = r
    \/ \E w \in wait[r] : w.src = f.src /\ w.seq = Wire(f.seq) /\ w.hop = f.from

\* Who gets frames when they are sent.  A ttl that has run out is not sent.
OnAir(frames) ==
    {x \in Host \X frames : /\ <<x[2].from, x[1]>> \in Link /\ x[2].ttl > 0
                            /\ (x[2].to \in {All, x[1]} \/ Overhears(x[1], x[2]))}

\* _ara_sendfant, _ara_sendbant
Ant(kind, n, target, seq) == Frame(kind, n, target, seq, DefTtl, n, All)

-----------------------------------------------------------------------------
(* Packets that leave a node: ara_forward, ara_retrypacket, the trap.        *)

\* ara_forward: the frame of packet p to next hop h of entry e.  On the last
\* hop nobody sends it on, so that the node asks for an acknowledgement.
Outgoing(n, p, e, h) ==
    [p EXCEPT !.from = n, !.to = h, !.ttl = @ - 1,
              !.req = @ \/ e.hop[h].ttl = DefTtl]

\* ara_forward_sys and ara_retrypacket with a route.  With the first packet over
\* a new entry goes a BANT (ara_sendbant).
Depart(n, p, q) ==
    LET d == p.dst
        e == rt[n][d]
        bants == IF e.bant THEN {Ant("bant", n, d, q)} ELSE {}
    IN
    \E h \in DOMAIN e.hop :
       /\ rt' = [rt EXCEPT ![n][d].bant = FALSE]
       /\ next' = [next EXCEPT ![n] = q + Cardinality(bants)]
       /\ wait' = [wait EXCEPT ![n] = @ \cup {Waiting(p.src, p.seq, h, d)}]
       /\ air' = air \cup OnAir(bants \cup {Outgoing(n, p, e, h)})
       /\ UNCHANGED <<trap, timer>>

Trapped(p, count) == [packet |-> p, count |-> count]

\* Mutant: nobody schedules the retry.
TrapUntimed(n, p, count, q, rest) ==
    /\ trap' = [trap EXCEPT ![n][p.dst] = Append(@, Trapped(p, count + 1))]
    /\ next' = [next EXCEPT ![n] = q + 1]
    /\ air' = rest \cup OnAir({Ant("fant", n, p.dst, q)})
    /\ UNCHANGED timer

\* _ara_trap_and_fant, trap_packet: the first packet in a trap sends a FANT and
\* schedules the retry; count is how often this packet has been trapped before.
TrapPacket(n, p, count, q, rest) ==
    LET d == p.dst
        first == trap[n][d] = <<>>
    IN
    IF count + 1 > RetryMax
    THEN next' = [next EXCEPT ![n] = q] /\ air' = rest /\ UNCHANGED <<trap, timer>>
    ELSE /\ trap' = [trap EXCEPT ![n][d] = Append(@, Trapped(p, count + 1))]
         /\ timer' = IF first THEN [timer EXCEPT ![n] = @ \cup {d}] ELSE timer
         /\ next' = [next EXCEPT ![n] = IF first THEN q + 1 ELSE q]
         /\ air' = IF first THEN rest \cup OnAir({Ant("fant", n, d, q)}) ELSE rest

\* A packet of the host: ara_tun2ara, ara_getroute, ara_sendfant, ara_sendbant,
\* ara_forward_sys.
HostSends(r) ==
    LET n == r[1]
        p == Frame("data", n, r[2], next[n], DefTtl, n, All)
    IN
    /\ sends[r] < MaxSends
    /\ sends' = [sends EXCEPT ![r] = @ + 1]
    /\ fate' = With(fate, <<n, next[n]>>, "on the way")
    /\ IF rt[n][r[2]].hop = <<>>
       THEN TrapPacket(n, p, 0, next[n] + 1, air) /\ UNCHANGED <<rt, wait>>
       ELSE Depart(n, p, next[n] + 1)
    /\ UNCHANGED <<lp, hand, took, again, budget>>

\* ara_routefail_untrap_packets: untrap_packets takes the trap away
TimerFires(n, d) ==
    /\ d \in timer[n] /\ hand[n] = <<>>
    /\ timer' = [timer EXCEPT ![n] = @ \ {d}]
    /\ hand' = [hand EXCEPT ![n] = trap[n][d]]
    /\ trap' = [trap EXCEPT ![n][d] = <<>>]
    /\ UNCHANGED <<rt, lp, wait, next, air, sends, history, budget>>

\* and calls ara_retrypacket for each packet.
Retry(n) ==
    LET t == Head(hand[n])
        p == t.packet
    IN
    /\ hand[n] # <<>>
    /\ hand' = [hand EXCEPT ![n] = Tail(@)]
    /\ IF rt[n][p.dst].hop = <<>>
       THEN /\ TrapPacket(n, p, t.count, next[n], air)
            /\ UNCHANGED <<rt, wait>>
            /\ fate' = IF t.count + 1 > RetryMax
                       THEN [fate EXCEPT ![<<p.src, p.seq>>] = "discarded"] ELSE fate
       ELSE Depart(n, p, next[n]) /\ UNCHANGED fate
    /\ UNCHANGED <<lp, sends, took, again, budget>>

-----------------------------------------------------------------------------
(* Reception.  Each handler stands for the chain of callbacks in ara_main.c.  *)

\* ara_checkl2dst: a frame for another node may be an acknowledgement.
Overhear(n, f, rest) ==
    LET acked == {w \in wait[n] : w.src = f.src /\ w.seq = Wire(f.seq) /\ w.hop = f.from}
    IN
    /\ f.kind = "ack" \/ (f.to \notin {n, All} /\ f.dst # n)
    /\ wait' = [wait EXCEPT ![n] = @ \ acked]
    /\ rt' = [rt EXCEPT ![n] = [d \in Host |-> IF \E w \in acked : w.dst = d
                                               THEN Update(@[d], f.from, 0) ELSE @[d]]]
    /\ air' = rest
    /\ UNCHANGED <<lp, trap, timer, hand, next, sends, history>>

\* Mutant: only the target learns the way.
LearnsTarget(n, f) == f.dst = n

\* With node disjoint paths a node on the way keeps the first previous hop.
Learns(n, f) == f.dst = n \/ (~Known(lp[n][f.src], f.seq) /\ rt[n][f.src].hop = <<>>)

\* ara_checkloop, ara_checkdupe, ara_handle_fant, ara_routeupdate_ant, ara_forward.
\* The trace stops an ant at its source; elsewhere it stops what is known anyhow.
ReceiveAnt(n, f, rest) ==
    LET known == Known(lp[n][f.src], f.seq)
        target == f.dst = n
        bants == IF f.kind = "fant" /\ target /\ ~known
                 THEN {Ant("bant", n, f.src, next[n])} ELSE {}
        onward == IF target \/ known THEN {}
                  ELSE {[f EXCEPT !.from = n, !.ttl = @ - 1]}
    IN
    /\ f.kind \in {"fant", "bant"} /\ f.src # n
    /\ lp' = [lp EXCEPT ![n][f.src] = Note(@, f.seq)]
    /\ rt' = IF Learns(n, f)
             THEN [rt EXCEPT ![n][f.src] = Update(@, f.from, f.ttl)] ELSE rt
    /\ next' = [next EXCEPT ![n] = @ + Cardinality(bants)]
    /\ air' = rest \cup OnAir(bants \cup onward)
    /\ UNCHANGED <<trap, timer, hand, wait, sends, history>>

\* An ant that comes back to its source.
DropOwnAnt(n, f, rest) ==
    /\ f.kind \in {"fant", "bant"} /\ f.src = n
    /\ air' = rest
    /\ UNCHANGED <<tables, sends, history>>

\* ara_handle_ack_request
Acks(n, f) ==
    IF f.req THEN {Frame("ack", f.src, f.dst, f.seq, 1, n, f.from)} ELSE {}

ForMe(n, f) == f.kind = "data" /\ (f.to \in {n, All} \/ f.dst = n)

\* A packet that is known and neither returned nor flagged as a route fail.
Loops(n, f) == Known(lp[n][f.src], f.seq) /\ ~f.loop /\ ~f.fail

\* _ara_send_loop_notification
Return(n, f, rest) ==
    LET back == [f EXCEPT !.from = n, !.to = f.from, !.ttl = @ - 1, !.loop = TRUE,
                          !.req = FALSE]
    IN
    /\ ForMe(n, f) /\ f.dst # n /\ Loops(n, f)
    /\ air' = rest \cup OnAir({back} \cup Acks(n, f))
    /\ UNCHANGED <<tables, sends, history>>

\* ara_handle_loops and ara_handle_routefail give up the previous hop.
Failed(n, f) == f.loop \/ (f.fail /\ f.dst # n)

\* ara_routeupdate_data: on the way a packet only strengthens what is known.
Learnt(n, f, e) ==
    IF f.src = n \/ Failed(n, f) THEN {e}
    ELSE IF f.dst = n \/ e.hop = <<>> THEN {Update(e, f.from, f.ttl)}
    ELSE {IF f.from = best THEN Update(e, best, f.ttl) ELSE e : best \in DOMAIN e.hop}

AfterData(n, f, e) ==
    [rt EXCEPT ![n][f.src] = e,
               ![n][f.dst] = IF Failed(n, f) THEN Delete(@, f.from) ELSE @]

\* ara_dropdupe drops what is known; all else is taken.
Drops(n, f) == Known(lp[n][f.src], f.seq) /\ ~f.loop

Take(n, f) ==
    LET id == <<n, f.src, f.seq>> IN
    /\ took' = took \cup {id}
    /\ again' = IF id \in took /\ ~f.loop THEN again \cup {id} ELSE again

\* Where a packet ends: it is dropped, or ara_ara2tun gives it to the host.
EndOfData(n, f, rest) ==
    /\ ForMe(n, f) /\ (f.dst = n \/ (Drops(n, f) /\ ~Loops(n, f)))
    /\ lp' = [lp EXCEPT ![n][f.src] = Note(@, f.seq)]
    /\ \E e \in Learnt(n, f, rt[n][f.src]) : rt' = AfterData(n, f, e)
    /\ air' = rest \cup OnAir(Acks(n, f))
    /\ IF Drops(n, f) THEN UNCHANGED history
       ELSE Take(n, f) /\ fate' = [fate EXCEPT ![<<f.src, f.seq>>] = "delivered"]
    /\ UNCHANGED <<trap, timer, hand, wait, next, sends>>

\* What a node takes and has to send on; it passes these callbacks first.
Passes(n, f) ==
    /\ ForMe(n, f) /\ f.dst # n /\ ~Drops(n, f)
    /\ Take(n, f)
    /\ lp' = [lp EXCEPT ![n][f.src] = Note(@, f.seq)]

\* ara_getroute and ara_forward: a next hop is left.  ARA_ROUTEFAIL stays set: it
\* is looked for in ap->flags, where the bit means ARA_FLOOD.
Relay(n, f, rest) ==
    /\ Passes(n, f)
    /\ \E e \in Learnt(n, f, rt[n][f.src]) :
          LET after == AfterData(n, f, e)
              to == after[n][f.dst]
              p == [f EXCEPT !.loop = FALSE, !.req = FALSE]
          IN
          \E h \in DOMAIN to.hop :
             /\ rt' = [after EXCEPT ![n][f.dst].bant = FALSE]
             /\ wait' = [wait EXCEPT ![n] = @ \cup {Waiting(f.src, f.seq, h, f.dst)}]
             /\ air' = rest \cup OnAir({Outgoing(n, p, to, h)} \cup Acks(n, f))
    /\ UNCHANGED <<trap, timer, hand, next, sends, fate>>

\* ara_noroute, a packet that is no route fail yet becomes one and a broadcast; a
\* route fail of another source goes on to whom it was for.
Flood(n, f, rest) ==
    LET fail == [f EXCEPT !.from = n, !.to = IF f.fail THEN @ ELSE All,
                          !.ttl = IF f.fail THEN @ - 1 ELSE @,
                          !.loop = FALSE, !.fail = TRUE, !.req = FALSE]
    IN
    /\ Passes(n, f)
    /\ ~(f.fail /\ f.src = n)
    /\ \E e \in Learnt(n, f, rt[n][f.src]) :
          /\ rt' = AfterData(n, f, e)
          /\ rt'[n][f.dst].hop = <<>>
    /\ air' = rest \cup OnAir({fail} \cup Acks(n, f))
    /\ UNCHANGED <<trap, timer, hand, wait, next, sends, fate>>

\* ara_noroute: a route fail that comes back to its source goes into the trap.
TrapReturned(n, f, rest) ==
    /\ Passes(n, f)
    /\ f.fail /\ f.src = n
    /\ rt' = AfterData(n, f, rt[n][n])
    /\ rt'[n][f.dst].hop = <<>>
    /\ TrapPacket(n, [f EXCEPT !.fail = FALSE, !.loop = FALSE, !.req = FALSE], 0,
                  next[n], rest \cup OnAir(Acks(n, f)))
    /\ UNCHANGED <<hand, wait, sends, fate>>

Handle(n, f, rest) ==
    \/ Overhear(n, f, rest) \/ ReceiveAnt(n, f, rest) \/ DropOwnAnt(n, f, rest)
    \/ Return(n, f, rest) \/ EndOfData(n, f, rest)
    \/ Relay(n, f, rest) \/ Flood(n, f, rest) \/ TrapReturned(n, f, rest)

Receive == \E x \in air : Handle(x[1], x[2], air \ {x}) /\ UNCHANGED budget

-----------------------------------------------------------------------------
(* Faults and timeouts. *)

Spend == budget > 0 /\ budget' = budget - 1

Repeat == \E x \in air : Spend /\ Handle(x[1], x[2], air)

Lose ==
    \E x \in air :
       /\ Spend
       /\ air' = air \ {x}
       /\ UNCHANGED <<tables, sends, history>>

\* ara_ack_tick.  ara_rt_modify_credit stops at the last next hop without
\* comparing it: when the one it looks for is gone another one pays.
AckMissed(n, w) ==
    LET e == rt[n][w.dst]
        payers == IF w.hop \in DOMAIN e.hop THEN {w.hop} ELSE DOMAIN e.hop
        Paid(h) == [e EXCEPT !.hop[h].credit = @ - 1]
        Left(h) == IF e.hop[h].credit <= 1 THEN Delete(Paid(h), w.hop) ELSE Paid(h)
    IN
    /\ Spend
    /\ wait' = [wait EXCEPT ![n] = @ \ {w}]
    /\ \/ payers = {} /\ UNCHANGED rt
       \/ \E h \in payers : rt' = [rt EXCEPT ![n][w.dst] = Left(h)]
    /\ UNCHANGED <<lp, trap, timer, hand, next, air, sends, history>>

\* ara_rt_tick, a pheromone falls below rt_min_pheromone.
Evaporate(n, d, h) ==
    /\ Spend
    /\ rt' = [rt EXCEPT ![n][d] = Delete(@, h)]
    /\ UNCHANGED <<lp, trap, timer, hand, wait, next, air, sends, history>>

Hops(table) == {x \in Host \X Host \X Host : x[3] \in DOMAIN table[x[1]][x[2]].hop}

Step ==
    \/ \E r \in Request : HostSends(r)
    \/ \E n \in Host : Retry(n) \/ \E d \in Host : TimerFires(n, d)
    \/ Receive \/ Repeat \/ Lose
    \/ \E n \in Host : \E w \in wait[n] : AckMissed(n, w)
    \/ \E n, d \in Host : \E h \in DOMAIN rt[n][d].hop : Evaporate(n, d, h)

Next == Step /\ cut' = (cut \/ ~(Hops(rt) \subseteq Hops(rt')))

Spec == Init /\ [][Next]_vars

\* A frame that is not lost arrives, and the timer thread runs.
FairSpec ==
    /\ Spec /\ WF_state(Receive)
    /\ \A n \in Host : WF_state(Retry(n)) /\ WF_state(\E d \in Host : TimerFires(n, d))

-----------------------------------------------------------------------------
(* Properties. *)

Frames ==
    [kind : {"data", "fant", "bant", "ack"}, src : Host, dst : Host, seq : Nat,
     ttl : 0..DefTtl, from : Host, to : Host \cup {All},
     loop : BOOLEAN, fail : BOOLEAN, req : BOOLEAN]

TypeOK ==
    /\ \A n, d \in Host : LET e == rt[n][d] IN
          /\ DOMAIN e.hop \subseteq {h \in Host : <<h, n>> \in Link}
          /\ e.bant \in BOOLEAN
          /\ \A h \in DOMAIN e.hop : e.hop[h] \in [ttl : 0..DefTtl, credit : Int]
          /\ \A x \in ToSet(trap[n][d]) :
                x.packet \in Frames /\ x.packet.dst = d /\ x.count \in 1..RetryMax
          /\ lp[n][d] \in [last : Nat, seen : SUBSET (0..Window - 1), late : BOOLEAN]
    /\ \A n \in Host : timer[n] \subseteq Host /\ next[n] \in Nat
    /\ \A x \in air : x[1] \in Host /\ x[2] \in Frames
    /\ \A id \in DOMAIN fate : fate[id] \in {"on the way", "delivered", "discarded"}

\* "The message will be dropped if this node did forward exactly this message": a
\* node takes a packet once, and once more for each time that a next hop returns
\* it, whatever is duplicated, reordered and flooded.  This holds until a copy
\* comes in after one from behind a wrap of the numbers (65535 after 0, which is
\* new again), or after half of all numbers.
TakenOnce == \A id \in again : lp[id[1]][id[2]].late

\* Ants and packets leave routes that lead on: until the first next hop is given
\* up, a next hop is the destination or has a next hop itself, whatever is lost,
\* pruned and returned.
NextHopKnows ==
    ~cut => \A x \in Hops(rt) : x[3] = x[2] \/ rt[x[3]][x[2]].hop # <<>>

\* A trap is always emptied again: a packet of the host reaches its destination,
\* or it is discarded after it was trapped too often, when no frame is lost or
\* doubled and no route forgotten.
PacketsEnd ==
    (\E id \in DOMAIN fate : fate[id] = "on the way") ~>
        \/ \A id \in DOMAIN fate : fate[id] # "on the way"
        \/ budget < MaxFaults
=============================================================================
