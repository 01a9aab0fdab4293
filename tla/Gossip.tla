------------------------------- MODULE Gossip -------------------------------
(***************************************************************************)
(* Packets of des-gossip-adv (gossiping_core.c, gossiping_packettrap.c):   *)
(* the host's packets are flooded; who forwards, at once or after having   *)
(* listened for the copies of others, depends on the gossip variant.  With *)
(* variant 11 a node forwards for those that chose it as MPR (Nhdp).       *)
(***************************************************************************)
EXTENDS Nhdp, Bags, Sequences, Functions

CONSTANTS
    All,      \* the broadcast address
    Thread,   \* threads that receive frames; a scenario uses some of them
    LogSize,  \* LOG_SIZE
    K,        \* k, the hops that a packet is flooded over before gossip begins
    M         \* m

ASSUME GossipAssumption ==
    /\ LogSize \in Nat \ {0} /\ {K, M} \subseteq Nat /\ All \notin Node
    /\ \A s \in Scenarios :
          /\ s.plan \in [s.node -> Seq(s.node \cup {All})]
          /\ s.threads \subseteq Thread /\ IsFiniteSet(s.threads)

VARIABLES
    seq,      \* packets sent by each host, and the last one's number
    air,      \* bag of frames on their way
    log,      \* seqlog: by source, the rings found first to last
    job,      \* what each receiving thread does
    trap,     \* trappedpackets; each has its timer
    taken,    \* history: the packets that passed checkSeq, in order
    heard,    \* history: copies received of each packet
    sent,     \* history: packets a node has forwarded
    good      \* history: packets sent into a network that was and stays settled

packetVars == <<seq, air, log, job, trap, taken, heard, sent>>
vars == <<net, faults, nhdpVars, packetVars, good>>

Packet == UNION {{n} \X (1..Len(net.plan[n])) : n \in Here}
Frame == [src : Here, num : Nat, to : Here \cup {All}, via : Here, at : Here, ttl : 0..K]
Idle == [step |-> "idle"]

PacketOf(f) == <<f.src, f.num>>

TypeOK ==
    /\ NhdpTypeOK
    /\ \A n \in Here : seq[n] \in 0..Len(net.plan[n])
    /\ IsABag(air) /\ BagToSet(air) \subseteq Frame
    /\ \A n, m \in Here : \A i \in DOMAIN log[n][m] : Len(log[n][m][i]) \in 1..LogSize
    /\ \A n \in Here, t \in net.threads :
          \/ job[n][t] = Idle
          \/ job[n][t].step \in {"add", "pass", "trap"} /\ job[n][t].f \in Frame
    /\ \A n \in Here : \A i \in DOMAIN trap[n] : PacketOf(trap[n][i].f) \in Packet
    /\ \A n \in Here : Range(taken[n]) \cup sent[n] \cup good \subseteq Packet

Init ==
    /\ NhdpInit
    /\ seq = [n \in Here |-> 0]
    /\ air = EmptyBag
    /\ log = [n \in Here |-> [m \in Here |-> <<>>]]
    /\ job = [n \in Here |-> [t \in net.threads |-> Idle]]
    /\ trap = [n \in Here |-> <<>>]
    /\ taken = [n \in Here |-> <<>>]
    /\ heard = [n \in Here |-> [p \in Packet |-> 0]]
    /\ sent = [n \in Here |-> {}]
    /\ good = {}

-----------------------------------------------------------------------------
(* The packet trap *)

\* storeDroppedPacket, storeForwardedPacket: HASH_FIND and, if there is one, the count.
IndexIn(entries, f) == {i \in DOMAIN entries : PacketOf(entries[i].f) = PacketOf(f)}
Counted(entries, f) ==
    LET is == IndexIn(entries, f)
        Found(i) == i \in is /\ \A j \in is : i <= j
    IN  [i \in DOMAIN entries |->
            IF Found(i) THEN [entries[i] EXCEPT !.cnt = @ + 1] ELSE entries[i]]

Trapped(f, forwarded, count) == [f |-> f, fwd |-> forwarded, cnt |-> count]

\* Mutant: the first copy counts as a duplicate.
FirstCopyCounts(e) == e.cnt < M

\* handleTrappedPacket: few enough copies were received to forward.
Few(e) ==
    \/ net.g \in {3, 6, 14} /\ e.cnt - 1 < M
    \/ net.g = 7 /\ e.cnt - 1 <= M
    \/ net.g = 10 /\ IF e.fwd THEN e.cnt < M ELSE e.cnt - 1 < M

-----------------------------------------------------------------------------
(* Frames *)

UseKHops == net.g \in 1..5

\* dessert_meshsend over all interfaces.
Sent(n, f, ttl) ==
    SetToBag({[f EXCEPT !.via = n, !.at = l[2], !.ttl = ttl] : l \in {r \in net.radio : r[1] = n}})

Forward(n, f, ttl) == air' = air (+) Sent(n, f, ttl) /\ sent' = [sent EXCEPT ![n] = @ \cup {PacketOf(f)}]
NoForward == UNCHANGED <<air, sent>>

\* sendToNetwork, addSeq.  Nobody else stores the packets of this host.
Send(n) ==
    LET f == [src |-> n, num |-> seq[n] + 1, to |-> net.plan[n][seq[n] + 1],
              via |-> n, at |-> n, ttl |-> 0]
    IN
    /\ seq[n] < Len(net.plan[n])
    /\ seq' = [seq EXCEPT ![n] = @ + 1]
    /\ air' = air (+) Sent(n, f, IF UseKHops THEN K ELSE 0)
    /\ trap' = IF net.g = 10 THEN [trap EXCEPT ![n] = <<Trapped(f, TRUE, 0)>> \o @] ELSE trap
    /\ UNCHANGED <<log, job, taken, heard, sent>>

\* Mutant: isDuplicate looks at the number inserted last.
KnowsLast(ring, num) == ring[Len(ring)] = num

Knows(ring, num) == num \in Range(ring)
Inserted(ring, num) == Append(IF Len(ring) = LogSize THEN Tail(ring) ELSE ring, num)

\* checkSeq.  An unknown source gets its ring in a critical section of its own.
\* A known duplicate is counted if the packet is trapped.
Receive(n, t, f) ==
    LET rings == log[n][f.src] IN
    /\ job[n][t] = Idle /\ BagIn(f, air) /\ f.at = n
    /\ air' = air (-) SetToBag({f})
    /\ heard' = IF f.src = n THEN heard ELSE [heard EXCEPT ![n][PacketOf(f)] = @ + 1]
    /\ \/ f.src = n /\ UNCHANGED <<log, job, trap, taken>>
       \/ /\ f.src # n /\ rings = <<>>
          /\ job' = [job EXCEPT ![n][t] = [step |-> "add", f |-> f]]
          /\ UNCHANGED <<log, trap, taken>>
       \/ /\ f.src # n /\ rings # <<>> /\ Knows(rings[1], f.num)
          /\ trap' = [trap EXCEPT ![n] = Counted(@, f)]
          /\ UNCHANGED <<log, job, taken>>
       \/ /\ f.src # n /\ rings # <<>> /\ ~Knows(rings[1], f.num)
          /\ log' = [log EXCEPT ![n][f.src][1] = Inserted(@, f.num)]
          /\ job' = [job EXCEPT ![n][t] = [step |-> "pass", f |-> f]]
          /\ taken' = [taken EXCEPT ![n] = Append(@, PacketOf(f))]
          /\ UNCHANGED trap
    /\ UNCHANGED <<seq, sent>>

\* HASH_ADD of a new ring: it hides one that another thread has added meanwhile.
AddRing(n, t) ==
    LET f == job[n][t].f IN
    /\ job[n][t].step = "add"
    /\ log' = [log EXCEPT ![n][f.src] = <<<<f.num>>>> \o @]
    /\ job' = [job EXCEPT ![n][t].step = "pass"]
    /\ taken' = [taken EXCEPT ![n] = Append(@, PacketOf(f))]
    /\ UNCHANGED <<seq, air, trap, heard, sent>>

\* Mutant: a node forwards for those that it chose, not for those that chose it.
ForwardsForOwnMprs(n, f) ==
    \/ net.g \in {0, 1, 3, 6, 10}
    \/ net.g = 11 /\ f.via \in mpr[n]
    \/ net.g = 12 /\ n \in net.forwarder

\* deliver, floodOnFirstKHops and forward: gossip0, 7, 10, 11, 12 and 14.
MayForward(n, f) ==
    \/ net.g \in {0, 1, 3, 6, 10}
    \/ net.g = 11 /\ f.via \in selector[n]
    \/ net.g = 12 /\ n \in net.forwarder
MayDrop(n, f) == ~MayForward(n, f) \/ (~net.sure /\ net.g # 12)

Trap(n, t, forwarded) ==
    LET f == job[n][t].f IN
    IF IndexIn(trap[n], f) # {}
    THEN trap' = [trap EXCEPT ![n] = Counted(@, f)] /\ job' = [job EXCEPT ![n][t] = Idle]
    ELSE job' = [job EXCEPT ![n][t] = [step |-> "trap", f |-> f, fwd |-> forwarded]] /\ UNCHANGED trap

Finish(n, t) == job' = [job EXCEPT ![n][t] = Idle] /\ UNCHANGED trap

PassOn(n, t) ==
    LET f == job[n][t].f
        flooded == UseKHops /\ f.ttl > 0
    IN
    /\ job[n][t].step = "pass"
    /\ \/ f.to = n /\ NoForward /\ Finish(n, t)
       \/ f.to # n /\ flooded /\ Forward(n, f, f.ttl - 1) /\ Finish(n, t)
       \/ /\ f.to # n /\ ~flooded
          /\ \E forwards \in BOOLEAN :
                /\ \/ forwards /\ MayForward(n, f) /\ Forward(n, f, 0)
                   \/ ~forwards /\ MayDrop(n, f) /\ NoForward
                /\ IF net.g \in {10} \cup IF forwards THEN {} ELSE {3, 6, 7, 14}
                   THEN Trap(n, t, forwards) ELSE Finish(n, t)
    /\ UNCHANGED <<seq, log, taken, heard>>

AddTrap(n, t) ==
    /\ job[n][t].step = "trap"
    /\ trap' = [trap EXCEPT ![n] = <<Trapped(job[n][t].f, job[n][t].fwd, 1)>> \o @]
    /\ job' = [job EXCEPT ![n][t] = Idle]
    /\ UNCHANGED <<seq, air, log, taken, heard, sent>>

\* handleTrappedPacket.  Variants 6 and 7 forward with a probability; variant 10
\* keeps a packet that it forwards for the first time.
TrapTimer(n, i) ==
    LET e == trap[n][i] IN
    /\ \/ Few(e) /\ Forward(n, e.f, 0)
       \/ NoForward /\ (~Few(e) \/ net.g = 6 \/ (net.g = 7 /\ ~net.sure))
    /\ trap' = [trap EXCEPT ![n] = IF net.g = 10 /\ Few(e) /\ ~e.fwd
                                   THEN [@ EXCEPT ![i].fwd = TRUE]
                                   ELSE SubSeq(@, 1, i - 1) \o SubSeq(@, i + 1, Len(@))]
    /\ UNCHANGED <<seq, log, job, taken, heard>>

LoseFrame(f) ==
    /\ Fault
    /\ BagIn(f, air) /\ air' = air (-) SetToBag({f})
    /\ UNCHANGED <<seq, log, job, trap, taken, heard, sent>>

-----------------------------------------------------------------------------

\* The links on which HELLOs pass in both directions, and the sets they lead to.
Symmetric(n) == {m \in Here : <<n, m>> \in net.radio /\ <<m, n>> \in net.radio}
StrictTwoHop(n) == UNION {Symmetric(m) : m \in Symmetric(n)} \ (nset[n] \cup {n})

\* Every node knows its symmetric links and their ends.
Discovered ==
    \A n \in Here :
       /\ {m \in Here : link[n][m] = "sym"} = Symmetric(n) /\ nsym[n] = Symmetric(n)
       /\ \A m \in Symmetric(n) : \A x \in Symmetric(m) \ {n} : <<m, x>> \in n2[n]

\* Every strict 2-hop neighbour is behind a neighbour that knows itself to be MPR.
Relayed ==
    \A n \in Here : \A x \in StrictTwoHop(n) :
       \E m \in Symmetric(n) : /\ x \in Symmetric(m) /\ n \in selector[m]
                               /\ m \in mpr[n] \/ n \in choosing

Settled == Discovered /\ Relayed

\* No HELLO is on its way that says something else.
Quiet == \A l \in net.radio : wire[l] # NoHello => l[1] \notin choosing /\ wire[l] = Hello(l[1])

SentNow == {<<n, seq'[n]>> : n \in {m \in Here : seq'[m] # seq[m]}}

PacketNext ==
    \/ /\ UNCHANGED faults
       /\ \E n \in Here :
             \/ Send(n)
             \/ \E i \in DOMAIN trap[n] : TrapTimer(n, i)
             \/ \E t \in net.threads : \/ AddRing(n, t) \/ PassOn(n, t) \/ AddTrap(n, t)
                                       \/ \E f \in BagToSet(air) : Receive(n, t, f)
    \/ \E f \in BagToSet(air) : LoseFrame(f)

Next ==
    /\ UNCHANGED net
    /\ \/ NhdpNext /\ UNCHANGED packetVars
       \/ PacketNext /\ UNCHANGED nhdpVars
    /\ good' = IF faults' # faults \/ (~(torn \subseteq torn') /\ ~Settled') THEN {}
               ELSE IF net.g = 11 => Settled /\ Quiet THEN good \cup SentNow ELSE good

Spec == Init /\ [][Next]_vars

\* Some thread that has a frame or a packet at hand, or a timer, runs.
PacketFair ==
    WF_packetVars(\E n \in Here :
        \/ \E i \in DOMAIN trap[n] : TrapTimer(n, i)
        \/ \E t \in net.threads : \/ AddRing(n, t) \/ PassOn(n, t) \/ AddTrap(n, t)
                                  \/ \E f \in BagToSet(air) : Receive(n, t, f))
FairSpec == Spec /\ NhdpFair /\ PacketFair

-----------------------------------------------------------------------------
(* Properties *)

\* The sets of a node agree: whatever comes late, expires or is flushed, each link
\* has its neighbour entry, who is 2-hop neighbour over a symmetric neighbour
\* only, no node is its own neighbour, and only who is symmetric chooses an MPR.
SetsAgree ==
    \A n, m \in Here :
       /\ link[n][m] # "none" => m \in nset[n]
       /\ link[n][m] = "sym" => m \in nsym[n]
       /\ n \notin nset[n]
       /\ \A x \in Here : <<m, x>> \in n2[n] => m \in nsym[n]
       /\ m \in selector[n] => m \in nsym[n] /\ link[n][m] # "none"

Relays(n) == Candidates(n2[n], link[n], nsym[n], nset[n])

\* The strict 2-hop neighbours behind some MPR, and behind some candidate.
Covered(n) == {t[2] : t \in {u \in Strict(n, n2[n]) : u[1] \in mpr[n]}}
Coverable(n) == {t[2] : t \in {u \in Strict(n, n2[n]) : u[1] \in Relays(n)}}
WellCovered(n) == Coverable(n) \subseteq Covered(n) \/ Cardinality(Relays(n)) > 2

\* The relays should cover every strict 2-hop neighbour.  _reselect_mprs adds one
\* candidate to the forced ones: with at most two candidates the cover is complete,
\* both when the timer thread chooses without the lock, unless a HELLO or a flush
\* comes between, and when a HELLO that changes the sets makes its thread choose.
UncoveredNeedsThree ==
    [][\A n \in Here :
          \/ n \in choosing \ (torn \cup choosing')
          \/ task[n] = "event" /\ (nset'[n] # nset[n] \/ nsym'[n] # nsym[n] \/ ~(n2'[n] \subseteq n2[n]))
          => WellCovered(n)']_vars

\* After lost HELLOs, expired links and a flush of the sets every node finds its
\* links and 2-hop neighbours again and keeps them, and also its relays, unless the
\* missing return value of _reselect_mprs has ended somebody's periodic choice, or
\* HELLOs keep coming for ever while the timer thread chooses without the lock.
Recovers ==
    net.g = 11 /\ net.radio # {} =>
       /\ <>[]Discovered
       /\ <>[](Relayed \/ \E n \in Here : task[n] = "gone") \/ []<>(torn # {})

\* A packet passes checkSeq twice only when LOG_SIZE others of its source have come
\* in between, or when two threads have each added a ring for the source.
TakenAgainExplained ==
    \A n \in Here : \A i, j \in DOMAIN taken[n] :
       LET src == taken[n][i][1]
           between == {k \in i + 1..j - 1 : taken[n][k][1] = src}
       IN  i < j /\ taken[n][i] = taken[n][j]
           => Len(log[n][src]) > 1 \/ Cardinality(between) >= LogSize

Busy(n, p) == \/ \E i \in DOMAIN trap[n] : PacketOf(trap[n][i].f) = p
              \/ \E t \in net.threads : job[n][t] # Idle /\ PacketOf(job[n][t].f) = p
Destination(p) == net.plan[p[1]][p[2]]

\* Variants 3 and 14: who has taken a packet that is not for itself, has let the
\* timer of the trap run out and stays silent, has heard more than m copies of it,
\* whichever threads count, trap and time out in which order.
SilentHeardEnough ==
    net.g \in {3, 14} =>
    \A n \in Here : \A p \in Range(taken[n]) :
       p \in sent[n] \/ Busy(n, p) \/ Destination(p) = n \/ heard[n][p] > M

Has(n, p) == n = p[1] \/ p \in Range(taken[n])
Everywhere(p) == \A n \in Here : Destination(p) \in {All, n} => Has(n, p)

\* A packet that is sent while the relays have settled reaches its destination or,
\* by broadcast, every node, unless something is lost later or a choice of relays
\* that a HELLO came into leaves somebody without.  Variants that forward with a
\* probability promise this only when the probability is one.
FloodReaches == net.sure => []<>(\A p \in good : Everywhere(p))
=============================================================================
