------------------------------- MODULE Batman -------------------------------
(***************************************************************************)
(* A mesh of des-batman nodes: originators flood OGMs, the others count    *)
(* over which neighbour they come and relay those of the best next hop.    *)
(* Each mesh interface of a node has a receiving thread, and the handler   *)
(* takes the database lock several times: a critical section is a step.    *)
(* An interface is a channel that is common to the nodes in range.  The    *)
(* network loses, delays, reorders and duplicates OGMs.                    *)
(***************************************************************************)
EXTENDS OgmTable

CONSTANTS
    Originator,   \* bound: the nodes whose OGMs are followed
    InRange,      \* <<n, m, i>>: n hears m over the channel i
    UsePrecursor, \* ogm_precursor_mode
    ResendAlways, \* resend_ogm_always
    ResetCount,   \* OGM_RESET_COUNT
    FirstSeq,     \* bound: the sequence numbers originators start at
    Settled,      \* bound: all links are known at first, else none is
    MaxOgms,      \* bound: the most OGMs that are sent
    Budgets       \* bound: the OGMs that are sent, the restarts and timeouts, and
                  \* the delay: an OGM is gone when so many newer ones were sent

Node == Hop

ASSUME BatmanAssumption ==
    /\ Originator \subseteq Node
    /\ InRange \subseteq Node \X Node \X Iface
    /\ \A l \in InRange : l[1] # l[2]
    /\ UsePrecursor \in BOOLEAN /\ ResendAlways \in BOOLEAN
    /\ {ResetCount, MaxOgms} \subseteq Nat
    /\ Budgets \subseteq [ogm : 0 .. MaxOgms, fault : Nat, delay : Nat]
    /\ FirstSeq \subseteq SeqNum /\ Settled \in BOOLEAN

VARIABLES
    rt,     \* routing table of each node: a set of entries for an originator
    nt,     \* bidirectional neighbours of each node, with the interface
    ogmlog, \* newest OGM of an originator a node relayed, as a set
    thread, \* the receiving thread of each node and interface
    heard,  \* last_aw_time of the routes, as the age of the OGM captured
    own,    \* sequence_num and reset_flag_counter of each originator
    air,    \* the OGMs that may still be heard
    budget  \* OGMs, and restarts and timeouts, that are left; the delay

vars == <<rt, nt, ogmlog, thread, heard, own, air, budget>>

Idle == [pc |-> "idle"]

\* The nodes whose tables some OGM that is followed gets into.
Listener == {n \in Node : Originator \ {n} # {}}

Init ==
    /\ rt = [n \in Node |-> [d \in Originator |-> {}]]
    /\ nt = [n \in Node |-> IF Settled /\ n \in Listener
                          THEN {<<l[2], l[3]>> : l \in {k \in InRange : k[1] = n}} ELSE {}]
    /\ ogmlog = [n \in Node |-> [d \in Originator |-> {}]]
    /\ thread = [n \in Node |-> [i \in Iface |-> Idle]]
    /\ heard = [n \in Node |-> [d \in Originator |-> 0]]
    /\ \E s \in FirstSeq :
          own = [d \in Originator |->
                   [seq |-> s, reset |-> IF s = 0 THEN ResetCount ELSE 0]]
    /\ air = {}
    /\ budget \in Budgets

\* The OGM is young enough to be on its way when left OGMs are still to come.
Young(o, left) == o.at - left <= budget.delay

\* sequence_num++, a uint16_t
NextSeq(s) == (s + 1) % SeqMod

\* batman_periodic_send_ogm
SendOgm(d) ==
    /\ budget.ogm > 0
    /\ own' = [own EXCEPT ![d].seq = NextSeq(@),
                          ![d].reset = IF @ > 0 THEN @ - 1 ELSE 0]
    /\ budget' = [budget EXCEPT !.ogm = @ - 1]
    /\ air' = {o \in air : Young(o, budget'.ogm)} \cup
                 {[orig |-> d, from |-> d, seq |-> own'[d].seq,
                   reset |-> own[d].reset > 0, prec |-> {},
                   at |-> budget'.ogm]}
    /\ UNCHANGED <<rt, nt, ogmlog, thread, heard>>

\* batman_drop_errors: m sent an OGM of n back to it with the D flag, so that
\* batman_db_cap2Dneigh takes the link as bidirectional.  OGMs of nodes that
\* are not in Originator serve for nothing else and are not kept in air.
CaptureNeighbour(n, m, i) ==
    /\ {<<n, m, i>>, <<m, n, i>>} \subseteq InRange
    /\ n \in Originator => \E o \in air : o.orig = n
    /\ <<m, i>> \notin nt[n]
    /\ nt' = [nt EXCEPT ![n] = @ \cup {<<m, i>>}]
    /\ UNCHANGED <<rt, ogmlog, thread, heard, own, air, budget>>

\* batman_db_getroutesn
RouteSn(n, d) == IF rt[n][d] = {} THEN -1 ELSE (CHOOSE e \in rt[n][d] : TRUE).seq

\* batman_handle_ogm, until the sequence number of the route is read.  An OGM
\* with the reset flag that is older by ResetCount, counted without wrapping,
\* deletes the route.  OGMs of n itself were dropped by batman_drop_errors.
ReceiveOgm(n, i, o) ==
    LET last == RouteSn(n, o.orig) IN
    /\ thread[n][i] = Idle
    /\ o.from # n /\ o.orig # n
    /\ <<n, o.from, i>> \in InRange
    /\ <<o.from, i>> \in nt[n]
    /\ thread' = [thread EXCEPT ![n][i] =
                    [pc |-> "capture", ogm |-> o, last |-> last]]
    /\ IF o.reset /\ last >= 0 /\ last - o.seq >= ResetCount
       THEN rt' = [rt EXCEPT ![n][o.orig] = {}]
       ELSE UNCHANGED rt
    /\ UNCHANGED <<nt, ogmlog, heard, own, air, budget>>

\* Whether batman_handle_ogm captures an OGM.
IsNewer(n, o, last) ==
    IF UsePrecursor
    THEN n \notin o.prec /\ (last = -1 \/ Comp(o.seq, last) >= 0)
    ELSE last = -1 \/ Comp(last, o.seq) < 0

\* batman_db_captureroute, in the next critical section.
CaptureRoute(n, i) ==
    LET t == thread[n][i]
        o == t.ogm
        old == IF rt[n][o.orig] = {} THEN NewEntry(i)
               ELSE CHOOSE e \in rt[n][o.orig] : TRUE
    IN
    /\ t.pc = "capture"
    /\ IF IsNewer(n, o, t.last)
       THEN /\ \E e \in AddOgm(old, i, o.from, o.seq) :
                  rt' = [rt EXCEPT ![n][o.orig] = {e}]
            /\ heard' = [heard EXCEPT ![n][o.orig] = budget.ogm]
       ELSE UNCHANGED <<rt, heard>>
    /\ thread' = [thread EXCEPT ![n][i] =
                    [t EXCEPT !.pc = IF ResendAlways THEN "log" ELSE "choose"]]
    /\ UNCHANGED <<nt, ogmlog, own, air, budget>>

\* The OGM came over the best next hop and the best interface.
FromBestHop(n, i, o) ==
    \E e \in rt[n][o.orig] : e.out = i /\ BestHop(e) = o.from

ChooseRelay(n, i) ==
    LET t == thread[n][i] IN
    /\ t.pc = "choose"
    /\ thread' = [thread EXCEPT ![n][i] =
                    IF FromBestHop(n, i, t.ogm) THEN [t EXCEPT !.pc = "log"]
                    ELSE Idle]
    /\ UNCHANGED <<rt, nt, ogmlog, heard, own, air, budget>>

\* batman_db_ogm_addid
NotRelayed(n, o) == \A s \in ogmlog[n][o.orig] : Comp(s, o.seq) < 0

\* The OGM is sent on all interfaces.
Relay(n, i) ==
    LET t == thread[n][i]
        o == t.ogm
    IN
    /\ t.pc = "log"
    /\ IF NotRelayed(n, o)
       THEN /\ ogmlog' = [ogmlog EXCEPT ![n][o.orig] = {o.seq}]
            /\ air' = air \cup
                  {r \in {[o EXCEPT !.from = n,
                                    !.prec = IF UsePrecursor
                                             THEN @ \cup {n} ELSE @]} :
                     Young(r, budget.ogm)}
       ELSE UNCHANGED <<ogmlog, air>>
    /\ thread' = [thread EXCEPT ![n][i] = Idle]
    /\ UNCHANGED <<rt, nt, heard, own, budget>>

\* on_neigbor_timeout and pudge_old_destination.  PURGE_TIMEOUT is longer than
\* any OGM is on its way: what was in the air when a route was captured is gone.
Timeout(n) ==
    /\ budget.fault > 0
    /\ \/ \E l \in nt[n] : nt' = [nt EXCEPT ![n] = @ \ {l}] /\ UNCHANGED rt
       \/ \E d \in Originator :
             /\ rt[n][d] # {} /\ heard[n][d] - budget.ogm > budget.delay
             /\ rt' = [rt EXCEPT ![n][d] = {}]
             /\ UNCHANGED nt
    /\ budget' = [budget EXCEPT !.fault = @ - 1]
    /\ UNCHANGED <<ogmlog, thread, heard, own, air>>

\* The daemon of an originator starts anew.
Restart(d) ==
    /\ budget.fault > 0
    /\ rt' = [rt EXCEPT ![d] = [c \in Originator |-> {}]]
    /\ nt' = [nt EXCEPT ![d] = {}]
    /\ ogmlog' = [ogmlog EXCEPT ![d] = [c \in Originator |-> {}]]
    /\ thread' = [thread EXCEPT ![d] = [i \in Iface |-> Idle]]
    /\ own' = [own EXCEPT ![d] = [seq |-> 0, reset |-> ResetCount]]
    /\ budget' = [budget EXCEPT !.fault = @ - 1]
    /\ UNCHANGED <<heard, air>>

Next ==
    \/ \E d \in Originator : SendOgm(d) \/ Restart(d)
    \/ \E n \in Listener, m \in Node, i \in Iface : CaptureNeighbour(n, m, i)
    \/ \E n \in Node, i \in Iface :
          \/ \E o \in air : ReceiveOgm(n, i, o)
          \/ CaptureRoute(n, i) \/ ChooseRelay(n, i) \/ Relay(n, i)
    \/ \E n \in Node : Timeout(n)

Spec == Init /\ [][Next]_vars

-----------------------------------------------------------------------------
(* Properties. *)

Ogm == [orig : Originator, from : Node, seq : SeqNum, reset : BOOLEAN,
        prec : SUBSET Node, at : Nat]

TypeOK ==
    /\ \A n \in Node, d \in Originator :
          /\ Cardinality(rt[n][d]) <= 1
          /\ \A e \in rt[n][d] :
                /\ e.out \in Iface /\ e.seq \in SeqNum
                /\ e.win \in [Iface -> [Hop -> SUBSET SeqNum]]
                /\ e.best \in [Iface -> Hop \cup {NoHop}]
    /\ nt \in [Node -> SUBSET (Node \X Iface)]
    /\ ogmlog \in [Node -> [Originator -> SUBSET SeqNum]]
    /\ own \in [Originator -> [seq : SeqNum, reset : 0 .. ResetCount]]
    /\ air \subseteq Ogm

\* Whatever two threads of a node interleave, the route that is read without a
\* check (batman_db_rt_getbestroute) leads over an interface and a next hop of
\* the entry that have heard OGMs.
RoutesUsable ==
    \A n \in Node, d \in Originator : \A e \in rt[n][d] : Usable(e)
=============================================================================
