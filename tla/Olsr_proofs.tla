---------------------------- MODULE Olsr_proofs ----------------------------
(***************************************************************************)
(* Proofs about des-olsr, for any network, any HELLOs and TCs, either      *)
(* metric and either order of events: the 2-hop sets mirror each other,    *)
(* the topology of an originator is that of its newest TC, the routes of   *)
(* olsr_db_rc_dijkstra are the best ones over the tables, and the relays   *)
(* of olsr_db_rc_chose_mprset cover.  StateTyped and one invariant per     *)
(* property; Loop and Reaching are those of the two loops.                 *)
(***************************************************************************)
EXTENDS Olsr, FiniteSetTheorems, WellFoundedInduction, TLAPS

\* Every set of numbers has a least one: how the inductions below are done.
LEMMA LeastNat ==
    ASSUME NEW T, T \subseteq Nat, T # {}
    PROVE  \E x \in T : \A y \in T : x <= y
<1> DEFINE R == {ss \in Nat \X Nat : ss[1] < ss[2]}
<1>1. IsWellFoundedOn(R, Nat)
    BY NatLessThanWellFounded DEF OpToRel
<1>2. \E x \in T : \A y \in T : <<y, x>> \notin R
    <2> HIDE DEF R
    <2> QED
        BY <1>1, WFMin
<1>3. PICK x \in T : \A y \in T : <<y, x>> \notin R
    BY <1>2
<1>4. ASSUME NEW y \in T PROVE x <= y
    <2>1. <<y, x>> \notin R /\ x \in Nat /\ y \in Nat
        BY <1>3
    <2> QED
        BY <2>1
<1> QED
    BY <1>4

-----------------------------------------------------------------------------

Pairs == (Node \cup {Self}) \X Quality

Tuple == [mpr : BOOLEAN, best : Iface \cup {NoIface}, quality : Quality \cup {0}]

Doing ==
    {Idle} \cup [pc : {"pending"}]
    \cup [pc : {"tc"}, orig : TcOrig, tc : DOMAIN TcList]

NeighboursTyped ==
    /\ DOMAIN ns \subseteq Neigh
    /\ \A m \in DOMAIN ns : ns[m] \in Tuple

TwoHopTyped == hop2 \subseteq Neigh \X Node \X Quality

TopologyTyped ==
    /\ DOMAIN tc \subseteq TcOrig
    /\ \A o \in DOMAIN tc : tc[o].seq \in SeqNum /\ tc[o].links \subseteq Pairs

StateTyped ==
    /\ link \in [InRange -> {"none", "asym", "sym", "lost"}]
    /\ NeighboursTyped
    /\ TwoHopTyped
    /\ TopologyTyped
    /\ pending \in BOOLEAN
    /\ thread \in [Iface -> Doing]
    /\ builder \in {"idle", "build", "reset"}
    /\ got \in [TcOrig -> SUBSET DOMAIN TcList]

\* What a HELLO over a symmetric link leaves in the tables.
Heard1(i, m, hello) ==
    With(ns, m, UpdatedTuple(IF m \in DOMAIN ns THEN ns[m] ELSE NewTuple, i, hello))

HeardNew(i, m, hello) ==
    {<<m, p[1], p[2]>> :
        p \in {q \in hello.list : q[1] \notin DOMAIN Heard1(i, m, hello)}}

HeardTwo(i, m, hello) ==
    {t \in WithoutTwoHop(hop2, m) : \A u \in HeardNew(i, m, hello) :
        <<t[1], t[2]>> # <<u[1], u[2]>>} \cup HeardNew(i, m, hello)

LEMMA HelloStores ==
    ASSUME NEW i, NEW m, NEW hello, HandleHello(i, m, hello), hello.sym
    PROVE  /\ hop2' = HeardTwo(i, m, hello)
           /\ hop1' = WithoutTwoHop(hop1, m)
                         \cup {<<m, t[2]>> : t \in HeardNew(i, m, hello)}
           /\ ns' = [h \in DOMAIN Heard1(i, m, hello) |->
                        [Heard1(i, m, hello)[h] EXCEPT !.mpr =
                            h \in Mprs(Heard1(i, m, hello), HeardTwo(i, m, hello))]]
BY DEF HandleHello, Heard1, HeardNew, HeardTwo

LEMMA HelloTyped ==
    ASSUME NeighboursTyped, TwoHopTyped, NEW i \in Iface, NEW m \in Neigh,
           NEW hello \in Hello(m), hello.sym
    PROVE  /\ DOMAIN Heard1(i, m, hello) = DOMAIN ns \cup {m}
           /\ \A h \in DOMAIN Heard1(i, m, hello) : Heard1(i, m, hello)[h] \in Tuple
           /\ hello.quality \in Quality
           /\ hello.list \subseteq Node \X Quality
           /\ \A p, q \in hello.list : p[1] = q[1] => p = q
           /\ HeardNew(i, m, hello) \subseteq Neigh \X Node \X Quality
           /\ HeardTwo(i, m, hello) \subseteq Neigh \X Node \X Quality
<1>1. /\ hello.quality \in Quality
      /\ hello.list \in SUBSET {p \in Heard : p[1] # m}
      /\ \A p, q \in hello.list : p[1] = q[1] => p = q
    <2> DEFINE Lists == {L \in SUBSET {p \in Heard : p[1] # m} :
                            \A p, q \in L : p[1] = q[1] => p = q}
    <2>1. hello \in [sym : {TRUE}, quality : Quality, list : Lists]
        <3>1. hello \in [sym : {TRUE}, quality : Quality, list : Lists]
                           \cup {[sym |-> FALSE]}
            BY DEF Hello
        <3>2. hello # [sym |-> FALSE]
            OBVIOUS
        <3> HIDE DEF Lists
        <3> QED
            BY <3>1, <3>2
    <2> QED
        BY <2>1
<1>2. hello.list \subseteq Node \X Quality
    BY <1>1, OlsrAssumption
<1>3. DOMAIN Heard1(i, m, hello) = DOMAIN ns \cup {m}
    BY DEF Heard1, With
<1>4. ASSUME NEW h \in DOMAIN Heard1(i, m, hello)
      PROVE  Heard1(i, m, hello)[h] \in Tuple
    <2> DEFINE old == IF m \in DOMAIN ns THEN ns[m] ELSE NewTuple
    <2>1. old \in Tuple
        BY DEF NeighboursTyped, NewTuple, Tuple
    <2> DEFINE new == UpdatedTuple(old, i, hello)
    <2>0. Heard1(i, m, hello) = With(ns, m, new)
        BY DEF Heard1
    <2> HIDE DEF old
    <2>2. new \in Tuple
        BY <1>1, <2>1 DEF UpdatedTuple, Tuple
    <2> HIDE DEF new
    <2>3. CASE h = m
        BY <2>0, <2>2, <2>3 DEF With
    <2>4. CASE h # m
        <3>1. h \in DOMAIN ns \ {m}
            BY <1>3, <2>4
        <3>2. Heard1(i, m, hello)[h] = ns[h]
            BY <2>0, <3>1, <2>4 DEF With
        <3> QED
            BY <3>1, <3>2 DEF NeighboursTyped
    <2> QED
        BY <2>3, <2>4
<1>5. HeardNew(i, m, hello) \subseteq Neigh \X Node \X Quality
    BY <1>2 DEF HeardNew
<1>6. HeardTwo(i, m, hello) \subseteq Neigh \X Node \X Quality
    BY <1>5 DEF HeardTwo, TwoHopTyped, WithoutTwoHop
<1> QED
    BY <1>1, <1>2, <1>3, <1>4, <1>5, <1>6

-----------------------------------------------------------------------------

LEMMA InitIsTyped == Init => StateTyped
<1> SUFFICES ASSUME Init PROVE StateTyped
    OBVIOUS
<1>1. DOMAIN Empty = {}
    BY DEF Empty
<1> QED
    BY <1>1 DEF Init, StateTyped, NeighboursTyped, TwoHopTyped, TopologyTyped, Doing

LEMMA TcNumbers == DOMAIN TcList \subseteq Nat \ {0}
<1>1. Cardinality(DOMAIN TcList) \in Nat
    BY FS_CardinalityType, OlsrAssumption
<1> QED
    BY <1>1, OlsrAssumption

LEMMA TcSeqTyped ==
    ASSUME NEW k \in DOMAIN TcList
    PROVE  TcSeq(k) \in SeqNum
<1>1. k \in Int /\ FirstTc \in Int /\ SeqMod \in Nat \ {0}
    BY TcNumbers, OlsrAssumption, SeqModAssumption DEF SeqNum
<1>2. FirstTc + k - 1 \in Int
    BY <1>1
<1> DEFINE n == FirstTc + k - 1
<1> HIDE DEF n
<1>3. \A x \in Int : x % SeqMod \in 0 .. SeqMod - 1
    BY <1>1
<1>4. n % SeqMod \in 0 .. SeqMod - 1
    BY <1>2, <1>3 DEF n
<1> QED
    BY <1>4 DEF n, TcSeq, SeqNum

LEMMA NextIsTyped == StateTyped /\ [Next]_vars => StateTyped'
<1> SUFFICES ASSUME StateTyped, [Next]_vars PROVE StateTyped'
    OBVIOUS
<1> USE DEF StateTyped
<1>1. ASSUME NEW i \in Iface, NEW m \in Neigh, <<i, m>> \in InRange,
             NEW hello \in Hello(m), HandleHello(i, m, hello)
      PROVE  StateTyped'
    <2>1. link' \in [InRange -> {"none", "asym", "sym", "lost"}]
        BY <1>1 DEF HandleHello
    <2>2. thread' \in [Iface -> Doing]
        BY <1>1 DEF HandleHello, Doing
    <2>3. tc' = tc /\ pending' = pending /\ builder' = builder /\ got' = got
        BY <1>1 DEF HandleHello
    <2>4. TopologyTyped'
        BY <2>3 DEF TopologyTyped
    <2>5. NeighboursTyped' /\ TwoHopTyped'
        <3>1. CASE hello.sym
            <4> DEFINE n == Heard1(i, m, hello)
                       two == HeardTwo(i, m, hello)
            <4>1. /\ DOMAIN n = DOMAIN ns \cup {m}
                  /\ \A h \in DOMAIN n : n[h] \in Tuple
                  /\ two \subseteq Neigh \X Node \X Quality
                BY <3>1, HelloTyped
            <4>2. /\ hop2' = two
                  /\ ns' = [h \in DOMAIN n |-> [n[h] EXCEPT !.mpr = h \in Mprs(n, two)]]
                BY <1>1, <3>1, HelloStores
            <4> HIDE DEF n, two
            <4>3. ASSUME NEW h \in DOMAIN n PROVE ns'[h] \in Tuple
                <5> DEFINE b == h \in Mprs(n, two)
                <5>1. b \in BOOLEAN
                    OBVIOUS
                <5>2. ns'[h] = [n[h] EXCEPT !.mpr = b]
                    BY <4>2
                <5> HIDE DEF b
                <5> QED
                    BY <4>1, <5>1, <5>2 DEF Tuple
            <4>4. DOMAIN ns' = DOMAIN n
                BY <4>2
            <4> QED
                BY <4>1, <4>2, <4>3, <4>4 DEF NeighboursTyped, TwoHopTyped
        <3>2. CASE ~hello.sym
            BY <1>1, <3>2 DEF HandleHello, NeighboursTyped, TwoHopTyped
        <3> QED
            BY <3>1, <3>2
    <2> QED
        BY <2>1, <2>2, <2>3, <2>4, <2>5
<1>2. ASSUME NEW i \in Iface, NEW o \in TcOrig, NEW k \in DOMAIN TcList,
             HandleTc(i, o, k)
      PROVE  StateTyped'
    <2>1. thread' \in [Iface -> Doing]
        BY <1>2 DEF HandleTc, Doing
    <2>2. got' \in [TcOrig -> SUBSET DOMAIN TcList]
        BY <1>2 DEF HandleTc
    <2>3. TopologyTyped'
        <3> DEFINE e == [seq |-> TcSeq(k), num |-> k,
                         links |-> IF o \in DOMAIN tc THEN tc[o].links ELSE {}]
        <3>1. tc' = With(tc, o, e)
            BY <1>2 DEF HandleTc
        <3>2. e.seq \in SeqNum /\ e.links \subseteq Pairs
            BY TcSeqTyped DEF TopologyTyped
        <3> HIDE DEF e
        <3> QED
            BY <3>1, <3>2 DEF With, TopologyTyped
    <2>4. UNCHANGED <<link, ns, hop2, pending, builder>>
        BY <1>2 DEF HandleTc
    <2> QED
        BY <2>1, <2>2, <2>3, <2>4 DEF NeighboursTyped, TwoHopTyped
<1>3. ASSUME NEW i \in Iface, StoreTc(i)
      PROVE  StateTyped'
    <2>1. thread' \in [Iface -> Doing]
        BY <1>3 DEF StoreTc, Doing
    <2>2. /\ thread[i].orig \in TcOrig /\ thread[i].tc \in DOMAIN TcList
        BY <1>3 DEF StoreTc, Doing, Idle
    <2>3. got' \in [TcOrig -> SUBSET DOMAIN TcList]
        BY <1>3, <2>2 DEF StoreTc
    <2>4. TopologyTyped'
        <3> DEFINE o == thread[i].orig
                   k == thread[i].tc
                   e == [seq |-> IF o \notin DOMAIN tc THEN 0 ELSE tc[o].seq,
                         num |-> IF o \notin DOMAIN tc THEN 0 ELSE tc[o].num,
                         links |-> TcList[k]]
        <3>1. tc' = Without(tc, {o}) \/ tc' = With(tc, o, e)
            BY <1>3 DEF StoreTc
        <3>2. 0 \in SeqNum
            BY SeqModAssumption DEF SeqNum
        <3>3. e.seq \in SeqNum /\ e.links \subseteq Pairs
            BY <2>2, <3>2, OlsrAssumption DEF TopologyTyped, Pairs
        <3>4. o \in TcOrig
            BY <2>2
        <3> HIDE DEF e, o
        <3>5. CASE tc' = Without(tc, {o})
            BY <3>5 DEF Without, TopologyTyped
        <3>6. CASE tc' = With(tc, o, e)
            BY <3>3, <3>4, <3>6 DEF With, TopologyTyped
        <3> QED
            BY <3>1, <3>5, <3>6
    <2>5. UNCHANGED <<link, ns, hop2, pending, builder>>
        BY <1>3 DEF StoreTc
    <2> QED
        BY <2>1, <2>3, <2>4, <2>5 DEF NeighboursTyped, TwoHopTyped
<1>4. ASSUME NEW i \in Iface, SetPending(i)
      PROVE  StateTyped'
    BY <1>4 DEF SetPending, Doing, NeighboursTyped, TwoHopTyped, TopologyTyped
<1>5. ASSUME NEW l \in InRange, LinkTimeOver(l) \/ PurgeLink(l)
      PROVE  StateTyped'
    BY <1>5 DEF LinkTimeOver, PurgeLink, NeighboursTyped, TwoHopTyped, TopologyTyped
<1>6. ASSUME NEW m \in Neigh, PurgeNeighbour(m)
      PROVE  StateTyped'
    <2>1. /\ ns' = Without(ns, {m}) /\ hop2' \subseteq hop2
          /\ UNCHANGED <<link, tc, pending, thread, builder, got>>
        BY <1>6 DEF PurgeNeighbour, WithoutOneHop
    <2>2. NeighboursTyped'
        BY <2>1 DEF Without, NeighboursTyped
    <2> QED
        BY <2>1, <2>2 DEF TwoHopTyped, TopologyTyped
<1>7. ASSUME NEW t \in hop2, PurgeTwoHop(t)
      PROVE  StateTyped'
    BY <1>7 DEF PurgeTwoHop, NeighboursTyped, TwoHopTyped, TopologyTyped
<1>8. ASSUME NEW o \in TcOrig, PurgeTc(o)
      PROVE  StateTyped'
    <2>1. /\ tc' = Without(tc, {o}) /\ got' = [got EXCEPT ![o] = {}]
          /\ UNCHANGED <<link, ns, hop2, pending, thread, builder>>
        BY <1>8 DEF PurgeTc
    <2>2. TopologyTyped'
        BY <2>1 DEF Without, TopologyTyped
    <2> QED
        BY <2>1, <2>2 DEF TwoHopTyped, NeighboursTyped
<1>9. CASE StartBuild \/ Build \/ EndBuild
    BY <1>9 DEF StartBuild, Build, EndBuild, NeighboursTyped, TwoHopTyped,
                TopologyTyped
<1>10. CASE UNCHANGED vars
    BY <1>10 DEF vars, NeighboursTyped, TwoHopTyped, TopologyTyped
<1> QED
    BY <1>1, <1>2, <1>3, <1>4, <1>5, <1>6, <1>7, <1>8, <1>9, <1>10 DEF Next

-----------------------------------------------------------------------------

\* Each pair of a 1-hop and a 2-hop neighbour is there once.
PairOnce == \A t, u \in hop2 : t[1] = u[1] /\ t[2] = u[2] => t = u

Mirror == TwoHopSetsMirror /\ PairOnce

LEMMA HelloMirrors ==
    ASSUME StateTyped, Mirror, NEW i \in Iface, NEW m \in Neigh,
           NEW hello \in Hello(m), HandleHello(i, m, hello), hello.sym
    PROVE  Mirror'
<1> DEFINE n == Heard1(i, m, hello)
           new == HeardNew(i, m, hello)
           two == HeardTwo(i, m, hello)
<1>1. /\ DOMAIN n = DOMAIN ns \cup {m}
      /\ \A p, q \in hello.list : p[1] = q[1] => p = q
      /\ hello.list \subseteq Node \X Quality
      /\ new \subseteq Neigh \X Node \X Quality
      /\ two \subseteq Neigh \X Node \X Quality
    BY HelloTyped DEF StateTyped
<1>2. /\ hop2' = two
      /\ hop1' = WithoutTwoHop(hop1, m) \cup {<<m, t[2]>> : t \in new}
      /\ DOMAIN ns' = DOMAIN n
    BY HelloStores
<1>3. \A t \in new : t[1] = m /\ t[2] \notin DOMAIN n
    BY DEF HeardNew
<1>4. \A t, u \in new : t[2] = u[2] => t = u
    BY <1>1 DEF HeardNew
<1>5. \A t : t \in two <=> \/ t \in new
                           \/ /\ t \in hop2 /\ t[2] # m
                              /\ \A u \in new : <<t[1], t[2]>> # <<u[1], u[2]>>
    BY DEF HeardTwo, WithoutTwoHop
<1>6. hop2 \subseteq Neigh \X Node \X Quality
    BY DEF StateTyped, TwoHopTyped
<1>7. /\ hop1 = {<<t[1], t[2]>> : t \in hop2}
      /\ \A t \in hop2 : t[1] \in DOMAIN ns /\ t[2] \notin DOMAIN ns
      /\ \A t, u \in hop2 : t[1] = u[1] /\ t[2] = u[2] => t = u
    BY DEF Mirror, TwoHopSetsMirror, PairOnce
<1> HIDE DEF n, new, two
<1>8. hop1' = {<<t[1], t[2]>> : t \in two}
    <2>1. ASSUME NEW p \in hop1'
          PROVE  \E t \in two : p = <<t[1], t[2]>>
        <3>1. CASE \E t \in new : p = <<m, t[2]>>
            BY <3>1, <1>3, <1>5
        <3>2. CASE p \in hop1 /\ p[2] # m
            <4>1. PICK t \in hop2 : p = <<t[1], t[2]>>
                BY <3>2, <1>7
            <4>2. t[2] # m
                BY <3>2, <4>1
            <4>3. CASE \E u \in new : <<t[1], t[2]>> = <<u[1], u[2]>>
                BY <4>1, <4>3, <1>5
            <4>4. CASE \A u \in new : <<t[1], t[2]>> # <<u[1], u[2]>>
                BY <4>1, <4>2, <4>4, <1>5
            <4> QED
                BY <4>3, <4>4
        <3> QED
            BY <2>1, <1>2, <3>1, <3>2 DEF WithoutTwoHop
    <2>2. ASSUME NEW t \in two
          PROVE  <<t[1], t[2]>> \in hop1'
        <3>1. CASE t \in new
            BY <3>1, <1>2, <1>3
        <3>2. CASE t \in hop2 /\ t[2] # m
            <4>1. <<t[1], t[2]>> \in hop1
                BY <3>2, <1>7
            <4>2. <<t[1], t[2]>> \in WithoutTwoHop(hop1, m)
                BY <3>2, <4>1 DEF WithoutTwoHop
            <4> QED
                BY <4>2, <1>2
        <3> QED
            BY <3>1, <3>2, <1>5
    <2> QED
        BY <2>1, <2>2
<1>9. ASSUME NEW t \in two
      PROVE  t[1] \in DOMAIN n /\ t[2] \notin DOMAIN n
    BY <1>1, <1>3, <1>5, <1>7
<1>10. ASSUME NEW t \in two, NEW u \in two, t[1] = u[1], t[2] = u[2]
       PROVE  t = u
    <2>1. CASE t \in new /\ u \in new
        BY <1>4, <1>10, <2>1
    <2>2. CASE t \notin new /\ u \notin new
        BY <1>5, <1>7, <1>10, <2>2
    <2>3. CASE t \in new /\ u \notin new
        BY <1>5, <1>10, <2>3
    <2>4. CASE t \notin new /\ u \in new
        BY <1>5, <1>10, <2>4
    <2> QED
        BY <2>1, <2>2, <2>3, <2>4
<1> QED
    BY <1>2, <1>8, <1>9, <1>10 DEF Mirror, TwoHopSetsMirror, PairOnce

LEMMA NextMirrors == StateTyped /\ Mirror /\ [Next]_vars => Mirror'
<1> SUFFICES ASSUME StateTyped, Mirror, [Next]_vars PROVE Mirror'
    OBVIOUS
<1> USE DEF Mirror, TwoHopSetsMirror, PairOnce
<1>1. ASSUME NEW i \in Iface, NEW m \in Neigh, NEW hello \in Hello(m),
             HandleHello(i, m, hello)
      PROVE  Mirror'
    <2>1. CASE hello.sym
        BY <1>1, <2>1, HelloMirrors
    <2>2. CASE ~hello.sym
        BY <1>1, <2>2 DEF HandleHello
    <2> QED
        BY <2>1, <2>2
<1>2. ASSUME NEW m \in Neigh, PurgeNeighbour(m)
      PROVE  Mirror'
    <2>1. /\ DOMAIN ns' = DOMAIN ns \ {m}
          /\ hop2' = {t \in hop2 : t[1] # m}
          /\ hop1' = {t \in hop1 : t[1] # m}
        BY <1>2 DEF Without, PurgeNeighbour, WithoutOneHop
    <2>2. hop1' = {<<t[1], t[2]>> : t \in hop2'}
        BY <2>1
    <2> QED
        BY <2>1, <2>2
<1>3. ASSUME NEW t \in hop2, PurgeTwoHop(t)
      PROVE  Mirror'
    <2>1. ns' = ns /\ hop2' = hop2 \ {t} /\ hop1' = hop1 \ {<<t[1], t[2]>>}
        BY <1>3 DEF PurgeTwoHop
    <2>2. \A u \in hop2 : <<u[1], u[2]>> = <<t[1], t[2]>> => u = t
        OBVIOUS
    <2>3. hop1' = {<<u[1], u[2]>> : u \in hop2'}
        BY <2>1, <2>2
    <2> QED
        BY <2>1, <2>3
<1>4. ASSUME UNCHANGED <<ns, hop2, hop1>> PROVE Mirror'
    BY <1>4
<1>5. ASSUME NEW i \in Iface, NEW o \in TcOrig, NEW k \in DOMAIN TcList,
             HandleTc(i, o, k)
      PROVE  UNCHANGED <<ns, hop2, hop1>>
    BY <1>5 DEF HandleTc
<1>6. ASSUME NEW i \in Iface, StoreTc(i) \/ SetPending(i)
      PROVE  UNCHANGED <<ns, hop2, hop1>>
    BY <1>6 DEF StoreTc, SetPending
<1>7. ASSUME NEW l \in InRange, LinkTimeOver(l) \/ PurgeLink(l)
      PROVE  UNCHANGED <<ns, hop2, hop1>>
    BY <1>7 DEF LinkTimeOver, PurgeLink
<1>8. ASSUME NEW o \in TcOrig, PurgeTc(o)
      PROVE  UNCHANGED <<ns, hop2, hop1>>
    BY <1>8 DEF PurgeTc
<1>9. StartBuild \/ Build \/ EndBuild => UNCHANGED <<ns, hop2, hop1>>
    BY DEF StartBuild, Build, EndBuild
<1>10. UNCHANGED vars => UNCHANGED <<ns, hop2, hop1>>
    BY DEF vars
<1> HIDE DEF Mirror, TwoHopSetsMirror, PairOnce
<1> QED
    BY <1>1, <1>2, <1>3, <1>4, <1>5, <1>6, <1>7, <1>8, <1>9, <1>10 DEF Next

LEMMA InitMirrors == Init => Mirror
<1>1. DOMAIN Empty = {}
    BY DEF Empty
<1> QED
    BY <1>1 DEF Init, Mirror, TwoHopSetsMirror, PairOnce

\* The 1-hop sets and 2-hop sets that olsr_db_ns_* keeps twice, from either end,
\* agree after every HELLO, timeout and purge.
THEOREM SpecTwoHopSetsMirror == Spec => []TwoHopSetsMirror
<1>1. StateTyped /\ Mirror => TwoHopSetsMirror
    BY DEF Mirror
<1>2. Init => StateTyped /\ Mirror
    BY InitIsTyped, InitMirrors
<1>3. StateTyped /\ Mirror /\ [Next]_vars => (StateTyped /\ Mirror)'
    BY NextIsTyped, NextMirrors
<1> QED
    BY <1>1, <1>2, <1>3, PTL DEF Spec
-----------------------------------------------------------------------------

\* The comparison of numbers can tell two TCs of a node apart.
Close(k, l) == k - l < (SeqMod - 1) \div 2 /\ l - k < (SeqMod - 1) \div 2

\* A TC that is taken is not half the range of numbers away from the newest one
\* that was taken since the entry was made.
TcsNear ==
    \A i \in Iface, o \in TcOrig, k \in DOMAIN TcList :
       HandleTc(i, o, k) /\ o \in DOMAIN tc
          => \A l \in got[o] : IsNewest(o, l) => Close(k, l)

LEMMA ModOfDiff ==
    ASSUME NEW S \in Nat \ {0}, NEW x \in 0 .. S - 1, NEW q \in Int
    PROVE  (x - S * q) % S = x
OBVIOUS

LEMMA Division ==
    ASSUME NEW S \in Nat \ {0}, NEW a \in Int
    PROVE  a \div S \in Int /\ a % S \in 0 .. S - 1 /\ a = S * (a \div S) + (a % S)
OBVIOUS

LEMMA CompOfNear ==
    ASSUME NEW a \in Int, NEW d \in Nat, d < (SeqMod - 1) \div 2
    PROVE  /\ d # 0 => Comp((a + d) % SeqMod, a % SeqMod) = 1
           /\ d # 0 => Comp(a % SeqMod, (a + d) % SeqMod) = -1
           /\ d # 0 => (a + d) % SeqMod # a % SeqMod
<1> DEFINE S == SeqMod
           b == a + d
           qa == a \div S
           qb == b \div S
           ra == a % S
           rb == b % S
           half == (S - 1) \div 2
<1>1. S \in Nat \ {0} /\ S >= 8 /\ half \in Nat /\ 2 * half <= S - 1
    BY SeqModAssumption
<1>2. b \in Int
    OBVIOUS
<1>3. qa \in Int /\ ra \in 0 .. S - 1 /\ a = S * qa + ra
    BY <1>1, Division
<1>4. qb \in Int /\ rb \in 0 .. S - 1 /\ b = S * qb + rb
    <2> HIDE DEF b
    <2> QED
        BY <1>1, <1>2, Division
<1>5. d < half
    OBVIOUS
<1> HIDE DEF S, qa, qb, ra, rb, half
<1>6. rb - ra = d - S * (qb - qa)
    <2> DEFINE pa == S * qa
               pb == S * qb
    <2>1. S * (qb - qa) = pb - pa
        BY <1>1, <1>3, <1>4
    <2>2. pb \in Int /\ pa \in Int
        BY <1>1, <1>3, <1>4
    <2>3. a = pa + ra /\ a + d = pb + rb
        BY <1>3, <1>4
    <2> HIDE DEF pa, pb
    <2>4. rb - ra = d - (pb - pa)
        BY <1>3, <1>4, <2>2, <2>3
    <2> QED
        BY <2>1, <2>4
<1>7. (rb - ra) % S = d
    <2>1. d \in 0 .. S - 1 /\ qb - qa \in Int
        BY <1>1, <1>3, <1>4, <1>5
    <2> QED
        BY <1>1, <1>6, <2>1, ModOfDiff
<1>8. ASSUME d # 0 PROVE (ra - rb) % S = S - d
    <2> DEFINE pa == S * qa
               pb == S * qb
    <2>1. S * (qa - qb + 1) = pa - pb + S
        BY <1>1, <1>3, <1>4
    <2>2. pb \in Int /\ pa \in Int /\ a = pa + ra /\ a + d = pb + rb
        BY <1>1, <1>3, <1>4
    <2>3. ra - rb = (S - d) - S * (qa - qb + 1)
        <3> HIDE DEF pa, pb
        <3>1. ra - rb = (S - d) - (pa - pb + S)
            BY <1>1, <1>3, <1>4, <2>2
        <3> QED
            BY <2>1, <3>1
    <2>4. S - d \in 0 .. S - 1 /\ qa - qb + 1 \in Int
        BY <1>1, <1>3, <1>4, <1>5, <1>8
    <2> QED
        BY <1>1, <2>3, <2>4, ModOfDiff
<1>9. ra % S = ra /\ rb % S = rb
    BY <1>1, <1>3, <1>4
<1>10. ASSUME d # 0 PROVE ra # rb
    <2>1. 0 % S = 0
        BY <1>1
    <2>2. ra = rb => ra - rb = 0
        BY <1>3
    <2>3. S - d # 0
        BY <1>1, <1>5
    <2> QED
        BY <2>1, <2>2, <2>3, <1>8, <1>10
<1>11. ASSUME d # 0 PROVE Comp(rb, ra) = 1 /\ Comp(ra, rb) = -1
    <2>1. ~(S - d < half)
        BY <1>1, <1>5
    <2> QED
        BY <1>5, <1>7, <1>8, <1>9, <1>10, <1>11, <2>1 DEF Comp, S, half
<1> QED
    BY <1>10, <1>11 DEF ra, rb, S

LEMMA TcIndex ==
    ASSUME NEW k \in DOMAIN TcList
    PROVE  k \in Int
<1>1. DOMAIN TcList = 1 .. Cardinality(DOMAIN TcList)
    BY OlsrAssumption
<1> DEFINE n == Cardinality(DOMAIN TcList)
<1> HIDE DEF n
<1>2. k \in 1 .. n
    BY <1>1 DEF n
<1> QED
    BY <1>2

\* A TC that passes the check was sent after the one it is compared with.
LEMMA TcOrder ==
    ASSUME NEW k \in DOMAIN TcList, NEW l \in DOMAIN TcList, Close(k, l),
           Comp(TcSeq(l), TcSeq(k)) < 0
    PROVE  l < k
<1>1. k \in Int /\ l \in Int /\ FirstTc \in Int
    BY TcIndex, OlsrAssumption DEF SeqNum
<1>2. CASE k = l
    <2>1. Comp(TcSeq(l), TcSeq(k)) = 0
        BY <1>2 DEF Comp
    <2> QED
        BY <2>1
<1>3. CASE k < l
    <2> DEFINE a == FirstTc + k - 1
               d == l - k
               c == FirstTc + l - 1
    <2>1. a \in Int /\ d \in Nat /\ d # 0 /\ d < (SeqMod - 1) \div 2 /\ c = a + d
        BY <1>1, <1>3 DEF Close
    <2>2. TcSeq(k) = a % SeqMod /\ TcSeq(l) = c % SeqMod
        BY DEF TcSeq
    <2> HIDE DEF a, d, c
    <2>3. Comp(TcSeq(l), TcSeq(k)) = 1
        BY <2>1, <2>2, CompOfNear
    <2> QED
        BY <2>3
<1> QED
    BY <1>1, <1>2, <1>3

\* k is the newest TC taken from o; its neighbours are stored, or a thread is
\* about to store them.
NewestOf(o, k) ==
    /\ IsNewest(o, k)
    /\ tc[o].num = k /\ tc[o].seq = TcSeq(k)
    /\ \/ tc[o].links = TcList[k]
       \/ \E i \in Iface : thread[i] = [pc |-> "tc", orig |-> o, tc |-> k]

NewestTaken == crossed \/ \A o \in DOMAIN tc : \E k \in got[o] : NewestOf(o, k)

LEMMA NextNewest ==
    StateTyped /\ NewestTaken /\ Next /\ TcsNear => NewestTaken'
<1> SUFFICES ASSUME StateTyped, NewestTaken, Next, TcsNear PROVE NewestTaken'
    OBVIOUS
<1>1. /\ got \in [TcOrig -> SUBSET DOMAIN TcList]
      /\ thread \in [Iface -> Doing]
      /\ DOMAIN tc \subseteq TcOrig
    BY DEF StateTyped, TopologyTyped
<1>2. crossed => crossed'
    <2>1. ASSUME NEW i \in Iface, NEW m \in Neigh, NEW hello \in Hello(m),
                 HandleHello(i, m, hello)
          PROVE  crossed' = crossed
        BY <2>1 DEF HandleHello
    <2>2. ASSUME NEW i \in Iface, NEW o \in TcOrig, NEW k \in DOMAIN TcList,
                 HandleTc(i, o, k)
          PROVE  crossed' = crossed
        BY <2>2 DEF HandleTc
    <2>3. ASSUME NEW i \in Iface, StoreTc(i) PROVE crossed => crossed'
        BY <2>3 DEF StoreTc
    <2>4. ASSUME NEW i \in Iface, SetPending(i) PROVE crossed' = crossed
        BY <2>4 DEF SetPending
    <2>5. ASSUME NEW l \in InRange, LinkTimeOver(l) \/ PurgeLink(l)
          PROVE  crossed' = crossed
        BY <2>5 DEF LinkTimeOver, PurgeLink
    <2>6. ASSUME NEW m \in Neigh, PurgeNeighbour(m) PROVE crossed' = crossed
        BY <2>6 DEF PurgeNeighbour
    <2>7. ASSUME NEW t \in hop2, PurgeTwoHop(t) PROVE crossed' = crossed
        BY <2>7 DEF PurgeTwoHop
    <2>8. ASSUME NEW o \in TcOrig, PurgeTc(o) PROVE crossed' = crossed
        BY <2>8 DEF PurgeTc
    <2>9. StartBuild \/ Build \/ EndBuild \/ UNCHANGED vars => crossed' = crossed
        BY DEF StartBuild, Build, EndBuild, vars
    <2> QED
        BY <2>1, <2>2, <2>3, <2>4, <2>5, <2>6, <2>7, <2>8, <2>9 DEF Next
<1>3. SUFFICES ASSUME ~crossed, ~crossed', NEW o \in DOMAIN tc'
               PROVE  \E k \in got'[o] : NewestOf(o, k)'
    BY <1>2 DEF NewestTaken
<1>4. \A d \in DOMAIN tc : \E k \in got[d] : NewestOf(d, k)
    BY <1>3 DEF NewestTaken
\* The entry stays, and every thread that holds a TC of o keeps it.
<1>5. ASSUME o \in DOMAIN tc, tc'[o] = tc[o], got'[o] = got[o],
             \A i \in Iface : thread[i].pc = "tc" /\ thread[i].orig = o
                                 => thread'[i] = thread[i]
      PROVE  \E k \in got'[o] : NewestOf(o, k)'
    <2>1. PICK k \in got[o] : NewestOf(o, k)
        BY <1>4, <1>5
    <2>2. NewestOf(o, k)'
        BY <2>1, <1>5 DEF NewestOf, IsNewest
    <2> QED
        BY <2>1, <2>2, <1>5
<1>6. ASSUME UNCHANGED <<tc, got>>,
             \A i \in Iface : thread[i].pc = "tc" => thread'[i] = thread[i]
      PROVE  \E k \in got'[o] : NewestOf(o, k)'
    BY <1>3, <1>5, <1>6
<1>7. ASSUME NEW i \in Iface, NEW m \in Neigh, NEW hello \in Hello(m),
             HandleHello(i, m, hello)
      PROVE  \E k \in got'[o] : NewestOf(o, k)'
    <2>1. /\ UNCHANGED <<tc, got>> /\ thread[i] = Idle
          /\ thread' = [thread EXCEPT ![i] = [pc |-> "pending"]]
        BY <1>7 DEF HandleHello
    <2>2. \A j \in Iface : thread[j].pc = "tc" => thread'[j] = thread[j]
        BY <2>1, <1>1 DEF Idle
    <2> QED
        BY <2>1, <2>2, <1>6
<1>8. ASSUME NEW i \in Iface, NEW p \in TcOrig, NEW k \in DOMAIN TcList,
             HandleTc(i, p, k)
      PROVE  \E l \in got'[o] : NewestOf(o, l)'
    <2> DEFINE e == [seq |-> TcSeq(k), num |-> k,
                     links |-> IF p \in DOMAIN tc THEN tc[p].links ELSE {}]
               work == [pc |-> "tc", orig |-> p, tc |-> k]
    <2>1. /\ thread[i] = Idle /\ thread' = [thread EXCEPT ![i] = work]
          /\ tc' = With(tc, p, e)
          /\ got' = [got EXCEPT ![p] = IF p \in DOMAIN tc THEN @ \cup {k} ELSE {k}]
          /\ Accepts(p, TcSeq(k))
        BY <1>8 DEF HandleTc
    <2> HIDE DEF work
    <2>2. thread'[i] = work
        BY <1>1, <2>1
    <2>3. e.seq = TcSeq(k) /\ e.num = k
        OBVIOUS
    <2> HIDE DEF e
    <2>4. CASE o = p
        <3>1. tc'[o] = e
            BY <2>1, <2>4 DEF With
        <3>2. k \in got'[o] /\ \A l \in got'[o] : l <= k
            <4>1. CASE p \in DOMAIN tc
                <5>1. PICK j \in got[p] : NewestOf(p, j)
                    BY <1>4, <4>1
                <5>2. Comp(TcSeq(j), TcSeq(k)) < 0
                    BY <2>1, <4>1, <5>1 DEF Accepts, NewestOf
                <5>3. j \in DOMAIN TcList
                    BY <1>1, <5>1
                <5>7. Close(k, j)
                    BY <1>8, <4>1, <5>1 DEF TcsNear, NewestOf
                <5>4. j < k /\ j \in Int /\ k \in Int
                    BY <5>2, <5>3, <5>7, TcOrder, TcIndex
                <5>5. \A l \in got[p] : l \in Int
                    BY <1>1, TcIndex
                <5>6. got'[o] = got[p] \cup {k}
                    BY <1>1, <2>1, <2>4, <4>1
                <5> QED
                    BY <5>1, <5>4, <5>5, <5>6 DEF NewestOf, IsNewest
            <4>2. CASE p \notin DOMAIN tc
                <5>1. got'[o] = {k}
                    BY <1>1, <2>1, <2>4, <4>2
                <5>2. k \in Int
                    BY TcIndex
                <5> QED
                    BY <5>1, <5>2
            <4> QED
                BY <4>1, <4>2
        <3>3. \E j \in Iface : thread'[j] = [pc |-> "tc", orig |-> o, tc |-> k]
            BY <2>2, <2>4 DEF work
        <3>4. NewestOf(o, k)'
            BY <2>3, <3>1, <3>2, <3>3 DEF NewestOf, IsNewest
        <3> QED
            BY <3>2, <3>4
    <2>5. CASE o # p
        <3>1. o \in DOMAIN tc /\ tc'[o] = tc[o]
            BY <1>3, <2>1, <2>5 DEF With
        <3>2. got'[o] = got[o]
            BY <1>1, <2>1, <2>5, <3>1
        <3>3. \A j \in Iface : thread[j].pc = "tc" => thread'[j] = thread[j]
            BY <1>1, <2>1 DEF Idle
        <3> QED
            BY <3>1, <3>2, <3>3, <1>5
    <2> QED
        BY <2>4, <2>5
<1>9. ASSUME NEW i \in Iface, StoreTc(i)
      PROVE  \E l \in got'[o] : NewestOf(o, l)'
    <2> DEFINE p == thread[i].orig
               k == thread[i].tc
               e == [seq |-> IF p \notin DOMAIN tc THEN 0 ELSE tc[p].seq,
                     num |-> IF p \notin DOMAIN tc THEN 0 ELSE tc[p].num,
                     links |-> TcList[k]]
    <2>1. /\ thread[i].pc = "tc"
          /\ thread' = [thread EXCEPT ![i] = [pc |-> "pending"]]
          /\ \/ tc' = Without(tc, {p}) /\ got' = [got EXCEPT ![p] = {}]
             \/ /\ tc' = With(tc, p, e) /\ got' = got
                /\ p \in DOMAIN tc /\ tc[p].num = k
        BY <1>3, <1>9 DEF StoreTc
    <2>2. p \in TcOrig /\ k \in DOMAIN TcList
        BY <1>1, <2>1 DEF Doing, Idle
    <2>3. p \in DOMAIN tc => e.seq = tc[p].seq /\ e.num = tc[p].num
        OBVIOUS
    <2>4. e.links = TcList[k]
        OBVIOUS
    <2> HIDE DEF e
    <2>5. CASE o # p
        <3>1. o \in DOMAIN tc /\ tc'[o] = tc[o]
            BY <1>3, <2>1, <2>5 DEF With, Without
        <3>2. got'[o] = got[o]
            BY <1>1, <2>1, <2>5, <3>1
        <3>3. \A j \in Iface : thread[j].pc = "tc" /\ thread[j].orig = o
                                  => thread'[j] = thread[j]
            BY <1>1, <2>1, <2>5
        <3> QED
            BY <3>1, <3>2, <3>3, <1>5
    <2>6. CASE o = p
        <3> HIDE DEF p, k
        <3>1. ~(tc' = Without(tc, {p}))
            BY <1>3, <2>6 DEF Without
        <3>2. tc' = With(tc, p, e) /\ got' = got /\ p \in DOMAIN tc /\ tc[p].num = k
            BY <2>1, <3>1
        <3>3. PICK j \in got[p] : NewestOf(p, j)
            BY <1>4, <3>2
        <3>4. tc[p].seq = TcSeq(j) /\ tc[p].num = j
            BY <3>3 DEF NewestOf
        <3>5. j = k
            BY <3>2, <3>4
        <3>6. tc'[o] = e
            BY <2>6, <3>2 DEF With
        <3>7. e.seq = TcSeq(j) /\ e.num = j
            BY <2>3, <3>2, <3>4
        <3>8. got'[o] = got[p]
            BY <2>6, <3>2
        <3>9. tc'[o].num = j /\ tc'[o].seq = TcSeq(j) /\ tc'[o].links = TcList[j]
            BY <2>4, <3>5, <3>6, <3>7
        <3>10. NewestOf(o, j)'
            BY <2>6, <3>3, <3>8, <3>9 DEF NewestOf, IsNewest
        <3> QED
            BY <3>3, <3>8, <3>10
    <2> QED
        BY <2>5, <2>6
<1>10. ASSUME NEW i \in Iface, SetPending(i)
       PROVE  \E l \in got'[o] : NewestOf(o, l)'
    <2>1. /\ UNCHANGED <<tc, got>> /\ thread[i].pc = "pending"
          /\ thread' = [thread EXCEPT ![i] = Idle]
        BY <1>10 DEF SetPending
    <2>2. \A j \in Iface : thread[j].pc = "tc" => thread'[j] = thread[j]
        BY <2>1, <1>1
    <2> QED
        BY <2>1, <2>2, <1>6
<1>11. ASSUME NEW p \in TcOrig, PurgeTc(p)
       PROVE  \E l \in got'[o] : NewestOf(o, l)'
    <2>1. /\ tc' = Without(tc, {p}) /\ got' = [got EXCEPT ![p] = {}]
          /\ thread' = thread
        BY <1>11 DEF PurgeTc
    <2>2. o # p /\ o \in DOMAIN tc /\ tc'[o] = tc[o]
        BY <1>3, <2>1 DEF Without
    <2>3. got'[o] = got[o]
        BY <1>1, <2>1, <2>2
    <2> QED
        BY <2>1, <2>2, <2>3, <1>5
<1>12. ASSUME UNCHANGED <<tc, got, thread>>
       PROVE  \E l \in got'[o] : NewestOf(o, l)'
    BY <1>6, <1>12
<1>13. ASSUME NEW l \in InRange, LinkTimeOver(l) \/ PurgeLink(l)
       PROVE  UNCHANGED <<tc, got, thread>>
    BY <1>13 DEF LinkTimeOver, PurgeLink
<1>14. ASSUME NEW m \in Neigh, PurgeNeighbour(m)
       PROVE  UNCHANGED <<tc, got, thread>>
    BY <1>14 DEF PurgeNeighbour
<1>15. ASSUME NEW t \in hop2, PurgeTwoHop(t)
       PROVE  UNCHANGED <<tc, got, thread>>
    BY <1>15 DEF PurgeTwoHop
<1>16. StartBuild \/ Build \/ EndBuild \/ UNCHANGED vars
           => UNCHANGED <<tc, got, thread>>
    BY DEF StartBuild, Build, EndBuild, vars
<1> QED
    BY <1>7, <1>8, <1>9, <1>10, <1>11, <1>12, <1>13, <1>14, <1>15, <1>16 DEF Next

LEMMA InitNewest == Init => NewestTaken
<1>1. DOMAIN Empty = {}
    BY DEF Empty
<1> QED
    BY <1>1 DEF Init, NewestTaken

LEMMA StutterNewest == NewestTaken /\ UNCHANGED vars => NewestTaken'
<1> SUFFICES ASSUME NewestTaken, UNCHANGED vars PROVE NewestTaken'
    OBVIOUS
<1>1. UNCHANGED <<tc, got, thread, crossed>>
    BY DEF vars
<1>2. \A o, k : NewestOf(o, k) => NewestOf(o, k)'
    BY <1>1 DEF NewestOf, IsNewest
<1> QED
    BY <1>1, <1>2 DEF NewestTaken

\* Unless two TCs of a node crossed between the check of the number and the
\* replacement of the set, the neighbours stored for it are those of its newest
\* TC, in whatever order they come and however often their numbers wrap, as long
\* as none is taken that is half the range away from the newest one before.
THEOREM SpecTopologyNewest ==
    Spec /\ [][TcsNear]_vars => []TopologyNewest
<1>1. ASSUME StateTyped, NewestTaken PROVE TopologyNewest
    <2>1. SUFFICES ASSUME ~crossed, NEW o \in DOMAIN tc,
                          ~\E i \in Iface : thread[i].pc = "tc" /\ thread[i].orig = o
                   PROVE  \E k \in got[o] : IsNewest(o, k) /\ tc[o].links = TcList[k]
        BY DEF TopologyNewest
    <2>2. PICK k \in got[o] : NewestOf(o, k)
        BY <1>1, <2>1 DEF NewestTaken
    <2> QED
        BY <2>1, <2>2 DEF NewestOf
<1>2. Init => StateTyped /\ NewestTaken
    BY InitIsTyped, InitNewest
<1>3. StateTyped /\ NewestTaken /\ [Next]_vars /\ [TcsNear]_vars
          => (StateTyped /\ NewestTaken)'
    BY NextIsTyped, NextNewest, StutterNewest
<1> QED
    BY <1>1, <1>2, <1>3, PTL DEF Spec
-----------------------------------------------------------------------------

\* No quality is better than that of a perfect link.
TopQuality == 1000000

\* A candidate, a route or a path, by its length and quality, is at least as
\* good as another by the metric.
Geq(h, q, g, p) == IF ByHops THEN h <= g ELSE q >= p

Valued(e) ==
    e.hops \in Nat /\ e.quality \in Nat /\ e.quality <= TopQuality

LEMMA GeqFacts ==
    /\ \A h, q, g, p, f, o \in Nat :
          Geq(h, q, g, p) /\ Geq(g, p, f, o) => Geq(h, q, f, o)
    /\ \A h, q \in Nat : Geq(h, q, h, q)
    /\ \A c, d : Valued(c) /\ Valued(d) /\ ~Better(d, c)
                    => Geq(c.hops, c.quality, d.hops, d.quality)
BY DEF Geq, Valued, Better

LEMMA QualityShrinks ==
    ASSUME NEW q \in Nat, NEW p, p[2] \in 0 .. 100
    PROVE  PathQuality(q, p) \in Nat /\ PathQuality(q, p) <= q
<1> DEFINE w == p[2]
<1>1. w \in 0 .. 100
    OBVIOUS
<1> HIDE DEF w
<1>2. q * w \in Nat /\ q * w <= q * 100
    <2>1. q * 100 = q * w + q * (100 - w)
        BY <1>1
    <2>2. q * (100 - w) \in Nat /\ q * w \in Nat
        BY <1>1
    <2> QED
        BY <2>1, <2>2
<1> DEFINE v == q * w
<1>3. v \in Nat /\ v <= q * 100
    BY <1>2
<1> HIDE DEF v
<1>4. v \div 100 \in Nat /\ v \div 100 <= q
    BY <1>3
<1> QED
    BY <1>4 DEF PathQuality, v, w

LEMMA QualityGrows ==
    ASSUME NEW q \in Nat, NEW r \in Nat, r <= q, NEW p, p[2] \in 0 .. 100
    PROVE  PathQuality(r, p) <= PathQuality(q, p)
<1> DEFINE w == p[2]
           v == q * w
           u == r * w
<1>1. w \in 0 .. 100
    OBVIOUS
<1> HIDE DEF w
<1>2. u \in Nat /\ v \in Nat /\ u <= v
    <2>1. q * w = r * w + (q - r) * w
        BY <1>1
    <2>2. q - r \in Nat
        OBVIOUS
    <2>3. (q - r) * w \in Nat /\ r * w \in Nat
        BY <1>1, <2>2
    <2> QED
        BY <2>1, <2>3
<1> HIDE DEF u, v
<1>3. u \div 100 <= v \div 100
    BY <1>2
<1> QED
    BY <1>3 DEF PathQuality, u, v, w

\* One more link makes nothing better, and keeps the order.
LEMMA GeqLink ==
    ASSUME NEW h \in Nat, NEW q \in Nat, NEW g \in Nat, NEW o \in Nat,
           NEW p, p[2] \in 0 .. 100
    PROVE  /\ Geq(h, q, h + 1, PathQuality(q, p))
           /\ Geq(h, q, g, o) =>
                 Geq(h + 1, PathQuality(q, p), g + 1, PathQuality(o, p))
<1>1. PathQuality(q, p) <= q
    BY QualityShrinks
<1>2. o <= q => PathQuality(o, p) <= PathQuality(q, p)
    BY QualityGrows
<1>3. PathQuality(q, p) \in Nat /\ PathQuality(o, p) \in Nat
    BY QualityShrinks
<1> QED
    BY <1>1, <1>2, <1>3 DEF Geq

LEMMA LeastOf ==
    ASSUME NEW C, NEW m \in [C -> Nat], C # {}
    PROVE  \E x \in C : \A y \in C : m[x] <= m[y]
<1> DEFINE T == {m[e] : e \in C}
<1>1. T \subseteq Nat /\ T # {}
    OBVIOUS
<1>2. \E h \in T : \A g \in T : h <= g
    <2> HIDE DEF T
    <2> QED
        BY <1>1, LeastNat
<1>3. PICK h \in T : \A g \in T : h <= g
    BY <1>2
<1>4. PICK x \in C : m[x] = h
    OBVIOUS
<1>5. \A y \in C : m[y] \in T
    OBVIOUS
<1> HIDE DEF T
<1> QED
    BY <1>3, <1>4, <1>5

\* Among any candidates there is one that none is better than.
LEMMA BestExists ==
    ASSUME NEW C, C # {}, \A e \in C : Valued(e)
    PROVE  \E x \in C : \A y \in C : ~Better(y, x)
<1>1. CASE ByHops
    <2> DEFINE m == [e \in C |-> e.hops]
    <2>1. m \in [C -> Nat]
        BY DEF Valued
    <2>2. PICK x \in C : \A y \in C : m[x] <= m[y]
        <3> HIDE DEF m
        <3> QED
            BY <2>1, LeastOf
    <2>3. \A y \in C : ~(y.hops < x.hops)
        BY <2>2 DEF Valued
    <2> QED
        BY <2>3, <1>1 DEF Better
<1>2. CASE ~ByHops
    <2> DEFINE m == [e \in C |-> TopQuality - e.quality]
    <2>1. m \in [C -> Nat]
        BY DEF Valued, TopQuality
    <2>2. PICK z \in C : \A y \in C : m[z] <= m[y]
        <3> HIDE DEF m
        <3> QED
            BY <2>1, LeastOf
    <2>3. \A y \in C : ~(y.quality > z.quality)
        BY <2>2 DEF Valued, TopQuality
    <2> DEFINE D == {e \in C : e.quality = z.quality}
               l == [e \in D |-> e.hops]
    <2>4. D # {} /\ l \in [D -> Nat]
        BY DEF Valued
    <2>5. PICK x \in D : \A y \in D : l[x] <= l[y]
        <3> HIDE DEF D, l
        <3> QED
            BY <2>4, LeastOf
    <2>6. \A y \in D : ~(y.hops < x.hops)
        BY <2>5 DEF Valued
    <2>7. x \in C /\ x.quality = z.quality
        OBVIOUS
    <2>8. ASSUME NEW y \in C PROVE ~Better(y, x)
        <3>1. ~(y.quality > x.quality)
            BY <2>3, <2>7
        <3>2. y.quality = x.quality => y \in D
            BY <2>7
        <3>3. y.quality = x.quality => ~(y.hops < x.hops)
            BY <3>2, <2>6
        <3> HIDE DEF D
        <3> QED
            BY <3>1, <3>3, <1>2 DEF Better
    <2> QED
        BY <2>7, <2>8
<1> QED
    BY <1>1, <1>2

-----------------------------------------------------------------------------

Size == Cardinality(Node)

LEMMA SizeIsNat == Size \in Nat /\ IsFiniteSet(Node)
BY FS_CardinalityType, OlsrAssumption DEF Size

\* f is the recursive function of Dijkstra.
Turns(f, n) == f = [k \in 0 .. n |-> IF k = 0 THEN Start ELSE Turn(f[k - 1])]

LEMMA TurnsExist == \A n \in Nat : \E f : Turns(f, n)
<1> DEFINE Bad == {n \in Nat : ~\E f : Turns(f, n)}
<1>1. SUFFICES ASSUME Bad # {} PROVE FALSE
    OBVIOUS
<1>2. PICK n \in Bad : \A m \in Bad : n <= m
    <2>1. Bad \subseteq Nat
        OBVIOUS
    <2> HIDE DEF Bad
    <2> QED
        BY <1>1, <2>1, LeastNat
<1>3. CASE n = 0
    <2> DEFINE f == [k \in 0 .. 0 |-> Start]
    <2>1. f = [k \in 0 .. 0 |-> IF k = 0 THEN Start ELSE Turn(f[k - 1])]
        OBVIOUS
    <2> QED
        BY <1>2, <1>3, <2>1 DEF Turns
<1>4. CASE n # 0
    <2>1. n - 1 \in Nat /\ n - 1 \notin Bad
        BY <1>2, <1>4
    <2>2. PICK f : Turns(f, n - 1)
        BY <2>1
    <2> DEFINE g == [k \in 0 .. n |-> IF k = n THEN Turn(f[n - 1]) ELSE f[k]]
    <2>3. ASSUME NEW k \in 0 .. n
          PROVE  g[k] = IF k = 0 THEN Start ELSE Turn(g[k - 1])
        <3>1. CASE k = n
            <4>1. g[k] = Turn(f[n - 1]) /\ g[k - 1] = f[n - 1] /\ k # 0
                BY <1>2, <1>4, <3>1
            <4> HIDE DEF g
            <4> QED
                BY <3>1, <4>1
        <3>2. CASE k # n
            <4>1. k \in 0 .. n - 1 /\ n \in Nat
                BY <1>2, <3>2
            <4>2. f[k] = IF k = 0 THEN Start ELSE Turn(f[k - 1])
                BY <2>2, <4>1 DEF Turns
            <4>3. g[k] = f[k] /\ (k # 0 => g[k - 1] = f[k - 1])
                BY <3>2, <4>1
            <4> HIDE DEF g
            <4> QED
                BY <4>2, <4>3
        <3> QED
            BY <3>1, <3>2
    <2>4. g = [k \in 0 .. n |-> g[k]]
        OBVIOUS
    <2> HIDE DEF g
    <2>5. Turns(g, n)
        BY <2>3, <2>4 DEF Turns
    <2> QED
        BY <1>2, <2>5
<1> QED
    BY <1>3, <1>4

LEMMA DijkstraTurns ==
    \E f : /\ f[0] = Start
           /\ \A k \in 1 .. Size : f[k] = Turn(f[k - 1])
           /\ Dijkstra = f[Size].routes
<1> DEFINE state[k \in 0 .. Cardinality(Node)] ==
              IF k = 0 THEN Start ELSE Turn(state[k - 1])
<1>1. Dijkstra = state[Cardinality(Node)].routes
    BY DEF Dijkstra
<1>2. Turns(state, Cardinality(Node))
    <2>1. \E f : Turns(f, Cardinality(Node))
        BY TurnsExist, SizeIsNat DEF Size
    <2> QED
        BY <2>1 DEF Turns
<1> HIDE DEF state
<1>3. state[0] = Start /\ \A k \in 1 .. Size : state[k] = Turn(state[k - 1])
    BY <1>2, SizeIsNat DEF Turns, Size
<1> QED
    BY <1>1, <1>3 DEF Size
-----------------------------------------------------------------------------

\* all[k] are the paths with at most k links behind a neighbour.
Grown(all, n) ==
    all = [k \in 0 .. n |->
             IF k = 0 THEN Shortest ELSE all[k - 1] \cup Longer(all[k - 1])]

LEMMA PathsExist == \A n \in Nat : \E all : Grown(all, n)
<1> DEFINE Bad == {n \in Nat : ~\E all : Grown(all, n)}
<1>1. SUFFICES ASSUME Bad # {} PROVE FALSE
    OBVIOUS
<1>2. PICK n \in Bad : \A m \in Bad : n <= m
    <2>1. Bad \subseteq Nat
        OBVIOUS
    <2> HIDE DEF Bad
    <2> QED
        BY <1>1, <2>1, LeastNat
<1>3. CASE n = 0
    <2> DEFINE f == [k \in 0 .. 0 |-> Shortest]
    <2>1. f = [k \in 0 .. 0 |->
                 IF k = 0 THEN Shortest ELSE f[k - 1] \cup Longer(f[k - 1])]
        OBVIOUS
    <2> QED
        BY <1>2, <1>3, <2>1 DEF Grown
<1>4. CASE n # 0
    <2>1. n - 1 \in Nat /\ n - 1 \notin Bad
        BY <1>2, <1>4
    <2>2. PICK f : Grown(f, n - 1)
        BY <2>1
    <2> DEFINE g == [k \in 0 .. n |->
                       IF k = n THEN f[n - 1] \cup Longer(f[n - 1]) ELSE f[k]]
    <2>3. ASSUME NEW k \in 0 .. n
          PROVE  g[k] = IF k = 0 THEN Shortest ELSE g[k - 1] \cup Longer(g[k - 1])
        <3>1. CASE k = n
            <4>1. /\ g[k] = f[n - 1] \cup Longer(f[n - 1])
                  /\ g[k - 1] = f[n - 1] /\ k # 0
                BY <1>2, <1>4, <3>1
            <4> HIDE DEF g
            <4> QED
                BY <3>1, <4>1
        <3>2. CASE k # n
            <4>1. k \in 0 .. n - 1 /\ n \in Nat
                BY <1>2, <3>2
            <4>2. f[k] = IF k = 0 THEN Shortest ELSE f[k - 1] \cup Longer(f[k - 1])
                BY <2>2, <4>1 DEF Grown
            <4>3. g[k] = f[k] /\ (k # 0 => g[k - 1] = f[k - 1])
                BY <3>2, <4>1
            <4> HIDE DEF g
            <4> QED
                BY <4>2, <4>3
        <3> QED
            BY <3>1, <3>2
    <2>4. g = [k \in 0 .. n |-> g[k]]
        OBVIOUS
    <2> HIDE DEF g
    <2>5. Grown(g, n)
        BY <2>3, <2>4 DEF Grown
    <2> QED
        BY <1>2, <2>5
<1> QED
    BY <1>3, <1>4

Paths(all) ==
    /\ all[0] = Shortest
    /\ \A k \in 1 .. Size : all[k] = all[k - 1] \cup Longer(all[k - 1])

LEMMA BestPathsGrow == \E all : Paths(all) /\ BestPaths = all[Size]
<1> DEFINE all[k \in 0 .. Cardinality(Node)] ==
              IF k = 0 THEN Shortest ELSE all[k - 1] \cup Longer(all[k - 1])
<1>1. BestPaths = all[Cardinality(Node)]
    BY DEF BestPaths
<1>2. Grown(all, Cardinality(Node))
    <2>1. \E f : Grown(f, Cardinality(Node))
        BY PathsExist, SizeIsNat DEF Size
    <2> QED
        BY <2>1 DEF Grown
<1> HIDE DEF all
<1>3. Paths(all)
    <2>1. Cardinality(Node) \in Nat
        BY SizeIsNat DEF Size
    <2>2. \A k \in 0 .. Cardinality(Node) :
             all[k] = IF k = 0 THEN Shortest ELSE all[k - 1] \cup Longer(all[k - 1])
        BY <1>2 DEF Grown
    <2>3. all[0] = Shortest
        <3>1. 0 \in 0 .. Cardinality(Node)
            BY <2>1
        <3> QED
            BY <3>1, <2>2
    <2>4. ASSUME NEW k \in 1 .. Cardinality(Node)
          PROVE  all[k] = all[k - 1] \cup Longer(all[k - 1])
        <3>1. k \in 0 .. Cardinality(Node) /\ k # 0
            BY <2>1
        <3> QED
            BY <3>1, <2>2
    <2> QED
        BY <2>3, <2>4 DEF Paths, Size
<1> QED
    BY <1>1, <1>3 DEF Size

LEMMA PathsMonotone ==
    ASSUME NEW all, Paths(all), NEW i \in 0 .. Size
    PROVE  all[i] \subseteq all[Size]
<1> DEFINE Bad == {n \in Nat : n <= Size /\ ~(all[Size - n] \subseteq all[Size])}
<1>1. SUFFICES ASSUME Bad # {} PROVE FALSE
    <2>1. Size - i \in Nat /\ Size - i <= Size /\ Size - (Size - i) = i
        BY SizeIsNat
    <2> QED
        BY <2>1
<1>2. PICK n \in Bad : \A m \in Bad : n <= m
    <2>1. Bad \subseteq Nat
        OBVIOUS
    <2> HIDE DEF Bad
    <2> QED
        BY <1>1, <2>1, LeastNat
<1>3. n # 0
    BY <1>2, SizeIsNat
<1>4. n - 1 \in Nat /\ n - 1 <= Size /\ n - 1 \notin Bad
    BY <1>2, <1>3, SizeIsNat
<1>5. all[Size - (n - 1)] \subseteq all[Size]
    BY <1>4
<1>6. Size - (n - 1) \in 1 .. Size /\ Size - (n - 1) - 1 = Size - n
    BY <1>2, <1>3, SizeIsNat
<1>7. all[Size - n] \subseteq all[Size - (n - 1)]
    BY <1>6 DEF Paths
<1> QED
    BY <1>2, <1>5, <1>7

-----------------------------------------------------------------------------

\* The route to d, after k turns.
RouteOk(s, k, all, d) ==
    /\ d \in Node
    /\ s.routes[d].hops \in 1 .. k
    /\ Valued(s.routes[d])
    /\ s.routes[d].hop \in DOMAIN ns
    /\ <<d, s.routes[d].hops, s.routes[d].quality>> \in all[s.routes[d].hops - 1]

\* A candidate, after k turns.
CandOk(s, k, all, e) ==
    /\ e.node \in Node \ DOMAIN s.routes
    /\ e.hops \in 1 .. (k + 1)
    /\ Valued(e)
    /\ \/ e.prec = Self /\ e.node \in DOMAIN ns
       \/ e.prec \in DOMAIN s.routes
    /\ <<e.node, e.hops, e.quality>> \in all[e.hops - 1]

\* A path to x of this length and quality is a candidate, or no better than the
\* route to x.
Offered(s, x, h, q) ==
    IF x \in DOMAIN s.routes
    THEN Geq(s.routes[x].hops, s.routes[x].quality, h, q)
    ELSE \E e \in s.cands : e.node = x /\ e.hops = h /\ e.quality = q

Settled(s) ==
    \A d \in DOMAIN s.routes, e \in s.cands :
       Geq(s.routes[d].hops, s.routes[d].quality, e.hops, e.quality)

Explored(s) ==
    /\ \A m \in DOMAIN ns : Offered(s, m, 1, ns[m].quality * 10000)
    /\ \A d \in DOMAIN s.routes : \A p \in Links(d) :
          p[1] # Self => Offered(s, p[1], s.routes[d].hops + 1,
                                 PathQuality(s.routes[d].quality, p))

Counted(s, k) ==
    /\ IsFiniteSet(DOMAIN s.routes)
    /\ s.cands # {} => Cardinality(DOMAIN s.routes) = k

\* The invariant of the loop.
Loop(s, k, all) ==
    /\ \A d \in DOMAIN s.routes : RouteOk(s, k, all, d)
    /\ \A e \in s.cands : CandOk(s, k, all, e)
    /\ Settled(s)
    /\ Explored(s)
    /\ Counted(s, k)

LEMMA NeighbourValue ==
    ASSUME NeighboursTyped, NEW m \in DOMAIN ns
    PROVE  /\ m \in Node
           /\ ns[m].quality * 10000 \in Nat
           /\ ns[m].quality * 10000 <= TopQuality
<1> DEFINE q == ns[m].quality
<1>1. q \in 0 .. 100
    <2>1. q \in Quality \cup {0}
        BY DEF NeighboursTyped, Tuple
    <2>2. \A x \in Quality : x \in 0 .. 100
        BY OlsrAssumption
    <2> HIDE DEF q
    <2>3. 0 \in 0 .. 100
        OBVIOUS
    <2> QED
        BY <2>1, <2>2, <2>3
<1> HIDE DEF q
<1>2. \A x \in 0 .. 100 : x * 10000 \in Nat /\ x * 10000 <= 1000000
    OBVIOUS
<1>3. m \in Node
    BY DEF NeighboursTyped, Node
<1> QED
    BY <1>1, <1>2, <1>3 DEF TopQuality, q

LEMMA LoopStarts ==
    ASSUME NeighboursTyped, NEW all, Paths(all)
    PROVE  Loop(Start, 0, all)
<1>1. Start.routes = Empty /\ DOMAIN Start.routes = {}
    BY DEF Start, Empty
<1>2. ASSUME NEW e \in Start.cands
      PROVE  CandOk(Start, 0, all, e)
    <2>1. PICK m \in DOMAIN ns :
             e = [node |-> m, prec |-> Self, hops |-> 1,
                  quality |-> ns[m].quality * 10000]
        BY DEF Start
    <2> DEFINE q == ns[m].quality * 10000
    <2>2. m \in Node /\ q \in Nat /\ q <= TopQuality
        BY NeighbourValue
    <2>3. <<m, 1, q>> \in all[0]
        BY DEF Paths, Shortest
    <2>4. e.node = m /\ e.prec = Self /\ e.hops = 1 /\ e.quality = q
        BY <2>1
    <2> HIDE DEF q
    <2> QED
        BY <1>1, <2>2, <2>3, <2>4 DEF CandOk, Valued
<1>3. Explored(Start)
    <2>1. ASSUME NEW m \in DOMAIN ns
          PROVE  Offered(Start, m, 1, ns[m].quality * 10000)
        <3> DEFINE e == [node |-> m, prec |-> Self, hops |-> 1,
                         quality |-> ns[m].quality * 10000]
        <3>1. e \in Start.cands
            BY DEF Start
        <3>2. e.node = m /\ e.hops = 1 /\ e.quality = ns[m].quality * 10000
            OBVIOUS
        <3> HIDE DEF e
        <3> QED
            BY <1>1, <3>1, <3>2 DEF Offered
    <2> QED
        BY <1>1, <2>1 DEF Explored
<1>4. Settled(Start)
    BY <1>1 DEF Settled
<1>5. Counted(Start, 0)
    BY <1>1, FS_EmptySet DEF Counted
<1> QED
    BY <1>1, <1>2, <1>3, <1>4, <1>5 DEF Loop
-----------------------------------------------------------------------------

\* The turn takes the candidate c.
Takes(s, t, c) ==
    /\ c \in s.cands
    /\ \A e \in s.cands : Geq(c.hops, c.quality, e.hops, e.quality)
    /\ t.routes = Captured(s, c)
    /\ t.cands = Candidates(s.cands, t.routes, c)

LEMMA TurnTakes ==
    ASSUME NEW s, s.cands # {}, \A e \in s.cands : Valued(e)
    PROVE  \E c : Takes(s, Turn(s), c)
<1> DEFINE c == BestCandidate(s)
<1>1. c \in s.cands /\ \A e \in s.cands : ~Better(e, c)
    <2>1. \E x \in s.cands : \A y \in s.cands : ~Better(y, x)
        BY BestExists
    <2> QED
        BY <2>1 DEF BestCandidate
<1>2. \A e \in s.cands : Geq(c.hops, c.quality, e.hops, e.quality)
    <2> HIDE DEF c
    <2> QED
        BY <1>1, GeqFacts
<1>3. /\ Turn(s).routes = Captured(s, c)
      /\ Turn(s).cands = Candidates(s.cands, Captured(s, c), c)
    <2> HIDE DEF c
    <2>1. c = BestCandidate(s)
        BY DEF c
    <2>2. Turn(s) = [cands |-> Candidates(s.cands, Captured(s, c), c),
                     routes |-> Captured(s, c)]
        BY <2>1 DEF Turn
    <2> QED
        BY <2>2
<1> HIDE DEF c
<1> QED
    BY <1>1, <1>2, <1>3 DEF Takes

\* What taking c does to the routes and the candidates.
Taken(s, t, c) ==
    /\ DOMAIN t.routes = DOMAIN s.routes \cup {c.node}
    /\ \A d \in DOMAIN s.routes : d # c.node => t.routes[d] = s.routes[d]
    /\ t.routes[c.node].hops = c.hops
    /\ t.routes[c.node].quality = c.quality
    /\ t.routes[c.node].hop =
          IF c.prec = Self THEN c.node ELSE s.routes[c.prec].hop
    /\ \A e \in s.cands : e.node # c.node => e \in t.cands
    /\ \A p \in Links(c.node) :
          p[1] \notin DOMAIN t.routes \cup {Self} =>
             \E e \in t.cands :
                /\ e.node = p[1] /\ e.hops = c.hops + 1
                /\ e.quality = PathQuality(c.quality, p)
    /\ \A e \in t.cands :
          /\ e.node # c.node
          /\ \/ e \in s.cands
             \/ \E p \in Links(c.node) :
                   /\ p[1] \notin DOMAIN t.routes \cup {Self}
                   /\ e.node = p[1] /\ e.prec = c.node /\ e.hops = c.hops + 1
                   /\ e.quality = PathQuality(c.quality, p)

LEMMA TakesTaken ==
    ASSUME NEW s, NEW t, NEW c, Takes(s, t, c)
    PROVE  Taken(s, t, c)
<1> DEFINE x == [hop |-> IF c.prec = Self THEN c.node ELSE s.routes[c.prec].hop,
                 prec |-> c.prec, hops |-> c.hops, quality |-> c.quality]
           new(p) == [node |-> p[1], prec |-> c.node, hops |-> c.hops + 1,
                      quality |-> PathQuality(c.quality, p)]
           free == {q \in Links(c.node) : q[1] \notin DOMAIN t.routes \cup {Self}}
<1>1. t.routes = [y \in DOMAIN s.routes \cup {c.node} |->
                    IF y = c.node THEN x ELSE s.routes[y]]
    BY DEF Takes, Captured, With
<1>2. t.cands = {e \in s.cands \cup {new(p) : p \in free} : e.node # c.node}
    BY DEF Takes, Candidates
<1>3. /\ x.hops = c.hops /\ x.quality = c.quality
      /\ x.hop = IF c.prec = Self THEN c.node ELSE s.routes[c.prec].hop
    OBVIOUS
<1>4. \A p : /\ new(p).node = p[1] /\ new(p).prec = c.node
             /\ new(p).hops = c.hops + 1
             /\ new(p).quality = PathQuality(c.quality, p)
    OBVIOUS
<1>5. \A p \in Links(c.node) :
         p[1] \notin DOMAIN t.routes \cup {Self} =>
            \E e \in t.cands : /\ e.node = p[1] /\ e.hops = c.hops + 1
                               /\ e.quality = PathQuality(c.quality, p)
    <2> SUFFICES ASSUME NEW p \in Links(c.node),
                        p[1] \notin DOMAIN t.routes \cup {Self}
                 PROVE  \E e \in t.cands : /\ e.node = p[1] /\ e.hops = c.hops + 1
                                           /\ e.quality = PathQuality(c.quality, p)
        OBVIOUS
    <2>1. p \in free
        OBVIOUS
    <2>2. p[1] # c.node
        BY <1>1
    <2> HIDE DEF free, new
    <2>3. new(p) \in t.cands
        BY <1>2, <1>4, <2>1, <2>2
    <2> QED
        BY <1>4, <2>3
<1>6. ASSUME NEW e \in t.cands
      PROVE  /\ e.node # c.node
             /\ \/ e \in s.cands
                \/ \E p \in Links(c.node) :
                      /\ p[1] \notin DOMAIN t.routes \cup {Self}
                      /\ e.node = p[1] /\ e.prec = c.node /\ e.hops = c.hops + 1
                      /\ e.quality = PathQuality(c.quality, p)
    <2>1. e.node # c.node /\ (e \in s.cands \/ \E p \in free : e = new(p))
        <3> HIDE DEF free, new
        <3> QED
            BY <1>2
    <2>2. CASE \E p \in free : e = new(p)
        <3>1. PICK p \in free : e = new(p)
            BY <2>2
        <3> HIDE DEF new
        <3> QED
            BY <2>1, <3>1, <1>4
    <2> QED
        BY <2>1, <2>2
<1>7. \A e \in s.cands : e.node # c.node => e \in t.cands
    BY <1>2
<1> HIDE DEF x, new, free
<1>8. /\ DOMAIN t.routes = DOMAIN s.routes \cup {c.node}
      /\ \A d \in DOMAIN s.routes : d # c.node => t.routes[d] = s.routes[d]
      /\ t.routes[c.node] = x
    BY <1>1
<1> QED
    BY <1>3, <1>5, <1>6, <1>7, <1>8 DEF Taken
-----------------------------------------------------------------------------

LEMMA LinksTyped ==
    ASSUME TopologyTyped, NEW o, NEW p \in Links(o)
    PROVE  p[1] \in Node \cup {Self} /\ p[2] \in 0 .. 100
<1>1. p \in Pairs
    BY DEF Links, TopologyTyped
<1>2. p[1] \in Node \cup {Self} /\ p[2] \in Quality
    BY <1>1 DEF Pairs
<1>3. \A q \in Quality : q \in 0 .. 100
    BY OlsrAssumption
<1> QED
    BY <1>2, <1>3

\* A path with one more link.
LEMMA LongerPaths ==
    ASSUME NEW all, Paths(all), NEW k \in 1 .. Size,
           NEW d \in Node, NEW h \in Nat, NEW q \in Nat, <<d, h, q>> \in all[k - 1],
           NEW p \in Links(d), p[1] # Self
    PROVE  <<p[1], h + 1, PathQuality(q, p)>> \in all[k]
<1> DEFINE paths == all[k - 1]
           path == <<d, h, q>>
           f == <<path, p>>
<1>1. f \in paths \X UNION {Links(o) : o \in Node}
    OBVIOUS
<1>2. f[2] = p /\ f[1] = path /\ f[1][1] = d /\ f[1][2] = h /\ f[1][3] = q
    OBVIOUS
<1> HIDE DEF paths, path, f
<1>3. <<f[2][1], f[1][2] + 1, PathQuality(f[1][3], f[2])>> \in Longer(paths)
    BY <1>1, <1>2 DEF Longer
<1>4. all[k] = paths \cup Longer(paths)
    BY DEF Paths, paths
<1> QED
    BY <1>2, <1>3, <1>4

\* What is offered by a route or candidate stays offered.
LEMMA OfferedStays ==
    ASSUME NEW s, NEW t, NEW c, Taken(s, t, c),
           c.node \notin DOMAIN s.routes, Valued(c),
           \A e \in s.cands : Valued(e) /\ Geq(c.hops, c.quality, e.hops, e.quality),
           NEW x, NEW h, NEW q, Offered(s, x, h, q)
    PROVE  Offered(t, x, h, q)
<1>1. CASE x \in DOMAIN s.routes
    <2>1. x # c.node /\ x \in DOMAIN t.routes /\ t.routes[x] = s.routes[x]
        BY <1>1 DEF Taken
    <2> QED
        BY <1>1, <2>1 DEF Offered
<1>2. CASE x \notin DOMAIN s.routes
    <2>1. PICK e \in s.cands : e.node = x /\ e.hops = h /\ e.quality = q
        BY <1>2 DEF Offered
    <2>2. CASE x = c.node
        BY <2>1, <2>2 DEF Offered, Taken
    <2>3. CASE x # c.node
        <3>1. e \in t.cands /\ x \notin DOMAIN t.routes
            BY <1>2, <2>1, <2>3 DEF Taken
        <3> QED
            BY <2>1, <3>1 DEF Offered
    <2> QED
        BY <2>2, <2>3
<1> QED
    BY <1>1, <1>2

LEMMA LoopTakes ==
    ASSUME NeighboursTyped, TopologyTyped,
           NEW all, Paths(all), NEW k \in 0 .. Size - 1,
           NEW s, NEW t, NEW c, Loop(s, k, all), Takes(s, t, c)
    PROVE  Loop(t, k + 1, all)
<1>1. Taken(s, t, c)
    BY TakesTaken
<1>2. CandOk(s, k, all, c)
    BY DEF Loop, Takes
<1>3. /\ c.node \in Node /\ c.node \notin DOMAIN s.routes
      /\ c.hops \in 1 .. (k + 1) /\ c.hops \in Nat /\ c.quality \in Nat
      /\ Valued(c)
      /\ <<c.node, c.hops, c.quality>> \in all[c.hops - 1]
    BY <1>2 DEF CandOk, Valued
<1>4. \A e \in s.cands : Valued(e) /\ Geq(c.hops, c.quality, e.hops, e.quality)
    BY DEF Loop, CandOk, Takes
<1>5. k \in Nat /\ Size \in Nat /\ k + 1 \in 1 .. Size
    BY SizeIsNat
<1>6. ASSUME NEW d \in DOMAIN t.routes
      PROVE  RouteOk(t, k + 1, all, d)
    <2>1. CASE d = c.node
        <3>1. t.routes[d].hops = c.hops /\ t.routes[d].quality = c.quality
            BY <1>1, <2>1 DEF Taken
        <3>2. t.routes[d].hop \in DOMAIN ns
            <4>1. CASE c.prec = Self
                <5>1. c.node \in DOMAIN ns
                    <6>1. Self \notin DOMAIN s.routes
                        BY OlsrAssumption DEF Loop, RouteOk
                    <6> QED
                        BY <1>2, <4>1, <6>1 DEF CandOk
                <5> QED
                    BY <1>1, <2>1, <4>1, <5>1 DEF Taken
            <4>2. CASE c.prec # Self
                <5>1. c.prec \in DOMAIN s.routes
                    BY <1>2, <4>2 DEF CandOk
                <5>2. s.routes[c.prec].hop \in DOMAIN ns
                    BY <5>1 DEF Loop, RouteOk
                <5> QED
                    BY <1>1, <2>1, <4>2, <5>2 DEF Taken
            <4> QED
                BY <4>1, <4>2
        <3> QED
            BY <1>3, <2>1, <3>1, <3>2 DEF RouteOk, Valued
    <2>2. CASE d # c.node
        <3>1. d \in DOMAIN s.routes /\ t.routes[d] = s.routes[d]
            BY <1>1, <2>2 DEF Taken
        <3>2. RouteOk(s, k, all, d)
            BY <3>1 DEF Loop
        <3>3. s.routes[d].hops \in 1 .. (k + 1)
            BY <1>5, <3>2 DEF RouteOk
        <3> QED
            BY <3>1, <3>2, <3>3 DEF RouteOk
    <2> QED
        BY <2>1, <2>2
<1>7. ASSUME NEW p \in Links(c.node)
      PROVE  /\ PathQuality(c.quality, p) \in Nat
             /\ PathQuality(c.quality, p) <= TopQuality
             /\ Geq(c.hops, c.quality, c.hops + 1, PathQuality(c.quality, p))
             /\ c.hops + 1 \in Nat
    <2>1. p[2] \in 0 .. 100
        BY LinksTyped
    <2>2. PathQuality(c.quality, p) \in Nat /\ PathQuality(c.quality, p) <= c.quality
        BY <1>3, <2>1, QualityShrinks
    <2>3. Geq(c.hops, c.quality, c.hops + 1, PathQuality(c.quality, p))
        BY <1>3, <2>1, GeqLink
    <2>4. c.quality <= TopQuality
        BY <1>3 DEF Valued
    <2> QED
        BY <1>3, <2>2, <2>3, <2>4 DEF TopQuality
<1>8. ASSUME NEW e \in t.cands
      PROVE  /\ CandOk(t, k + 1, all, e)
             /\ \A d \in DOMAIN s.routes :
                   Geq(s.routes[d].hops, s.routes[d].quality, e.hops, e.quality)
             /\ Geq(c.hops, c.quality, e.hops, e.quality)
    <2>1. e.node # c.node
        BY <1>1 DEF Taken
    <2>2. CASE e \in s.cands
        <3>1. CandOk(s, k, all, e)
            BY <2>2 DEF Loop
        <3>2. e.node \in Node \ DOMAIN t.routes
            BY <1>1, <2>1, <3>1 DEF Taken, CandOk
        <3>3. e.hops \in 1 .. (k + 1 + 1)
            BY <1>5, <3>1 DEF CandOk
        <3>4. \/ e.prec = Self /\ e.node \in DOMAIN ns
              \/ e.prec \in DOMAIN t.routes
            BY <1>1, <3>1 DEF Taken, CandOk
        <3>5. CandOk(t, k + 1, all, e)
            BY <3>1, <3>2, <3>3, <3>4 DEF CandOk
        <3> QED
            BY <1>4, <2>2, <3>5 DEF Loop, Settled
    <2>3. CASE e \notin s.cands
        <3>1. PICK p \in Links(c.node) :
                 /\ p[1] \notin DOMAIN t.routes \cup {Self}
                 /\ e.node = p[1] /\ e.prec = c.node /\ e.hops = c.hops + 1
                 /\ e.quality = PathQuality(c.quality, p)
            BY <1>1, <2>3 DEF Taken
        <3>2. e.node \in Node \ DOMAIN t.routes
            BY <3>1, LinksTyped
        <3>3. e.hops \in 1 .. (k + 1 + 1) /\ e.hops - 1 = c.hops
            BY <1>3, <1>5, <3>1
        <3>4. Valued(e)
            BY <1>7, <3>1 DEF Valued
        <3>5. c.hops \in 1 .. Size
            BY <1>3, <1>5
        <3>6. <<e.node, e.hops, e.quality>> \in all[c.hops]
            BY <1>3, <3>1, <3>5, LongerPaths
        <3>7. e.prec \in DOMAIN t.routes
            BY <1>1, <3>1 DEF Taken
        <3>8. CandOk(t, k + 1, all, e)
            BY <3>2, <3>3, <3>4, <3>6, <3>7 DEF CandOk
        <3>9. Geq(c.hops, c.quality, e.hops, e.quality)
            BY <1>7, <3>1
        <3>10. ASSUME NEW d \in DOMAIN s.routes
               PROVE  Geq(s.routes[d].hops, s.routes[d].quality, e.hops, e.quality)
            <4>1. Geq(s.routes[d].hops, s.routes[d].quality, c.hops, c.quality)
                BY DEF Loop, Settled, Takes
            <4>2. s.routes[d].hops \in Nat /\ s.routes[d].quality \in Nat
                BY DEF Loop, RouteOk, Valued
            <4>3. e.hops \in Nat /\ e.quality \in Nat
                BY <3>4 DEF Valued
            <4> QED
                BY <1>3, <3>9, <4>1, <4>2, <4>3, GeqFacts
        <3> QED
            BY <3>8, <3>9, <3>10
    <2> QED
        BY <2>2, <2>3
<1>9. Settled(t)
    <2> SUFFICES ASSUME NEW d \in DOMAIN t.routes, NEW e \in t.cands
                 PROVE  Geq(t.routes[d].hops, t.routes[d].quality, e.hops, e.quality)
        BY DEF Settled
    <2>1. CASE d = c.node
        BY <1>1, <1>8, <2>1 DEF Taken
    <2>2. CASE d # c.node
        <3>1. d \in DOMAIN s.routes /\ t.routes[d] = s.routes[d]
            BY <1>1, <2>2 DEF Taken
        <3> QED
            BY <1>8, <3>1
    <2> QED
        BY <2>1, <2>2
<1>10. Explored(t)
    <2>1. ASSUME NEW m \in DOMAIN ns
          PROVE  Offered(t, m, 1, ns[m].quality * 10000)
        <3>1. Offered(s, m, 1, ns[m].quality * 10000)
            BY DEF Loop, Explored
        <3> QED
            BY <1>1, <1>3, <1>4, <3>1, OfferedStays
    <2>2. ASSUME NEW d \in DOMAIN t.routes, NEW p \in Links(d), p[1] # Self
          PROVE  Offered(t, p[1], t.routes[d].hops + 1,
                         PathQuality(t.routes[d].quality, p))
        <3>1. CASE d = c.node
            <4>1. t.routes[d].hops = c.hops /\ t.routes[d].quality = c.quality
                BY <1>1, <3>1 DEF Taken
            <4> DEFINE q == PathQuality(c.quality, p)
            <4>2. q \in Nat /\ Geq(c.hops, c.quality, c.hops + 1, q) /\ c.hops + 1 \in Nat
                BY <1>7, <3>1
            <4>3. CASE p[1] \in DOMAIN s.routes
                <5> DEFINE r == s.routes[p[1]]
                <5>1. p[1] \in DOMAIN t.routes /\ t.routes[p[1]] = r
                    BY <1>1, <1>3, <4>3 DEF Taken
                <5>2. Geq(r.hops, r.quality, c.hops, c.quality)
                    BY <4>3 DEF Loop, Settled, Takes
                <5>3. r.hops \in Nat /\ r.quality \in Nat
                    BY <4>3 DEF Loop, RouteOk, Valued
                <5>4. Geq(r.hops, r.quality, c.hops + 1, q)
                    <6> DEFINE h == c.hops + 1
                    <6>1. h \in Nat /\ Geq(c.hops, c.quality, h, q)
                        BY <4>2
                    <6> HIDE DEF r, q, h
                    <6>2. Geq(r.hops, r.quality, h, q)
                        BY <1>3, <4>2, <5>2, <5>3, <6>1, GeqFacts
                    <6> QED
                        BY <6>2 DEF h
                <5> QED
                    BY <4>1, <5>1, <5>4 DEF Offered
            <4>4. CASE p[1] = c.node
                BY <3>1, <4>1, <4>2, <4>4 DEF Offered
            <4>5. CASE p[1] \notin DOMAIN s.routes /\ p[1] # c.node
                <5>1. p[1] \notin DOMAIN t.routes
                    BY <1>1, <4>5 DEF Taken
                <5>2. \E e \in t.cands :
                         e.node = p[1] /\ e.hops = c.hops + 1 /\ e.quality = q
                    BY <1>1, <2>2, <3>1, <5>1 DEF Taken
                <5> QED
                    BY <4>1, <5>1, <5>2 DEF Offered
            <4> QED
                BY <4>3, <4>4, <4>5
        <3>2. CASE d # c.node
            <4>1. d \in DOMAIN s.routes /\ t.routes[d] = s.routes[d]
                BY <1>1, <3>2 DEF Taken
            <4>2. Offered(s, p[1], s.routes[d].hops + 1,
                          PathQuality(s.routes[d].quality, p))
                BY <2>2, <4>1 DEF Loop, Explored
            <4> QED
                BY <1>1, <1>3, <1>4, <4>1, <4>2, OfferedStays
        <3> QED
            BY <3>1, <3>2
    <2> QED
        BY <2>1, <2>2 DEF Explored
<1>11. Counted(t, k + 1)
    <2>1. DOMAIN t.routes = DOMAIN s.routes \cup {c.node}
        BY <1>1 DEF Taken
    <2>2. IsFiniteSet(DOMAIN s.routes) /\ Cardinality(DOMAIN s.routes) = k
        BY DEF Loop, Counted, Takes
    <2>3. /\ IsFiniteSet(DOMAIN t.routes)
          /\ Cardinality(DOMAIN t.routes) = k + 1
        BY <1>3, <2>1, <2>2, FS_AddElement
    <2> QED
        BY <2>3 DEF Counted
<1> QED
    BY <1>6, <1>8, <1>9, <1>10, <1>11 DEF Loop
-----------------------------------------------------------------------------

LEMMA LoopTurns ==
    ASSUME NeighboursTyped, TopologyTyped,
           NEW all, Paths(all), NEW k \in 0 .. Size - 1, NEW s, Loop(s, k, all)
    PROVE  Loop(Turn(s), k + 1, all)
<1>1. CASE s.cands = {}
    <2>1. Turn(s) = s
        BY <1>1 DEF Turn
    <2>2. k \in Nat
        BY SizeIsNat
    <2>3. ASSUME NEW d \in DOMAIN s.routes
          PROVE  RouteOk(s, k + 1, all, d)
        <3>1. RouteOk(s, k, all, d)
            BY DEF Loop
        <3>2. s.routes[d].hops \in 1 .. (k + 1)
            BY <2>2, <3>1 DEF RouteOk
        <3> QED
            BY <3>1, <3>2 DEF RouteOk
    <2>4. Counted(s, k + 1)
        BY <1>1 DEF Loop, Counted
    <2> QED
        BY <1>1, <2>1, <2>3, <2>4 DEF Loop
<1>2. CASE s.cands # {}
    <2>1. \A e \in s.cands : Valued(e)
        BY DEF Loop, CandOk
    <2>2. PICK c : Takes(s, Turn(s), c)
        BY <1>2, <2>1, TurnTakes
    <2> QED
        BY <2>2, LoopTakes
<1> QED
    BY <1>1, <1>2

\* As many turns as there are nodes leave no candidate.
LEMMA DijkstraEnds ==
    ASSUME NeighboursTyped, TopologyTyped, NEW all, Paths(all)
    PROVE  \E s : /\ Loop(s, Size, all) /\ s.cands = {}
                  /\ Dijkstra = s.routes
<1>1. PICK f : /\ f[0] = Start
               /\ \A k \in 1 .. Size : f[k] = Turn(f[k - 1])
               /\ Dijkstra = f[Size].routes
    BY DijkstraTurns
<1> DEFINE Bad == {k \in Nat : k <= Size /\ ~Loop(f[k], k, all)}
<1>2. Bad = {}
    <2>1. SUFFICES ASSUME Bad # {} PROVE FALSE
        OBVIOUS
    <2>2. PICK k \in Bad : \A j \in Bad : k <= j
        <3>1. Bad \subseteq Nat
            OBVIOUS
        <3> HIDE DEF Bad
        <3> QED
            BY <2>1, <3>1, LeastNat
    <2>3. k # 0
        BY <1>1, <2>2, LoopStarts
    <2>4. k - 1 \in Nat /\ k - 1 <= Size /\ k - 1 \notin Bad
        BY <2>2, <2>3, SizeIsNat
    <2>5. Loop(f[k - 1], k - 1, all) /\ k - 1 \in 0 .. Size - 1 /\ k \in 1 .. Size
        BY <2>2, <2>4, SizeIsNat
    <2>6. Loop(Turn(f[k - 1]), (k - 1) + 1, all)
        BY <2>5, LoopTurns
    <2>7. f[k] = Turn(f[k - 1]) /\ (k - 1) + 1 = k
        BY <1>1, <2>5, SizeIsNat
    <2> QED
        BY <2>2, <2>6, <2>7
<1>3. Loop(f[Size], Size, all)
    BY <1>2, SizeIsNat
<1>4. f[Size].cands = {}
    <2> DEFINE s == f[Size]
    <2> HIDE DEF s
    <2> SUFFICES ASSUME s.cands # {} PROVE FALSE
        BY DEF s
    <2>1. Loop(s, Size, all)
        BY <1>3 DEF s
    <2>2. DOMAIN s.routes \subseteq Node
        BY <2>1 DEF Loop, RouteOk
    <2>3. Cardinality(DOMAIN s.routes) = Cardinality(Node)
        BY <2>1 DEF Loop, Counted, Size
    <2>4. DOMAIN s.routes = Node
        BY <2>2, <2>3, SizeIsNat, FS_Subset
    <2>5. \A e \in s.cands : e.node \in Node \ DOMAIN s.routes
        BY <2>1 DEF Loop, CandOk
    <2> QED
        BY <2>4, <2>5
<1> QED
    BY <1>1, <1>3, <1>4

\* The route to x is at least as good as a path of this length and quality.
Beats(r, x, h, q) == x \in DOMAIN r /\ Geq(r[x].hops, r[x].quality, h, q)

LEMMA PathsBeaten ==
    ASSUME NeighboursTyped, TopologyTyped, NEW all, Paths(all),
           NEW s, Loop(s, Size, all), s.cands = {}
    PROVE  \A p \in all[Size] : Beats(s.routes, p[1], p[2], p[3])
<1> DEFINE Fine(p) == p[2] \in Nat /\ p[3] \in Nat /\ Beats(s.routes, p[1], p[2], p[3])
           Bad == {k \in Nat : k <= Size /\ ~\A p \in all[k] : Fine(p)}
<1>1. ASSUME NEW x, NEW h, NEW q, Offered(s, x, h, q)
      PROVE  Beats(s.routes, x, h, q)
    BY <1>1 DEF Offered, Beats
<1>2. \A p \in all[0] : Fine(p)
    <2> SUFFICES ASSUME NEW p \in all[0] PROVE Fine(p)
        OBVIOUS
    <2>1. PICK m \in DOMAIN ns : p = <<m, 1, ns[m].quality * 10000>>
        BY DEF Paths, Shortest
    <2>2. p[1] = m /\ p[2] = 1 /\ p[3] = ns[m].quality * 10000
        BY <2>1
    <2>3. Offered(s, m, 1, ns[m].quality * 10000)
        BY DEF Loop, Explored
    <2>4. p[3] \in Nat
        BY <2>2, NeighbourValue
    <2> QED
        BY <1>1, <2>2, <2>3, <2>4
<1>3. ASSUME NEW paths, \A p \in paths : Fine(p), NEW l \in Longer(paths)
      PROVE  Fine(l)
    <2>1. PICK e \in paths \X UNION {Links(o) : o \in Node} :
             /\ e[2] \in Links(e[1][1]) /\ e[2][1] # Self
             /\ l = <<e[2][1], e[1][2] + 1, PathQuality(e[1][3], e[2])>>
        BY <1>3 DEF Longer
    <2> DEFINE d == e[1][1]
               h == e[1][2]
               q == e[1][3]
               p == e[2]
               r == s.routes[d]
    <2>2. l[1] = p[1] /\ l[2] = h + 1 /\ l[3] = PathQuality(q, p)
        BY <2>1
    <2>3. h \in Nat /\ q \in Nat /\ d \in DOMAIN s.routes /\ Geq(r.hops, r.quality, h, q)
        <3>1. e[1] \in paths
            BY <2>1
        <3>2. Fine(e[1])
            BY <1>3, <3>1
        <3> QED
            BY <3>2 DEF Beats
    <2>4. r.hops \in Nat /\ r.quality \in Nat
        BY <2>3 DEF Loop, RouteOk, Valued
    <2>5. p \in Links(d) /\ p[1] # Self
        BY <2>1
    <2>6. p[2] \in 0 .. 100
        BY <2>5, LinksTyped
    <2>7. Offered(s, p[1], r.hops + 1, PathQuality(r.quality, p))
        BY <2>3, <2>5 DEF Loop, Explored
    <2> HIDE DEF d, h, q, p, r
    <2>8. Beats(s.routes, p[1], r.hops + 1, PathQuality(r.quality, p))
        BY <1>1, <2>7
    <2>9. Geq(r.hops + 1, PathQuality(r.quality, p), h + 1, PathQuality(q, p))
        BY <2>3, <2>4, <2>6, GeqLink
    <2>10. PathQuality(r.quality, p) \in Nat /\ PathQuality(q, p) \in Nat
        BY <2>3, <2>4, <2>6, QualityShrinks
    <2> DEFINE o == s.routes[p[1]]
    <2>11. p[1] \in DOMAIN s.routes
           /\ Geq(o.hops, o.quality, r.hops + 1, PathQuality(r.quality, p))
        BY <2>8 DEF Beats
    <2>12. o.hops \in Nat /\ o.quality \in Nat
        BY <2>11 DEF Loop, RouteOk, Valued
    <2>13. Geq(o.hops, o.quality, h + 1, PathQuality(q, p))
        <3> DEFINE g == r.hops + 1
                   i == h + 1
                   v == PathQuality(r.quality, p)
                   w == PathQuality(q, p)
        <3>1. g \in Nat /\ i \in Nat /\ v \in Nat /\ w \in Nat
            BY <2>3, <2>4, <2>10
        <3>2. Geq(o.hops, o.quality, g, v) /\ Geq(g, v, i, w)
            BY <2>9, <2>11
        <3> HIDE DEF o, g, i, v, w
        <3>3. Geq(o.hops, o.quality, i, w)
            BY <2>12, <3>1, <3>2, GeqFacts
        <3> QED
            BY <3>3 DEF i, w
    <2>14. Beats(s.routes, l[1], l[2], l[3])
        BY <2>2, <2>11, <2>13 DEF Beats
    <2> QED
        BY <2>2, <2>3, <2>10, <2>14
<1>4. Bad = {}
    <2>1. SUFFICES ASSUME Bad # {} PROVE FALSE
        OBVIOUS
    <2>2. PICK k \in Bad : \A j \in Bad : k <= j
        <3>1. Bad \subseteq Nat
            OBVIOUS
        <3> HIDE DEF Bad
        <3> QED
            BY <2>1, <3>1, LeastNat
    <2> HIDE DEF Fine
    <2>3. k # 0
        BY <1>2, <2>2
    <2>4. k - 1 \in Nat /\ k - 1 <= Size /\ k - 1 \notin Bad /\ k \in 1 .. Size
        BY <2>2, <2>3, SizeIsNat
    <2>5. \A p \in all[k - 1] : Fine(p)
        BY <2>4
    <2>6. all[k] = all[k - 1] \cup Longer(all[k - 1])
        BY <2>4 DEF Paths
    <2>7. \A p \in all[k] : Fine(p)
        BY <1>3, <2>5, <2>6
    <2> QED
        BY <2>2, <2>7
<1>5. \A p \in all[Size] : Fine(p)
    <2> HIDE DEF Fine
    <2> QED
        BY <1>4, SizeIsNat
<1> QED
    BY <1>5

LEMMA DijkstraBest ==
    ASSUME NeighboursTyped, TopologyTyped
    PROVE  /\ RoutesBest
           /\ \A d \in DOMAIN Dijkstra :
                 d \in Node /\ Dijkstra[d].hops \in 1 .. Cardinality(Node)
<1>1. PICK all : Paths(all) /\ BestPaths = all[Size]
    BY BestPathsGrow
<1>2. PICK s : Loop(s, Size, all) /\ s.cands = {} /\ Dijkstra = s.routes
    BY <1>1, DijkstraEnds
<1> DEFINE r == Dijkstra
           paths == BestPaths
<1>3. r = s.routes /\ paths = all[Size]
    BY <1>1, <1>2
<1> HIDE DEF r, paths
<1>4. ASSUME NEW d \in DOMAIN r
      PROVE  /\ d \in Node /\ r[d].hops \in 1 .. Size
             /\ <<d, r[d].hops, r[d].quality>> \in paths
             /\ r[d].hop \in DOMAIN ns
    <2>1. RouteOk(s, Size, all, d)
        BY <1>2, <1>3 DEF Loop
    <2> DEFINE h == r[d].hops
    <2>2. h \in 1 .. Size /\ <<d, h, r[d].quality>> \in all[h - 1]
        BY <1>3, <2>1 DEF RouteOk
    <2> HIDE DEF h
    <2>3. h - 1 \in 0 .. Size
        BY <2>2, SizeIsNat
    <2>4. all[h - 1] \subseteq paths
        BY <1>1, <1>3, <2>3, PathsMonotone
    <2>5. <<d, h, r[d].quality>> \in paths
        BY <2>2, <2>4
    <2> QED
        BY <1>3, <2>1, <2>5 DEF RouteOk, h
<1>5. ASSUME NEW p \in paths
      PROVE  p[1] \in DOMAIN r /\ Geq(r[p[1]].hops, r[p[1]].quality, p[2], p[3])
    BY <1>1, <1>2, <1>3, PathsBeaten DEF Beats
<1>6. DOMAIN r = {p[1] : p \in paths}
    <2>1. ASSUME NEW d \in DOMAIN r PROVE d \in {p[1] : p \in paths}
        <3>1. <<d, r[d].hops, r[d].quality>> \in paths
            BY <1>4
        <3> DEFINE p == <<d, r[d].hops, r[d].quality>>
        <3>2. p \in paths /\ p[1] = d
            BY <3>1
        <3> QED
            BY <3>2
    <2> QED
        BY <1>5, <2>1
<1>7. RoutesBest
    BY <1>4, <1>5, <1>6 DEF RoutesBest, r, paths, Geq
<1> QED
    BY <1>4, <1>7 DEF r, Size

\* A node has a route exactly when a path leads to it over the tables, and no
\* path is better than its route by the metric: for any tables that HELLOs and
\* TCs can fill.
THEOREM SpecRoutesBest == Spec => []RoutesBest
<1>1. StateTyped => RoutesBest
    BY DijkstraBest DEF StateTyped
<1> QED
    BY <1>1, InitIsTyped, NextIsTyped, PTL DEF Spec

\* What Dijkstra leaves in the routing table.
RoutesTyped == \A d \in DOMAIN rt : d \in Node /\ rt[d].hops \in 1 .. Cardinality(Node)

\* Types, for any network: a route is no longer than there are nodes.
THEOREM SpecTypeOK == Spec => []TypeOK
<1>1. StateTyped /\ RoutesTyped => TypeOK
    <2> SUFFICES ASSUME StateTyped, RoutesTyped PROVE TypeOK
        OBVIOUS
    <2>1. ASSUME NEW m \in DOMAIN ns
          PROVE  ns[m] \in [mpr : BOOLEAN, quality : Quality \cup {0},
                            best : Iface \cup {NoIface}]
        BY DEF StateTyped, NeighboursTyped, Tuple
    <2> QED
        BY <2>1 DEF TypeOK, StateTyped, NeighboursTyped, TwoHopTyped,
                    TopologyTyped, RoutesTyped
<1>2. Init => RoutesTyped
    BY DEF Init, Empty, RoutesTyped
<1>3. StateTyped /\ RoutesTyped /\ [Next]_vars => RoutesTyped'
    <2> SUFFICES ASSUME StateTyped, RoutesTyped, [Next]_vars PROVE RoutesTyped'
        OBVIOUS
    <2>1. CASE Build
        <3>1. \A d \in DOMAIN Dijkstra :
                 d \in Node /\ Dijkstra[d].hops \in 1 .. Cardinality(Node)
            BY DijkstraBest DEF StateTyped
        <3>2. rt' = Dijkstra
            BY <2>1 DEF Build
        <3> QED
            BY <3>1, <3>2 DEF RoutesTyped
    <2>2. CASE UNCHANGED rt
        BY <2>2 DEF RoutesTyped
    <2>3. Build \/ UNCHANGED rt
        <3>1. ASSUME NEW i, NEW m, NEW hello, HandleHello(i, m, hello)
              PROVE  UNCHANGED rt
            BY <3>1 DEF HandleHello
        <3>2. ASSUME NEW i, NEW o, NEW k, HandleTc(i, o, k)
              PROVE  UNCHANGED rt
            BY <3>2 DEF HandleTc
        <3>3. ASSUME NEW i, StoreTc(i) \/ SetPending(i)
              PROVE  UNCHANGED rt
            BY <3>3 DEF StoreTc, SetPending
        <3>4. ASSUME NEW x, \/ LinkTimeOver(x) \/ PurgeLink(x) \/ PurgeNeighbour(x)
                            \/ PurgeTwoHop(x) \/ PurgeTc(x)
              PROVE  UNCHANGED rt
            BY <3>4 DEF LinkTimeOver, PurgeLink, PurgeNeighbour, PurgeTwoHop, PurgeTc
        <3>5. ASSUME StartBuild \/ EndBuild
              PROVE  UNCHANGED rt
            BY <3>5 DEF StartBuild, EndBuild
        <3>6. UNCHANGED vars => UNCHANGED rt
            BY DEF vars
        <3> QED
            BY <3>1, <3>2, <3>3, <3>4, <3>5, <3>6 DEF Next
    <2> QED
        BY <2>1, <2>2, <2>3
<1> QED
    BY <1>1, <1>2, <1>3, InitIsTyped, NextIsTyped, PTL DEF Spec
-----------------------------------------------------------------------------

\* f is the recursive sum of Koeff on the sets in W.
Sums(f, W, unreached) ==
    f = [S \in W |->
            IF S = {} THEN 0
            ELSE LET t == CHOOSE t \in S : TRUE
                 IN  f[S \ {t}] + IF t[2] \in unreached THEN 3 * t[3] ELSE t[3]]

\* The subsets of X with at most n elements.
UpTo(X, n) == {S \in SUBSET X : Cardinality(S) <= n}

LEMMA SmallerSet ==
    ASSUME NEW X, IsFiniteSet(X), NEW n \in Nat, NEW S \in UpTo(X, n), S # {}
    PROVE  LET t == CHOOSE t \in S : TRUE
           IN  t \in S /\ n # 0 /\ S \ {t} \in UpTo(X, n - 1)
<1> DEFINE t == CHOOSE t \in S : TRUE
<1>1. t \in S
    OBVIOUS
<1> HIDE DEF t
<1>2. S \subseteq X /\ IsFiniteSet(S) /\ Cardinality(S) \in Nat /\ Cardinality(S) <= n
    BY FS_Subset, FS_CardinalityType DEF UpTo
<1>3. Cardinality(S \ {t}) = Cardinality(S) - 1
    BY <1>1, <1>2, FS_RemoveElement
<1>4. Cardinality(S) # 0
    BY <1>1, <1>2, FS_EmptySet
<1>5. S \ {t} \in SUBSET X /\ Cardinality(S \ {t}) <= n - 1 /\ n # 0
    BY <1>2, <1>3, <1>4
<1>6. S \ {t} \in UpTo(X, n - 1)
    BY <1>5 DEF UpTo
<1> QED
    BY <1>1, <1>5, <1>6 DEF t

\* The sum exists and is a number, for sets of any size.
LEMMA SumsUpTo ==
    ASSUME NEW X, IsFiniteSet(X), NEW unreached,
           \A t \in X : t[3] \in Nat
    PROVE  \A n \in Nat : \E f \in [UpTo(X, n) -> Nat] : Sums(f, UpTo(X, n), unreached)
<1> DEFINE Good(n) == \E f \in [UpTo(X, n) -> Nat] : Sums(f, UpTo(X, n), unreached)
           Bad == {n \in Nat : ~Good(n)}
<1>1. SUFFICES ASSUME Bad # {} PROVE FALSE
    OBVIOUS
<1>2. PICK n \in Bad : \A m \in Bad : n <= m
    <2>1. Bad \subseteq Nat
        OBVIOUS
    <2> HIDE DEF Bad
    <2> QED
        BY <1>1, <2>1, LeastNat
<1>3. n \in Nat /\ ~Good(n)
    BY <1>2
<1>4. CASE n = 0
    <2> DEFINE f == [S \in UpTo(X, 0) |-> 0]
    <2>1. ASSUME NEW S \in UpTo(X, 0) PROVE S = {}
        <3>1. S = {} \/ 0 # 0
            BY SmallerSet
        <3> QED
            BY <3>1
    <2>2. f \in [UpTo(X, 0) -> Nat]
        OBVIOUS
    <2>3. Sums(f, UpTo(X, 0), unreached)
        BY <2>1 DEF Sums
    <2> HIDE DEF f
    <2> QED
        BY <1>3, <1>4, <2>2, <2>3
<1>5. CASE n # 0
    <2>1. n - 1 \in Nat /\ n - 1 \notin Bad
        BY <1>2, <1>5
    <2>2. PICK f \in [UpTo(X, n - 1) -> Nat] : Sums(f, UpTo(X, n - 1), unreached)
        BY <2>1
    <2> DEFINE Low == UpTo(X, n - 1)
               Top == UpTo(X, n)
               Next1(h, S) == LET t == CHOOSE t \in S : TRUE
                              IN  h[S \ {t}] + IF t[2] \in unreached THEN 3 * t[3] ELSE t[3]
               g == [S \in Top |-> IF S = {} THEN 0 ELSE Next1(f, S)]
    <2>3. ASSUME NEW S \in Top, S # {}
          PROVE  LET t == CHOOSE t \in S : TRUE
                 IN  t \in S /\ t[3] \in Nat /\ S \ {t} \in Low
        <3> DEFINE t == CHOOSE t \in S : TRUE
        <3>1. t \in S /\ S \ {t} \in UpTo(X, n - 1)
            BY <1>3, <2>3, SmallerSet
        <3>2. S \subseteq X
            BY DEF UpTo
        <3> HIDE DEF t
        <3>3. t[3] \in Nat
            BY <3>1, <3>2
        <3> QED
            BY <3>1, <3>3 DEF t
    <2>4. Low \subseteq Top
        <3>1. ASSUME NEW S \in SUBSET X, Cardinality(S) <= n - 1
              PROVE  Cardinality(S) <= n
            <4>1. Cardinality(S) \in Nat
                BY FS_Subset, FS_CardinalityType
            <4> QED
                BY <1>3, <3>1, <4>1
        <3> QED
            BY <3>1 DEF UpTo
    <2>5. f = [S \in Low |-> IF S = {} THEN 0 ELSE Next1(f, S)]
        BY <2>2 DEF Sums
    <2>6. ASSUME NEW S \in Top PROVE g[S] \in Nat
        <3>1. CASE S = {}
            BY <3>1
        <3>2. CASE S # {}
            <4> DEFINE t == CHOOSE t \in S : TRUE
            <4>1. t[3] \in Nat /\ S \ {t} \in Low
                BY <3>2, <2>3
            <4>2. g[S] = f[S \ {t}] + IF t[2] \in unreached THEN 3 * t[3] ELSE t[3]
                BY <3>2
            <4> HIDE DEF t, g, Low
            <4>3. f[S \ {t}] \in Nat
                BY <2>2, <4>1 DEF Low
            <4> QED
                BY <4>1, <4>2, <4>3
        <3> QED
            BY <3>1, <3>2
    <2>7. ASSUME NEW S \in Low PROVE g[S] = f[S]
        <3>1. S \in Top
            BY <2>4
        <3> HIDE DEF Low, Top
        <3> QED
            BY <3>1, <2>5
    <2>8. ASSUME NEW S \in Top
          PROVE  g[S] = IF S = {} THEN 0 ELSE Next1(g, S)
        <3>1. CASE S = {}
            BY <3>1
        <3>2. CASE S # {}
            <4> DEFINE t == CHOOSE t \in S : TRUE
            <4>1. S \ {t} \in Low
                BY <3>2, <2>3
            <4>2. g[S \ {t}] = f[S \ {t}]
                BY <2>7, <4>1
            <4>3. g[S] = f[S \ {t}] + IF t[2] \in unreached THEN 3 * t[3] ELSE t[3]
                BY <3>2
            <4> HIDE DEF g
            <4> QED
                BY <3>2, <4>2, <4>3
        <3> QED
            BY <3>1, <3>2
    <2>9. g = [S \in Top |-> g[S]] /\ g \in [Top -> Nat]
        <3>1. g = [S \in Top |-> g[S]]
            OBVIOUS
        <3> HIDE DEF g, Top
        <3> QED
            BY <2>6, <3>1
    <2>10. Sums(g, Top, unreached)
        <3> HIDE DEF g
        <3>1. g = [S \in Top |-> IF S = {} THEN 0 ELSE Next1(g, S)]
            BY <2>8, <2>9
        <3> HIDE DEF Top
        <3> QED
            BY <3>1 DEF Sums
    <2> HIDE DEF g
    <2> QED
        BY <1>3, <2>9, <2>10
<1> QED
    BY <1>4, <1>5

\* What the code compares is a number, of any neighbour of Self.
LEMMA KoeffIsNat ==
    ASSUME NEW two, IsFiniteSet(two), \A t \in two : t[3] \in Nat,
           NEW h \in Neigh, NEW unreached
    PROVE  Koeff(h, two, unreached) \in Nat
<1> DEFINE X == {t \in two : t[1] = h}
           Sum[S \in SUBSET {t \in two : t[1] = h}] ==
              IF S = {} THEN 0
              ELSE LET t == CHOOSE t \in S : TRUE
                   IN  Sum[S \ {t}] + IF t[2] \in unreached THEN 3 * t[3] ELSE t[3]
           n == Cardinality(X)
<1>1. IsFiniteSet(X) /\ n \in Nat /\ \A t \in X : t[3] \in Nat
    BY FS_Subset, FS_CardinalityType
<1>2. Koeff(h, two, unreached) = Willing[h] * Sum[X]
    BY DEF Koeff
<1>3. SUBSET X = UpTo(X, n)
    <2> HIDE DEF X
    <2>1. \A S \in SUBSET X : Cardinality(S) <= n
        BY <1>1, FS_Subset
    <2> QED
        BY <2>1 DEF UpTo
<1>4. PICK f \in [SUBSET X -> Nat] : Sums(f, SUBSET X, unreached)
    <2> HIDE DEF X
    <2>1. \A k \in Nat : \E f \in [UpTo(X, k) -> Nat] : Sums(f, UpTo(X, k), unreached)
        BY <1>1, SumsUpTo
    <2>2. \E f \in [UpTo(X, n) -> Nat] : Sums(f, UpTo(X, n), unreached)
        BY <1>1, <2>1
    <2> QED
        BY <1>3, <2>2
<1>5. ASSUME NEW g, Sums(g, SUBSET X, unreached) PROVE g[X] \in Nat
    <2> DEFINE Other == {k \in 0 .. n : \E S \in SUBSET X : Cardinality(S) = k /\ g[S] \notin Nat}
    <2>1. ASSUME Other # {} PROVE FALSE
        <3>1. PICK k \in Other : \A m \in Other : k <= m
            <4>1. Other \subseteq Nat
                BY <1>1
            <4> HIDE DEF Other
            <4> QED
                BY <2>1, <4>1, LeastNat
        <3>2. PICK S \in SUBSET X : Cardinality(S) = k /\ g[S] \notin Nat
            BY <3>1
        <3> HIDE DEF X
        <3>3. g[S] = IF S = {} THEN 0
                     ELSE LET t == CHOOSE t \in S : TRUE
                          IN  g[S \ {t}] + IF t[2] \in unreached THEN 3 * t[3] ELSE t[3]
            BY <1>5 DEF Sums
        <3>4. S # {}
            BY <3>2, <3>3
        <3> DEFINE t == CHOOSE t \in S : TRUE
        <3>5. t \in S /\ t[3] \in Nat
            BY <1>1, <3>4
        <3>6. g[S] = g[S \ {t}] + IF t[2] \in unreached THEN 3 * t[3] ELSE t[3]
            BY <3>3, <3>4
        <3> HIDE DEF t
        <3>7. Cardinality(S \ {t}) = k - 1 /\ k \in 1 .. n
            <4>1. IsFiniteSet(S) /\ Cardinality(S) \in Nat
                BY <1>1, FS_Subset, FS_CardinalityType
            <4>2. Cardinality(S \ {t}) = Cardinality(S) - 1 /\ Cardinality(S) # 0
                BY <3>5, <4>1, FS_RemoveElement, FS_EmptySet
            <4> QED
                BY <3>1, <3>2, <4>1, <4>2
        <3>8. k - 1 \notin Other /\ k - 1 \in 0 .. n
            BY <1>1, <3>1, <3>7
        <3>9. g[S \ {t}] \in Nat
            BY <3>2, <3>7, <3>8
        <3> QED
            BY <3>2, <3>5, <3>6, <3>9
    <2>2. X \in SUBSET X /\ n \in 0 .. n
        BY <1>1
    <2> QED
        BY <2>1, <2>2
<1>6. Sums(Sum, SUBSET X, unreached)
    <2>1. \E g : Sums(g, SUBSET X, unreached)
        BY <1>4
    <2> QED
        BY <2>1 DEF Sums
<1> HIDE DEF Sum, X
<1>7. Sum[X] \in Nat
    BY <1>5, <1>6
<1> QED
    BY <1>2, <1>7, OlsrAssumption

-----------------------------------------------------------------------------

\* Some candidate has the largest sum.
LEMMA BestRelay ==
    ASSUME NEW two, IsFiniteSet(two), \A t \in two : t[3] \in Nat, NEW unreached,
           NEW left, left \subseteq Neigh, left # {}
    PROVE  \E h \in left : \A g \in left :
              Koeff(g, two, unreached) <= Koeff(h, two, unreached)
<1> DEFINE value(h) == Koeff(h, two, unreached)
<1>1. IsFiniteSet(left)
    BY FS_Subset, OlsrAssumption DEF Node
<1>2. \A h \in left : value(h) \in Nat
    BY KoeffIsNat
<1> HIDE DEF value
<1> DEFINE Above(h) == {g \in left : value(g) > value(h)}
           m == [h \in left |-> Cardinality(Above(h))]
<1>3. \A h \in left : IsFiniteSet(Above(h)) /\ Cardinality(Above(h)) \in Nat
    BY <1>1, FS_Subset, FS_CardinalityType
<1>4. m \in [left -> Nat]
    BY <1>3
<1>5. PICK h \in left : \A g \in left : m[h] <= m[g]
    <2> HIDE DEF m
    <2> QED
        BY <1>4, LeastOf
<1>6. ASSUME NEW g \in left, value(g) > value(h) PROVE FALSE
    <2>1. Above(g) \subseteq Above(h) /\ g \in Above(h) /\ g \notin Above(g)
        BY <1>2, <1>6
    <2>2. IsFiniteSet(Above(h)) /\ Above(g) # Above(h)
        BY <1>3, <2>1
    <2>3. m[g] = Cardinality(Above(g)) /\ m[h] = Cardinality(Above(h))
        OBVIOUS
    <2> HIDE DEF m, Above
    <2>4. Cardinality(Above(g)) < Cardinality(Above(h))
        BY <1>3, <2>1, <2>2, FS_Subset, FS_CardinalityType
    <2> QED
        BY <1>3, <1>5, <2>3, <2>4
<1>7. \A g \in left : value(g) <= value(h)
    BY <1>2, <1>6
<1> QED
    BY <1>7 DEF value

\* f is the recursive function of Mprs over the candidates all.
Chosen(f, m, n, two, all) ==
    f = [k \in 0 .. m |->
            IF k = 0 THEN [left |-> all, unreached |-> {t[2] : t \in two}]
            ELSE Relay(n, two, f[k - 1])]

LEMMA ChoiceExists ==
    ASSUME NEW n, NEW two, NEW all
    PROVE  \A m \in Nat : \E f : Chosen(f, m, n, two, all)
<1> DEFINE Bad == {m \in Nat : ~\E f : Chosen(f, m, n, two, all)}
           First == [left |-> all, unreached |-> {t[2] : t \in two}]
<1>1. SUFFICES ASSUME Bad # {} PROVE FALSE
    OBVIOUS
<1>2. PICK m \in Bad : \A l \in Bad : m <= l
    <2>1. Bad \subseteq Nat
        OBVIOUS
    <2> HIDE DEF Bad
    <2> QED
        BY <1>1, <2>1, LeastNat
<1>3. \A f, l : Chosen(f, l, n, two, all)
           <=> f = [k \in 0 .. l |-> IF k = 0 THEN First ELSE Relay(n, two, f[k - 1])]
    BY DEF Chosen
<1> HIDE DEF First
<1>4. CASE m = 0
    <2> DEFINE f == [k \in 0 .. 0 |-> First]
    <2>1. f = [k \in 0 .. 0 |-> IF k = 0 THEN First ELSE Relay(n, two, f[k - 1])]
        OBVIOUS
    <2> QED
        BY <1>2, <1>3, <1>4, <2>1
<1>5. CASE m # 0
    <2>1. m - 1 \in Nat /\ m - 1 \notin Bad
        BY <1>2, <1>5
    <2>2. PICK f : Chosen(f, m - 1, n, two, all)
        BY <2>1
    <2> DEFINE g == [k \in 0 .. m |-> IF k = m THEN Relay(n, two, f[m - 1]) ELSE f[k]]
    <2>3. ASSUME NEW k \in 0 .. m
          PROVE  g[k] = IF k = 0 THEN First ELSE Relay(n, two, g[k - 1])
        <3>1. CASE k = m
            <4>1. g[k] = Relay(n, two, f[m - 1]) /\ g[k - 1] = f[m - 1] /\ k # 0
                BY <1>2, <1>5, <3>1
            <4> HIDE DEF g
            <4> QED
                BY <3>1, <4>1
        <3>2. CASE k # m
            <4>1. k \in 0 .. m - 1 /\ m \in Nat
                BY <1>2, <3>2
            <4>2. f[k] = IF k = 0 THEN First ELSE Relay(n, two, f[k - 1])
                BY <1>3, <2>2, <4>1
            <4>3. g[k] = f[k] /\ (k # 0 => g[k - 1] = f[k - 1])
                BY <3>2, <4>1
            <4> HIDE DEF g
            <4> QED
                BY <4>2, <4>3
        <3> QED
            BY <3>1, <3>2
    <2>4. g = [k \in 0 .. m |-> g[k]]
        OBVIOUS
    <2> HIDE DEF g
    <2>5. g = [k \in 0 .. m |-> IF k = 0 THEN First ELSE Relay(n, two, g[k - 1])]
        BY <2>3, <2>4
    <2>6. Chosen(g, m, n, two, all)
        BY <1>3, <2>5
    <2> QED
        BY <1>2, <2>6
<1> QED
    BY <1>4, <1>5

\* A 2-hop neighbour is reached well enough through h.
Through(n, two, h, x) == \E u \in two : u[1] = h /\ u[2] = x /\ n[h].quality * u[3] >= 100 * Threshold

LEMMA ReachedThrough ==
    ASSUME NEW n, NEW two, NEW h, n[h].quality \in Nat, \A t \in two : t[3] \in Nat
    PROVE  \A x \in Reached(n, two, h) : Through(n, two, h, x)
<1> SUFFICES ASSUME NEW x \in Reached(n, two, h) PROVE Through(n, two, h, x)
    OBVIOUS
<1>1. PICK u \in two : u[1] = h /\ u[2] = x /\ (n[h].quality * u[3]) \div 100 >= Threshold
    BY DEF Reached
<1> DEFINE q == n[h].quality * u[3]
<1>2. q \in Nat
    BY <1>1
<1> HIDE DEF q
<1>3. q \div 100 >= Threshold => q >= 100 * Threshold
    BY <1>2, OlsrAssumption
<1> QED
    BY <1>1, <1>3 DEF Through, q

\* What holds after every turn of the loop: each turn takes a candidate away,
\* and what is no longer unreached was reached by one of those taken.
Reaching(s, k, n, two, all) ==
    /\ s.left \subseteq all
    /\ Cardinality(s.left) + k = Cardinality(all) \/ s.unreached = {}
    /\ s.left # {} =>
          \A t \in two : t[2] \in s.unreached
                            \/ \E h \in all \ s.left : Through(n, two, h, t[2])

LEMMA RelayReaches ==
    ASSUME NEW n, NEW two, IsFiniteSet(two), \A t \in two : t[3] \in Nat,
           NEW all, all \subseteq Neigh, \A h \in all : n[h].quality \in Nat,
           NEW s, NEW k \in Nat, k < Cardinality(all), Reaching(s, k, n, two, all)
    PROVE  Reaching(Relay(n, two, s), k + 1, n, two, all)
<1> DEFINE best == CHOOSE h \in s.left : \A g \in s.left :
                      Koeff(g, two, s.unreached) <= Koeff(h, two, s.unreached)
           r == Relay(n, two, s)
<1>1. CASE s.unreached = {}
    <2>1. r = s
        BY <1>1 DEF Relay
    <2> QED
        BY <1>1, <2>1 DEF Reaching
<1>2. CASE s.unreached # {}
    <2>1. r = [left |-> s.left \ {best}, unreached |-> s.unreached \ Reached(n, two, best)]
        BY <1>2 DEF Relay
    <2>2. IsFiniteSet(all) /\ IsFiniteSet(s.left) /\ Cardinality(all) \in Nat
          /\ Cardinality(s.left) \in Nat
        BY FS_Subset, FS_CardinalityType, OlsrAssumption DEF Node, Reaching
    <2>3. s.left # {} /\ Cardinality(s.left) + k = Cardinality(all)
        BY <1>2, <2>2, FS_EmptySet DEF Reaching
    <2>4. best \in s.left
        <3>1. s.left \subseteq Neigh
            BY DEF Reaching
        <3> QED
            BY <2>3, <3>1, BestRelay
    <2> HIDE DEF best, r
    <2>5. best \in all \ r.left /\ r.left \subseteq s.left
        BY <2>1, <2>4 DEF Reaching
    <2>6. Cardinality(r.left) + (k + 1) = Cardinality(all)
        <3>1. Cardinality(s.left \ {best}) = Cardinality(s.left) - 1
            BY <2>2, <2>4, FS_RemoveElement
        <3> QED
            BY <2>1, <2>2, <2>3, <3>1
    <2>7. ASSUME NEW t \in two, t[2] \notin r.unreached
          PROVE  \E h \in all \ r.left : Through(n, two, h, t[2])
        <3>1. CASE t[2] \in Reached(n, two, best)
            <4>1. n[best].quality \in Nat
                BY <2>5
            <4>2. Through(n, two, best, t[2])
                BY <3>1, <4>1, ReachedThrough
            <4> QED
                BY <2>5, <4>2
        <3>2. CASE t[2] \notin s.unreached
            BY <2>3, <2>5, <3>2 DEF Reaching
        <3> QED
            BY <2>1, <2>7, <3>1, <3>2
    <2>8. r.left \subseteq all
        BY <2>5 DEF Reaching
    <2>9. Reaching(r, k + 1, n, two, all)
        BY <2>6, <2>7, <2>8 DEF Reaching
    <2> QED
        BY <2>9 DEF r
<1> QED
    BY <1>1, <1>2

\* The relays of olsr_db_rc_chose_mprset reach what some neighbour reaches.
LEMMA MprsReach ==
    ASSUME NEW n, NEW two, IsFiniteSet(two), \A t \in two : t[3] \in Nat,
           DOMAIN n \subseteq Neigh, \A h \in DOMAIN n : n[h].quality \in Nat,
           NEW t \in two, t[1] \in DOMAIN n, Through(n, two, t[1], t[2])
    PROVE  \E h \in DOMAIN n \cap Mprs(n, two) : Through(n, two, h, t[2])
<1> DEFINE all == {u[1] : u \in two} \cap DOMAIN n
           choice[k \in 0 .. Cardinality(all)] ==
              IF k = 0 THEN [left |-> all, unreached |-> {u[2] : u \in two}]
              ELSE Relay(n, two, choice[k - 1])
           c == Cardinality(all)
           left == choice[c].left
<1>1. Mprs(n, two) = (all \ left) \cup {h \in left : Willing[h] >= Always}
    BY DEF Mprs
<1>2. Chosen(choice, c, n, two, all)
    <2>1. c \in Nat
        BY FS_Subset, FS_CardinalityType, OlsrAssumption DEF Node
    <2>2. \E f : Chosen(f, c, n, two, all)
        BY <2>1, ChoiceExists
    <2> QED
        BY <2>2 DEF Chosen
<1>3. /\ all \subseteq Neigh /\ all \subseteq DOMAIN n /\ t[1] \in all
      /\ \A h \in all : n[h].quality \in Nat
      /\ IsFiniteSet(all) /\ c \in Nat
    BY FS_Subset, FS_CardinalityType, OlsrAssumption DEF Node
<1> HIDE DEF choice
<1>4. choice[0].left = all /\ choice[0].unreached = {u[2] : u \in two}
    BY <1>2, <1>3 DEF Chosen
<1>5. ASSUME NEW k \in 0 .. c - 1 PROVE choice[k + 1] = Relay(n, two, choice[k])
    <2>1. k + 1 \in 0 .. c /\ k + 1 # 0 /\ (k + 1) - 1 = k
        BY <1>3
    <2> HIDE DEF all, c
    <2> QED
        BY <1>2, <2>1 DEF Chosen
<1> HIDE DEF all
<1> DEFINE Bad == {k \in 0 .. c : ~Reaching(choice[k], k, n, two, all)}
<1>6. ASSUME Bad # {} PROVE FALSE
    <2>1. PICK k \in Bad : \A m \in Bad : k <= m
        <3>1. Bad \subseteq Nat
            BY <1>3
        <3> HIDE DEF Bad
        <3> QED
            BY <1>6, <3>1, LeastNat
    <2>2. k # 0
        <3>1. Reaching(choice[0], 0, n, two, all)
            BY <1>3, <1>4 DEF Reaching
        <3> QED
            BY <2>1, <3>1
    <2>3. k - 1 \in 0 .. c - 1 /\ k - 1 \in Nat /\ k - 1 < c
        BY <1>3, <2>1, <2>2
    <2>4. Reaching(choice[k - 1], k - 1, n, two, all)
        BY <1>3, <2>1, <2>3
    <2>5. choice[k] = Relay(n, two, choice[k - 1]) /\ (k - 1) + 1 = k
        <3>1. (k - 1) + 1 = k
            BY <2>3
        <3> QED
            BY <1>5, <2>3, <3>1
    <2>6. Reaching(choice[k], k, n, two, all)
        BY <1>3, <2>3, <2>4, <2>5, RelayReaches
    <2> QED
        BY <2>1, <2>6
<1>7. Reaching(choice[c], c, n, two, all) /\ left = choice[c].left
    BY <1>3, <1>6
<1> HIDE DEF left
<1>8. CASE left = {}
    BY <1>1, <1>3, <1>8
<1>9. CASE left # {}
    <2>1. choice[c].unreached = {}
        <3>1. IsFiniteSet(left) /\ Cardinality(left) \in Nat /\ Cardinality(left) # 0
            BY <1>3, <1>7, <1>9, FS_Subset, FS_CardinalityType, FS_EmptySet DEF Reaching
        <3> QED
            BY <1>3, <1>7, <3>1 DEF Reaching
    <2>2. PICK h \in all \ left : Through(n, two, h, t[2])
        BY <1>7, <1>9, <2>1 DEF Reaching
    <2> QED
        BY <1>1, <1>3, <2>2
<1> QED
    BY <1>8, <1>9
-----------------------------------------------------------------------------

LEMMA QualityIsNat == Quality \subseteq Nat
<1> SUFFICES ASSUME NEW q \in Quality PROVE q \in Nat
    OBVIOUS
<1>1. q \in 0 .. 100
    BY OlsrAssumption
<1> QED
    BY <1>1

LEMMA TripleFinite ==
    ASSUME NEW T, T \subseteq Neigh \X Node \X Quality
    PROVE  IsFiniteSet(T) /\ \A t \in T : t[3] \in Nat
<1> DEFINE S == Neigh \X (Node \X Quality)
           f == [x \in S |-> <<x[1], x[2][1], x[2][2]>>]
           R == {f[x] : x \in S}
<1>1. IsFiniteSet(Neigh) /\ IsFiniteSet(Node)
    BY FS_Subset, OlsrAssumption DEF Node
<1>2. IsFiniteSet(Quality)
    <2>1. \A q \in Quality : q <= 100
        BY OlsrAssumption
    <2> QED
        BY <2>1, QualityIsNat, FS_BoundedSetOfNaturals
<1>3. IsFiniteSet(Node \X Quality)
    BY <1>1, <1>2, FS_Product
<1>4. IsFiniteSet(S)
    BY <1>1, <1>3, FS_Product
<1>5. f \in Surjection(S, R)
    <2>1. f \in [S -> R] /\ \A y \in R : \E x \in S : f[x] = y
        OBVIOUS
    <2> HIDE DEF f, S, R
    <2> QED
        BY <2>1 DEF Surjection
<1>6. IsFiniteSet(R)
    <2> HIDE DEF f, S, R
    <2> QED
        BY <1>4, <1>5, FS_Surjection
<1>7. ASSUME NEW t \in T PROVE t \in R
    <2>1. t[1] \in Neigh /\ t[2] \in Node /\ t[3] \in Quality /\ t = <<t[1], t[2], t[3]>>
        OBVIOUS
    <2> DEFINE x == <<t[1], <<t[2], t[3]>>>>
    <2>2. x \in S /\ f[x] = t
        BY <2>1
    <2> QED
        BY <2>2
<1>8. ASSUME NEW t \in T PROVE t[3] \in Nat
    BY QualityIsNat
<1> HIDE DEF R
<1> QED
    BY <1>6, <1>7, <1>8, FS_Subset

\* After a HELLO the relays cover, whatever it said.
LEMMA HelloCovers ==
    ASSUME StateTyped, NEW i \in Iface, NEW m \in Neigh, NEW hello \in Hello(m),
           HandleHello(i, m, hello), hello.sym
    PROVE  Covered(ns, hop2)'
<1> DEFINE with == Heard1(i, m, hello)
           two == HeardTwo(i, m, hello)
<1>1. /\ hop2' = two
      /\ ns' = [h \in DOMAIN with |-> [with[h] EXCEPT !.mpr = h \in Mprs(with, two)]]
    BY HelloStores
<1>2. /\ DOMAIN with \subseteq Neigh
      /\ \A h \in DOMAIN with : with[h] \in Tuple
      /\ two \subseteq Neigh \X Node \X Quality
    <2>1. NeighboursTyped /\ TwoHopTyped
        BY DEF StateTyped
    <2>2. DOMAIN with = DOMAIN ns \cup {m}
        BY <2>1, HelloTyped
    <2>3. \A h \in DOMAIN with : with[h] \in Tuple
        BY <2>1, HelloTyped
    <2>4. two \subseteq Neigh \X Node \X Quality
        BY <2>1, HelloTyped
    <2> QED
        BY <2>1, <2>2, <2>3, <2>4 DEF NeighboursTyped
<1>3. IsFiniteSet(two) /\ \A t \in two : t[3] \in Nat
    BY <1>2, TripleFinite
<1> HIDE DEF with, two
<1>4. ASSUME NEW h \in DOMAIN with PROVE with[h].quality \in Nat
    <2>1. with[h] \in Tuple
        BY <1>2
    <2> DEFINE q == with[h].quality
    <2>2. q \in Quality \cup {0}
        BY <2>1 DEF Tuple
    <2> HIDE DEF q
    <2>3. q \in Nat
        BY <2>2, QualityIsNat
    <2> QED
        BY <2>3 DEF q
<1>5. ASSUME NEW h \in DOMAIN with
      PROVE  ns'[h].quality = with[h].quality /\ ns'[h].mpr = (h \in Mprs(with, two))
    BY <1>1, <1>2, <1>5 DEF Tuple
<1>6. ASSUME NEW t \in two, t[1] \in DOMAIN with,
             with[t[1]].quality * t[3] >= 100 * Threshold
      PROVE  \E u \in two : /\ u[1] \in DOMAIN with
                            /\ with[u[1]].quality * u[3] >= 100 * Threshold
                            /\ u[2] = t[2] /\ u[1] \in Mprs(with, two)
    <2>1. Through(with, two, t[1], t[2])
        BY <1>6 DEF Through
    <2>2. PICK h \in DOMAIN with \cap Mprs(with, two) : Through(with, two, h, t[2])
        BY <1>2, <1>3, <1>4, <1>6, <2>1, MprsReach
    <2>3. PICK u \in two : u[1] = h /\ u[2] = t[2] /\ with[h].quality * u[3] >= 100 * Threshold
        BY <2>2 DEF Through
    <2> QED
        BY <2>2, <2>3
<1>7. DOMAIN ns' = DOMAIN with
    BY <1>1
<1>8. \A t \in two : t[1] \in DOMAIN ns' /\ ns'[t[1]].quality * t[3] >= 100 * Threshold
         => \E u \in two : /\ u[1] \in DOMAIN ns'
                           /\ ns'[u[1]].quality * u[3] >= 100 * Threshold
                           /\ u[2] = t[2] /\ ns'[u[1]].mpr
    BY <1>5, <1>6, <1>7
<1>9. Covered(ns', two)
    BY <1>8 DEF Covered
<1> QED
    BY <1>1, <1>9 DEF Covered

\* olsr_db_rc_chose_mprset covers: whatever links and qualities HELLOs have
\* told, a 2-hop neighbour that some neighbour reaches well enough is reached
\* so by a relay as soon as the HELLO was handled.
THEOREM SpecMprsCover == Spec => MprsCover
<1> DEFINE A == thread' # thread /\ <<ns, hop2>>' # <<ns, hop2>> => Covered(ns', hop2')
<1>1. StateTyped /\ [Next]_vars => [A]_<<thread, ns, hop2>>
    <2> SUFFICES ASSUME StateTyped, [Next]_vars PROVE A
        OBVIOUS
    <2>1. ASSUME NEW i \in Iface, NEW m \in Neigh, NEW hello \in Hello(m),
                 HandleHello(i, m, hello)
          PROVE  A
        <3>1. CASE hello.sym
            BY <2>1, <3>1, HelloCovers DEF Covered
        <3>2. CASE ~hello.sym
            BY <2>1, <3>2 DEF HandleHello
        <3> QED
            BY <3>1, <3>2
    <2>2. ASSUME UNCHANGED <<ns, hop2>> \/ UNCHANGED thread PROVE A
        BY <2>2
    <2>3. ASSUME NEW i \in Iface, StoreTc(i) \/ SetPending(i)
          PROVE  UNCHANGED <<ns, hop2>>
        BY <2>3 DEF StoreTc, SetPending
    <2>4. ASSUME NEW i \in Iface, NEW o \in TcOrig, NEW k \in DOMAIN TcList,
                 HandleTc(i, o, k)
          PROVE  UNCHANGED <<ns, hop2>>
        BY <2>4 DEF HandleTc
    <2>5. ASSUME NEW l \in InRange, LinkTimeOver(l) \/ PurgeLink(l)
          PROVE  UNCHANGED thread
        BY <2>5 DEF LinkTimeOver, PurgeLink
    <2>6. ASSUME NEW m \in Neigh, PurgeNeighbour(m) PROVE UNCHANGED thread
        BY <2>6 DEF PurgeNeighbour
    <2>7. ASSUME NEW t \in hop2, PurgeTwoHop(t) PROVE UNCHANGED thread
        BY <2>7 DEF PurgeTwoHop
    <2>8. ASSUME NEW o \in TcOrig, PurgeTc(o) PROVE UNCHANGED thread
        BY <2>8 DEF PurgeTc
    <2>9. StartBuild \/ Build \/ EndBuild => UNCHANGED thread
        BY DEF StartBuild, Build, EndBuild
    <2>10. UNCHANGED vars => UNCHANGED thread
        BY DEF vars
    <2> HIDE DEF A
    <2> QED
        BY <2>1, <2>2, <2>3, <2>4, <2>5, <2>6, <2>7, <2>8, <2>9, <2>10 DEF Next
<1> HIDE DEF A
<1>2. Spec => [][A]_<<thread, ns, hop2>>
    BY <1>1, InitIsTyped, NextIsTyped, PTL DEF Spec
<1> QED
    BY <1>2 DEF MprsCover, A
=============================================================================
