------------------------------ MODULE OgmTable ------------------------------
(***************************************************************************)
(* An entry of the routing tables of BATMAN and NAMTAB: which originator   *)
(* messages (OGMs) of one originator came over which interface from which  *)
(* next hop, as windows of sequence numbers, and the best of them.         *)
(***************************************************************************)
EXTENDS SlidingWindow, Sequences, FiniteSets

CONSTANTS
    Iface,      \* interfaces
    Hop,        \* addresses of next hops
    NoHop,      \* NULL
    WindowSize  \* window_size

ASSUME OgmAssumption ==
    /\ NoHop \notin Hop
    /\ WindowSize \in Nat \ {0}
    /\ 2 * WindowSize < SeqMod

\* if_entrys in the order of the hash, the window of each next hop (empty:
\* no entry), best_next_hop of each interface, best_output_iface and
\* curr_seq_num.
Entry == [ifs : Seq(Iface), win : [Iface -> [Hop -> SUBSET SeqNum]],
          best : [Iface -> Hop \cup {NoHop}], out : Iface, seq : SeqNum]

\* batman_db_rt_entry_create, for the first OGM over interface i.
NewEntry(i) ==
    [ifs |-> <<i>>, win |-> [j \in Iface |-> [h \in Hop |-> {}]],
     best |-> [j \in Iface |-> NoHop], out |-> i, seq |-> 0]

\* batman_db_nht_addseq and batman_db_nht_shiftuptoseq: the windows after OGM
\* s came over i from h.
Shifted(win, i, h, s) ==
    [j \in Iface |-> [g \in Hop |->
       DropSn(IF <<j, g>> = <<i, h>> THEN AddSn(win[j][g], WindowSize, s)
              ELSE win[j][g], WindowSize, s)]]

\* The next hops an interface may switch to: the longest windows.  Of equal
\* ones the code takes the first of the hash, which is left open here.
Longest(w) ==
    LET known == {h \in Hop : w[h] # {}} IN
    IF known = {} THEN {NoHop}
    ELSE {h \in known : \A g \in known : Cardinality(w[g]) <= Cardinality(w[h])}

\* Mutant: best_output_iface is kept when its interface is dropped.
OutputIfaceKept(e, ifs, win, best) == e.out

\* Interface number k is visited: the best one so far, which may not have been
\* shifted yet, is compared with it.  An interface without next hop is dropped.
Visit(e, ifs, win, best, k, out) ==
    LET j == ifs[k]
        Pos(i) == CHOOSE l \in DOMAIN ifs : ifs[l] = i
        Size(i) == IF Pos(i) <= k THEN Cardinality(win[i][best[i]])
                   ELSE Cardinality(e.win[i][e.best[i]])
        left == {l \in DOMAIN ifs : l > k \/ best[ifs[l]] # NoHop}
    IN  IF best[j] = NoHop
        THEN IF out # j \/ left = {} THEN out
             ELSE ifs[CHOOSE l \in left : \A m \in left : l <= m]
        ELSE IF out # j /\ Size(out) + 1 <= Size(j) THEN j ELSE out

\* best_output_iface, when all interfaces were visited in order.
OutputIface(e, ifs, win, best) ==
    LET out[k \in 0 .. Len(ifs)] ==
           IF k = 0 THEN e.out ELSE Visit(e, ifs, win, best, k, out[k - 1])
    IN  out[Len(ifs)]

\* The interfaces that were not dropped.
Kept(ifs, best) ==
    LET kept[k \in 0 .. Len(ifs)] ==
           IF k = 0 THEN <<>>
           ELSE IF best[ifs[k]] = NoHop THEN kept[k - 1]
           ELSE Append(kept[k - 1], ifs[k])
    IN  kept[Len(ifs)]

\* batman_db_rt_addroute: the entries that e may become.
AddOgm(e, i, h, s) ==
    LET ifs == IF \E k \in DOMAIN e.ifs : e.ifs[k] = i THEN e.ifs
               ELSE Append(e.ifs, i)
        win == Shifted(e.win, i, h, s)
        bests == {b \in [Iface -> Hop \cup {NoHop}] :
                    \A j \in Iface : b[j] \in Longest(win[j])}
    IN  {[ifs |-> Kept(ifs, b), win |-> win, best |-> b,
          out |-> OutputIface(e, ifs, win, b), seq |-> s] : b \in bests}

\* What batman_db_rt_getbestroute follows without looking: the best interface
\* is one of the entry's, and its best next hop has a window.
Usable(e) ==
    /\ \E k \in DOMAIN e.ifs : e.ifs[k] = e.out
    /\ \A k \in DOMAIN e.ifs :
          LET i == e.ifs[k] IN e.best[i] # NoHop /\ e.win[i][e.best[i]] # {}

BestHop(e) == e.best[e.out]
=============================================================================
