-------------------------------- MODULE Nhdp --------------------------------
(***************************************************************************)
(* Neighbourhood discovery of des-gossip-adv (gossiping_nhdp.c, after      *)
(* RFC 6130): nodes with one mesh interface each exchange HELLOs, learn    *)
(* their symmetric links and 2-hop neighbours and choose multipoint relays *)
(* (MPRs).  A HELLO is handled under all_sets_lock; the timer thread sends *)
(* HELLOs, removes what has expired and, without the lock, chooses MPRs.   *)
(***************************************************************************)
EXTENDS FiniteSets, Naturals

CONSTANTS
    Node,      \* L2 addresses, one per node
    Link,      \* bound: the radio links <<sender, receiver>> of all scenarios
    NoHello,   \* no HELLO on its way
    Scenarios  \* bound: radio links, mode, what the sets hold, how many faults

ASSUME NhdpAssumption ==
    \A s \in Scenarios :
       /\ s.node \subseteq Node /\ IsFiniteSet(s.node)
       /\ s.radio \subseteq Link \cap (s.node \X s.node)
       /\ \A l \in s.radio : l[1] # l[2]
       /\ s.two \in [s.node -> SUBSET (s.node \X s.node)]
       /\ \A n \in s.node : \A t \in s.two[n] : t[1] # n
       /\ s.mode \in [s.node -> {"periodic", "event"}] /\ s.faults \in Nat

VARIABLES
    net,      \* the scenario
    link,     \* l_set: status by neighbour, "none" when there is no tuple
    selector, \* the neighbours with L_mpr_selector
    nset,     \* n_set
    nsym,     \* those of n_set with N_symmetric
    mpr,      \* those of n_set with N_mpr
    n2,       \* n2_set: <<neighbour, 2-hop neighbour>>
    task,     \* who chooses MPRs: a "periodic", the "event", or what is "gone"
    choosing, \* nodes whose timer thread is inside _reselect_mprs
    torn,     \* those of them whose sets another thread has changed meanwhile
    wire,     \* the HELLO on its way over each radio link
    faults    \* the faults that are left

\* The nodes of the scenario, and those of all scenarios that have a link.
Here == net.node
Station == {l[1] : l \in Link}

nhdpVars == <<link, selector, nset, nsym, mpr, n2, task, choosing, torn, wire>>

Status == {"none", "lost", "heard", "sym"}
HelloMsg == [st : [Here -> Status], other : SUBSET Here, mpr : SUBSET Here]

NhdpTypeOK ==
    /\ link \in [Here -> [Here -> Status]]
    /\ {selector, nset, nsym, mpr} \subseteq [Here -> SUBSET Here]
    /\ n2 \in [Here -> SUBSET (Here \X Here)]
    /\ task \in [Here -> {"periodic", "event", "gone"}]
    /\ torn \subseteq choosing /\ choosing \subseteq Here
    /\ wire \in [net.radio -> HelloMsg \cup {NoHello}]
    /\ faults \in Nat

\* A scenario may begin with 2-hop neighbours that HELLOs have announced.
NhdpInit ==
    /\ net \in Scenarios
    /\ LET via(n) == {t[1] : t \in net.two[n]} IN
       /\ link = [n \in Here |-> [m \in Here |-> IF m \in via(n) THEN "sym" ELSE "none"]]
       /\ nset = [n \in Here |-> via(n)] /\ nsym = nset
    /\ n2 = net.two
    /\ selector = [n \in Here |-> {}] /\ mpr = [n \in Here |-> {}]
    /\ task = net.mode /\ choosing = {} /\ torn = {}
    /\ wire = [l \in net.radio |-> NoHello]
    /\ faults = net.faults

Fault == faults > 0 /\ faults' = faults - 1

-----------------------------------------------------------------------------
(* Multipoint relays *)

\* The 2-hop neighbours that are in no tuple of n_set: _isNeighbor.
Strict(n, two) == {t \in two : t[2] \notin nset[n]}

\* _create_mpr_ni_set: symmetric neighbours that reach a strict 2-hop neighbour.
Candidates(two, links, sym, ns) ==
    {m \in sym : links[m] # "none" /\ \E t \in two : t[1] = m /\ t[2] \notin ns}

\* Mutant: no relay is forced.
NoBottlenecks(two, cands, ns) == {}

\* The candidates that alone reach a strict 2-hop neighbour.
Bottlenecks(two, cands, ns) ==
    {m \in cands : \E t \in two :
        t[2] \notin ns /\ {c \in cands : <<c, t[2]>> \in two} = {m}}

\* What _reselect_mprs may leave: the bottlenecks and, of the other candidates,
\* the first of the hash.  The filters of _filter_mpr_candidates compare the
\* first candidate with itself and remove nothing.
Choices(two, links, sym, ns) ==
    LET cands == Candidates(two, links, sym, ns)
        forced == Bottlenecks(two, cands, ns)
    IN  IF cands \subseteq forced THEN {forced}
        ELSE {forced \cup {c} : c \in cands \ forced}

\* The periodic _reselect_mprs takes no lock.  It clears N_mpr first.
StartChoosing(n) ==
    /\ task[n] = "periodic" /\ n \notin choosing
    /\ Candidates(n2[n], link[n], nsym[n], nset[n]) # {} \/ mpr[n] # {}
    /\ choosing' = choosing \cup {n}
    /\ mpr' = [mpr EXCEPT ![n] = {}]
    /\ UNCHANGED <<link, selector, nset, nsym, n2, task, torn, wire, faults>>

\* It reads the sets at many moments.  Its own thread removes what has expired, so
\* only a HELLO or a flush changes them meanwhile; then addresses and tuples were
\* freed under its iterators or found missing, and the outcome is open.
Choose(n) ==
    /\ n \in choosing
    /\ \E S \in IF n \in torn THEN SUBSET nset[n]
                ELSE Choices(n2[n], link[n], nsym[n], nset[n]) :
          mpr' = [mpr EXCEPT ![n] = S]
    /\ choosing' = choosing \ {n} /\ torn' = torn \ {n}
    /\ UNCHANGED <<link, selector, nset, nsym, n2, wire>>

\* _reselect_mprs ends without a return statement: what its caller reads as the
\* result may end the periodic, and reselect_mprs_task stays set.
ChooseAgain(n) == Choose(n) /\ UNCHANGED <<task, faults>>
ChooseLastTime(n) == Fault /\ Choose(n) /\ task' = [task EXCEPT ![n] = "gone"]

-----------------------------------------------------------------------------
(* HELLO *)

\* Mutant: links that are only heard are left out.
HelloOfSymmetric(n) ==
    [st |-> [m \in Here |-> IF link[n][m] = "sym" THEN "sym" ELSE "none"],
     other |-> {m \in nsym[n] : link[n][m] # "sym"},
     mpr |-> {m \in nsym[n] \cap mpr[n] : link[n][m] = "sym"}]

\* The address blocks: a LINK_STATUS per tuple of l_set; then, per symmetric
\* neighbour, OTHER_NEIGHB unless its link is symmetric, and MPR only if it is.
Hello(n) ==
    [st |-> link[n],
     other |-> {m \in nsym[n] : link[n][m] # "sym"},
     mpr |-> {m \in nsym[n] \cap mpr[n] : link[n][m] = "sym"}]

\* nhdp_send_hello, by the timer thread.  The next HELLO is later than the
\* delivery of this one.
SendHello(n) ==
    /\ net.g = 11 /\ n \notin choosing
    /\ {l \in net.radio : l[1] = n} # {}
    /\ \A l \in net.radio : l[1] = n => wire[l] = NoHello
    /\ wire' = [l \in net.radio |-> IF l[1] = n THEN Hello(n) ELSE wire[l]]
    /\ UNCHANGED <<link, selector, nset, nsym, mpr, n2, task, choosing, torn, faults>>

\* The addresses that a HELLO gives as symmetric.
Claimed(h) == {x \in Here : h.st[x] = "sym"} \cup h.other

\* _do_linkset_updates: the status of the sender's link.  Without a block for
\* this node a link that has not expired stays symmetric.
StatusAfter(old, block) ==
    IF block \in {"heard", "sym"} \/ (block = "none" /\ old = "sym") THEN "sym" ELSE "heard"

\* Mutant: 2-hop neighbours over a link survive its end.
KeepTwoHop(two, m) == two

\* _link_changed_to_not_symmetric, for n2_set.
WithoutTwoHop(two, m) == {t \in two : t[1] # m}

\* _do_linkset_mpr_updates
SelectorAfter(sel, m, h, n, now) ==
    IF n \in h.mpr THEN sel \cup {m}
    ELSE IF h.st[n] = "sym" \/ now # "sym" THEN sel \ {m}
    ELSE sel

\* nhdp_handle_hello.  The addresses that a HELLO gives as LOST or HEARD remain:
\* _do_n2set_updates looks for them in a branch that their type never reaches.  Any
\* HELLO frees and fills again the sender's list of addresses, or adds the list.
HandleHello(m, n) ==
    LET h == wire[<<m, n>>]
        old == link[n][m]
        now == StatusAfter(old, h.st[n])
        ended == old = "sym" /\ now # "sym"
        began == old # "sym" /\ now = "sym"
        kept == IF ended THEN WithoutTwoHop(n2[n], m) ELSE n2[n]
        two == kept \cup IF now = "sym" THEN {m} \X (Claimed(h) \ {m, n}) ELSE {}
        links == [link[n] EXCEPT ![m] = now]
        sym == (nsym[n] \ IF ended THEN {m} ELSE {}) \cup IF began THEN {m} ELSE {}
        ns == nset[n] \cup {m}
        reselect == ns # nset[n] \/ ended \/ began \/ ~(two \subseteq n2[n])
    IN
    /\ <<m, n>> \in net.radio /\ h # NoHello
    /\ wire' = [wire EXCEPT ![<<m, n>>] = NoHello]
    /\ link' = [link EXCEPT ![n] = links]
    /\ nset' = [nset EXCEPT ![n] = ns]
    /\ nsym' = [nsym EXCEPT ![n] = sym]
    /\ n2' = [n2 EXCEPT ![n] = two]
    /\ selector' = [selector EXCEPT ![n] = SelectorAfter(@, m, h, n, now)]
    /\ IF reselect /\ task[n] = "event"
       THEN \E S \in Choices(two, links, sym, ns) : mpr' = [mpr EXCEPT ![n] = S]
       ELSE mpr' = [mpr EXCEPT ![n] = IF m \in nsym[n] THEN @ ELSE @ \ {m}]
    /\ torn' = torn \cup ({n} \cap choosing)
    /\ UNCHANGED <<task, choosing, faults>>

-----------------------------------------------------------------------------
(* Faults *)

\* A HELLO is lost by the radio, or dropped as invalid: nhdp_send_hello may read
\* num_address_blocks before it is set, and splits the blocks where it must not.
LoseHello(l) ==
    /\ Fault
    /\ wire[l] # NoHello /\ wire' = [wire EXCEPT ![l] = NoHello]
    /\ UNCHANGED <<link, selector, nset, nsym, mpr, n2, task, choosing, torn>>

\* L_SYM_time, then L_HEARD_time, ends.
LinkExpires(n, m) ==
    /\ Fault
    /\ link[n][m] \in {"sym", "heard"}
    /\ link' = [link EXCEPT ![n][m] = IF @ = "sym" THEN "heard" ELSE "lost"]
    /\ UNCHANGED <<selector, nset, nsym, mpr, n2, task, choosing, torn, wire>>

\* nhdp_cleanup_expired, with what has expired.  The neighbour's entry in n_set
\* stays: the search for other links to it finds the link that is being removed.
Cleanup(n, links, two) ==
    /\ Fault
    /\ n \notin choosing
    /\ links \cup two # {}
    /\ \A m \in links : link[n][m] = "lost"
    /\ link' = [link EXCEPT ![n] = [m \in Here |-> IF m \in links THEN "none" ELSE @[m]]]
    /\ selector' = [selector EXCEPT ![n] = @ \ links]
    /\ n2' = [n2 EXCEPT ![n] = @ \ two]
    /\ UNCHANGED <<nset, nsym, mpr, task, choosing, torn, wire>>

\* cli_flush_hashes ("same as quick restart"), by the CLI thread.
Flush(n) ==
    /\ Fault
    /\ nset[n] # {}
    /\ link' = [link EXCEPT ![n] = [m \in Here |-> "none"]]
    /\ selector' = [selector EXCEPT ![n] = {}] /\ nset' = [nset EXCEPT ![n] = {}]
    /\ nsym' = [nsym EXCEPT ![n] = {}] /\ mpr' = [mpr EXCEPT ![n] = {}]
    /\ n2' = [n2 EXCEPT ![n] = {}] /\ torn' = torn \cup ({n} \cap choosing)
    /\ UNCHANGED <<task, choosing, wire>>

NhdpNext ==
    \/ \E n \in Here : \/ StartChoosing(n) \/ ChooseAgain(n) \/ ChooseLastTime(n)
                       \/ SendHello(n) \/ Flush(n)
                       \/ \E two \in SUBSET n2[n], links \in SUBSET {m \in Here : link[n][m] = "lost"} :
                             Cleanup(n, links, two)
    \/ \E l \in net.radio : HandleHello(l[1], l[2]) \/ LoseHello(l)
    \/ \E n, m \in Here : LinkExpires(n, m)

\* The timer and the receiving threads run.  A timer thread takes what is due
\* first: HELLOs are sent however often it chooses MPRs.
NhdpFair ==
    /\ \A n \in Station : /\ WF_nhdpVars(n \in Here /\ (StartChoosing(n) \/ ChooseAgain(n)))
                          /\ SF_nhdpVars(n \in Here /\ SendHello(n))
    /\ \A l \in Link : WF_nhdpVars(l \in net.radio /\ HandleHello(l[1], l[2]))
=============================================================================
