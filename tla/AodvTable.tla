----------------------------- MODULE AodvTable -----------------------------
(***************************************************************************)
(* The routing database of a des-aodv node (aodv_rt.c) as operators on a   *)
(* table                                                                   *)
(*    [rt, nht, stale, due, moved]                                         *)
(*   rt    what rt.entries holds for each destination,                     *)
(*   nht   the next hop table, as the set of pairs <<next hop, dest>> of   *)
(*         its destination lists,                                          *)
(*   stale the pairs whose rt_entry pointer refers to a freed entry,       *)
(*   due   the entries whose time in the timeslot has run out,             *)
(*   moved history: destinations whose next hop a RREQ has changed.        *)
(* Every operator is one call under db_rwlock.  The hop count, the output  *)
(* interface and the precursor list decide nothing and are left out.       *)
(***************************************************************************)
EXTENDS AodvSeq

CONSTANTS
    Dest,        \* addresses of mesh hosts
    Hop,         \* interface addresses of neighbours
    NoHop,       \* the zeroed next_hop of a new entry
    MaxMetric    \* AODV_MAX_METRIC

ASSUME TableAssumption == NoHop \notin Hop /\ MaxMetric \in Nat

\* An entry; known and valid are the negated flags AODV_FLAGS_NEXT_HOP_UNKNOWN
\* and AODV_FLAGS_ROUTE_INVALID.
Entry == [live : BOOLEAN, known : BOOLEAN, valid : BOOLEAN,
          hop : Hop \cup {NoHop}, seq : SeqNum, metric : 0..MaxMetric]

Table == [rt : [Dest -> Entry], nht : SUBSET (Hop \X Dest),
          stale : SUBSET (Hop \X Dest), due : SUBSET Dest,
          moved : SUBSET Dest]

Absent == [live |-> FALSE, known |-> FALSE, valid |-> FALSE, hop |-> NoHop,
           seq |-> 0, metric |-> 0]

\* Mutant: the initial metric is worse than the worst one.
FreshEntryBeyond == [live |-> TRUE, known |-> FALSE, valid |-> FALSE,
                     hop |-> NoHop, seq |-> 0, metric |-> MaxMetric + 1]

\* rt_entry_create: "we know nothing about the destination"
FreshEntry == [live |-> TRUE, known |-> FALSE, valid |-> FALSE,
               hop |-> NoHop, seq |-> 0, metric |-> MaxMetric]

EmptyTable == [rt |-> [d \in Dest |-> Absent], nht |-> {}, stale |-> {},
               due |-> {}, moved |-> {}]

Usable(T, d) == T.rt[d].live /\ T.rt[d].known /\ T.rt[d].valid

\* The pair purge_rt_entry and capt_rrep look for: current next hop and dest.
Mapping(T, d) == IF T.rt[d].known THEN {<<T.rt[d].hop, d>>} ELSE {}

\* Mutant: the entry is freed, its mapping is not.
PurgeNoMapping(T) ==
    [rt    |-> [d \in Dest |-> IF d \in T.due THEN Absent ELSE T.rt[d]],
     nht   |-> T.nht,
     stale |-> T.stale \cup {p \in T.nht : p[2] \in T.due},
     due   |-> {},
     moved |-> T.moved]

\* timeslot_purgeobjects and purge_rt_entry: free every entry that is due and
\* the mapping of its current next hop.
Purge(T) ==
    LET left == T.nht \ UNION {Mapping(T, d) : d \in T.due} IN
    [rt    |-> [d \in Dest |-> IF d \in T.due THEN Absent ELSE T.rt[d]],
     nht   |-> left,
     stale |-> {p \in left : p \in T.stale \/ p[2] \in T.due},
     due   |-> {},
     moved |-> T.moved]

\* timeslot_addobject on an existing entry: it gets a new lease, and whatever
\* is due is purged.
Refresh(T, d) == Purge([T EXCEPT !.due = @ \ {d}])

\* Find the entry or create it; timeslot_addobject purges what is due.
FindOrCreate(T, d) ==
    IF T.rt[d].live THEN T
    ELSE LET P == Purge(T)
         IN  [P EXCEPT !.rt = [P.rt EXCEPT ![d] = FreshEntry]]

\* What aodv_db_rt_capt_rreq reports for the originator's entry e.
CaptRreqResult(e, seq, metric) ==
    CASE Comp(e.seq, seq) < 0 -> "new"
      [] e.seq = seq /\ CompMetric(e.metric, metric) < 0 -> "metric_hit"
      [] OTHER -> "old"

\* aodv_db_rt_capt_rreq, the entries of destination and originator exist.
CaptRreqEntry(T, o, h, seq, metric) ==
    LET e == T.rt[o] IN
    IF CaptRreqResult(e, seq, metric) = "old" THEN T
    ELSE [rt    |-> [T.rt EXCEPT ![o] =
                        [live |-> TRUE, known |-> e.known, valid |-> e.valid,
                         hop |-> h, seq |-> seq, metric |-> metric]],
          nht   |-> T.nht,
          stale |-> T.stale,
          due   |-> T.due,
          moved |-> IF e.known /\ e.hop # h THEN T.moved \cup {o}
                    ELSE T.moved]

\* aodv_db_rt_capt_rreq: a RREQ of o for d heard from h.
CaptRreq(T, d, o, h, seq, metric) ==
    CaptRreqEntry(FindOrCreate(FindOrCreate(T, d), o), o, h, seq, metric)

\* aodv_db_rt_capt_rrep uses the route unless it knows a newer one.
CaptRrepUsed(e, seq) == ~(e.known /\ Comp(e.seq, seq) > 0)

CaptRrepEntry(T, d, h, seq, metric) ==
    [rt    |-> [T.rt EXCEPT ![d] =
                   [live |-> TRUE, known |-> TRUE, valid |-> TRUE,
                    hop |-> h, seq |-> seq, metric |-> metric]],
     nht   |-> (T.nht \ Mapping(T, d)) \cup {<<h, d>>},
     stale |-> (T.stale \ Mapping(T, d)) \ {<<h, d>>},
     due   |-> T.due,
     moved |-> T.moved]

\* aodv_db_rt_capt_rrep: h offers a route to d.
CaptRrep(T, d, h, seq, metric) ==
    LET F == FindOrCreate(T, d) IN
    IF CaptRrepUsed(F.rt[d], seq) THEN CaptRrepEntry(F, d, h, seq, metric)
    ELSE F

\* Mark the routes to the destinations in D invalid.
Invalidate(T, D) ==
    [T EXCEPT !.rt = [d \in Dest |->
        IF d \in D THEN [T.rt[d] EXCEPT !.valid = FALSE] ELSE T.rt[d]]]

\* aodv_db_rt_markrouteinv succeeds unless our route is newer.
MarkRouteInvApplies(T, d, seq) ==
    T.rt[d].live /\ ~(Comp(T.rt[d].seq, seq) > 0)

\* The destinations aodv_db_rt_inv_over_nexthop and get_destlist find.
DestList(T, h) == {d \in Dest : <<h, d>> \in T.nht \ T.stale}
=============================================================================
