------------------------------- MODULE AodvRt -------------------------------
(***************************************************************************)
(* The routing table of one des-aodv node under concurrent handlers.  The  *)
(* mesh threads process RREQ, RREP and RERR, the timer thread sends a RERR *)
(* when a neighbour is lost and cleans up.  Each action is one critical    *)
(* section of db_rwlock; a handler that needs two of them leaves the rest  *)
(* of its work in todo, and other threads may come in between.             *)
(***************************************************************************)
EXTENDS AodvTable

CONSTANTS
    MeshThread,  \* threads that receive mesh messages
    SeqUsed,     \* bound: sequence numbers carried by messages
    MetricUsed   \* bound: metrics carried by messages

ASSUME BoundAssumption ==
    SeqUsed \subseteq SeqNum /\ MetricUsed \subseteq 0..MaxMetric

VARIABLES
    db,        \* the routing database
    todo,      \* what each mesh thread still has to do for its message
    nt,        \* the bidirectional neighbours
    rerr_task, \* neighbours with a scheduled AODV_SC_SEND_OUT_RERR
    broken,    \* neighbour whose RERR the timer thread is building, or NoHop
    lost       \* history: neighbours that were forgotten without a RERR, or whose
               \* message was captured after the RERR for them

rtVars == <<db, todo, nt, rerr_task, broken, lost>>

Nothing == [op |-> "none"]

RtInit ==
    /\ db = EmptyTable
    /\ todo = [t \in MeshThread |-> Nothing]
    /\ nt = {}
    /\ rerr_task = {}
    /\ broken = NoHop
    /\ lost = {}

-----------------------------------------------------------------------------
(* Mesh threads. *)

\* aodv_handle_hello completes a bidirectional exchange with h.
MeetNeighbour(h) ==
    /\ nt' = nt \cup {h}
    /\ UNCHANGED <<db, todo, rerr_task, broken, lost>>

\* aodv_drop_errors: a RREQ or RREP of a neighbour; its fields are chosen when
\* they are read.
PassNeighbour(t, h) ==
    /\ todo[t] = Nothing /\ h \in nt
    /\ todo' = [todo EXCEPT ![t] = [op |-> "passed", hop |-> h]]
    /\ UNCHANGED <<db, nt, rerr_task, broken, lost>>

\* History: h is a neighbour no more, and no RERR for it is due, when one of its
\* messages is captured.
CapturedLate(h) == IF h \in nt \cup rerr_task THEN lost ELSE lost \cup {h}

\* aodv_handle_rreq, first call: capture the RREQ of o for d heard from h.
TakeRreq(t, d, o, h, seq, metric) ==
    LET F == FindOrCreate(FindOrCreate(db, d), o) IN
    /\ todo[t].op = "passed" /\ todo[t].hop = h /\ d # o
    /\ db' = CaptRreq(db, d, o, h, seq, metric)
    /\ todo' = [todo EXCEPT ![t] =
                  IF CaptRreqResult(F.rt[o], seq, metric) = "old" THEN Nothing
                  ELSE [op |-> "reverse", dest |-> o, hop |-> h, metric |-> metric]]
    /\ lost' = CapturedLate(h)
    /\ UNCHANGED <<nt, rerr_task, broken>>

\* aodv_handle_rreq, second call: the RREQ is processed as a RREP with the
\* sequence number 0 /* force */.
ReverseRoute(t) ==
    /\ todo[t].op = "reverse"
    /\ db' = CaptRrep(db, todo[t].dest, todo[t].hop, 0, todo[t].metric)
    /\ todo' = [todo EXCEPT ![t] = Nothing]
    /\ lost' = CapturedLate(todo[t].hop)
    /\ UNCHANGED <<nt, rerr_task, broken>>

\* aodv_handle_rrep: capture the route to d offered by h.
TakeRrep(t, d, h, seq, metric) ==
    /\ todo[t].op = "passed" /\ todo[t].hop = h
    /\ db' = CaptRrep(db, d, h, seq, metric)
    /\ todo' = [todo EXCEPT ![t] = Nothing]
    /\ lost' = CapturedLate(h)
    /\ UNCHANGED <<nt, rerr_task, broken>>

\* aodv_db_getroute2dest: forwarding a packet or a RREP renews the lease.
UseRoute(d) ==
    /\ Usable(db, d)
    /\ db' = Refresh(db, d)
    /\ UNCHANGED <<todo, nt, rerr_task, broken, lost>>

\* aodv_handle_rerr, first call: our next hop to d sent the RERR.
TakeRerr(t, d, seq) ==
    /\ todo[t] = Nothing
    /\ db.rt[d].live /\ db.rt[d].known
    /\ todo' = [todo EXCEPT ![t] = [op |-> "mark", dest |-> d,
                                    hop |-> db.rt[d].hop, seq |-> seq]]
    /\ UNCHANGED <<db, nt, rerr_task, broken, lost>>

\* aodv_handle_rerr, second call: invalidate the route.
MarkRouteInv(t) ==
    /\ todo[t].op = "mark"
    /\ db' = IF MarkRouteInvApplies(db, todo[t].dest, todo[t].seq)
             THEN Invalidate(db, {todo[t].dest}) ELSE db
    /\ todo' = [todo EXCEPT ![t] = Nothing]
    /\ UNCHANGED <<nt, rerr_task, broken, lost>>

-----------------------------------------------------------------------------
(* Timer thread, command line and the passing of time. *)

\* Mutant: the schedule of one neighbour replaces that of another.
NeighbourTimeoutReplaces(h) ==
    /\ h \in nt
    /\ nt' = nt \ {h}
    /\ rerr_task' = {h}
    /\ UNCHANGED <<db, todo, broken, lost>>

\* The hellos of h stop: db_nt_on_neigbor_timeout schedules a RERR.
NeighbourTimeout(h) ==
    /\ h \in nt
    /\ nt' = nt \ {h}
    /\ rerr_task' = rerr_task \cup {h}
    /\ UNCHANGED <<db, todo, broken, lost>>

\* aodv_periodic_scexecute, AODV_SC_SEND_OUT_RERR: aodv_db_inv_over_nexthop.
\* A stale mapping is written through a dangling pointer: the memory may have
\* become any other entry.
InvOverNexthop(h) ==
    /\ broken = NoHop /\ h \in rerr_task
    /\ rerr_task' = rerr_task \ {h}
    /\ \E hit \in SUBSET {d \in Dest : db.rt[d].live} :
          /\ (\A d \in Dest : <<h, d>> \notin db.stale) => hit = {}
          /\ db' = Invalidate(db, DestList(db, h) \cup hit)
    /\ broken' = IF \E d \in Dest : <<h, d>> \in db.nht THEN h ELSE NoHop
    /\ lost' = lost \ {h}
    /\ UNCHANGED <<todo, nt>>

\* Too many RERRs in the last second: the task is dropped.
SkipRerr(h) ==
    /\ broken = NoHop /\ h \in rerr_task
    /\ rerr_task' = rerr_task \ {h}
    /\ lost' = lost \cup {h}
    /\ UNCHANGED <<db, todo, nt, broken>>

\* aodv_db_get_destlist and the RERR itself.
SendRerr ==
    /\ broken # NoHop
    /\ broken' = NoHop
    /\ UNCHANGED <<db, todo, nt, rerr_task, lost>>

LeaseEnds(d) ==
    /\ db.rt[d].live
    /\ db' = [db EXCEPT !.due = @ \cup {d}]
    /\ UNCHANGED <<todo, nt, rerr_task, broken, lost>>

\* aodv_periodic_cleanup_database
Cleanup ==
    /\ db' = Purge(db)
    /\ UNCHANGED <<todo, nt, rerr_task, broken, lost>>

\* aodv_db_rt_routing_reset, from the command line.
RoutingReset ==
    /\ db' = Invalidate(db, {d \in Dest : db.rt[d].live})
    /\ UNCHANGED <<todo, nt, rerr_task, broken, lost>>

\* aodv_db_neighbor_reset, from the command line: no RERR is scheduled.
NeighbourReset ==
    /\ nt' = {}
    /\ lost' = lost \cup nt
    /\ UNCHANGED <<db, todo, rerr_task, broken>>

MeshStep(t) ==
    \/ \E h \in Hop : PassNeighbour(t, h)
    \/ \E d, o \in Dest, h \in Hop, seq \in SeqUsed, metric \in MetricUsed :
          TakeRreq(t, d, o, h, seq, metric)
    \/ ReverseRoute(t)
    \/ \E d \in Dest, h \in Hop, seq \in SeqUsed, metric \in MetricUsed :
          TakeRrep(t, d, h, seq, metric)
    \/ \E d \in Dest, seq \in SeqUsed : TakeRerr(t, d, seq)
    \/ MarkRouteInv(t)

RtNext ==
    \/ \E t \in MeshThread : MeshStep(t)
    \/ \E h \in Hop : \/ MeetNeighbour(h) \/ NeighbourTimeout(h)
                      \/ InvOverNexthop(h) \/ SkipRerr(h)
    \/ \E d \in Dest : UseRoute(d) \/ LeaseEnds(d)
    \/ SendRerr \/ Cleanup \/ RoutingReset \/ NeighbourReset

RtSpec == RtInit /\ [][RtNext]_rtVars

-----------------------------------------------------------------------------
(* Properties. *)

Todo ==
    {Nothing}
    \cup [op : {"passed"}, hop : Hop]
    \cup [op : {"reverse"}, dest : Dest, hop : Hop, metric : 0..MaxMetric]
    \cup [op : {"mark"}, dest : Dest, hop : Hop, seq : SeqNum]

RtTypeOK ==
    /\ db \in Table
    /\ todo \in [MeshThread -> Todo]
    /\ nt \in SUBSET Hop
    /\ rerr_task \in SUBSET Hop
    /\ broken \in Hop \cup {NoHop}
    /\ lost \in SUBSET Hop

\* The destination lists in which d occurs.
MappingsOf(d) == {p \in db.nht : p[2] = d}

\* The next hop table is the inverse of the routing table, and holds no
\* pointer to a freed entry, for every destination whose next hop no RREQ has
\* moved: capt_rreq is the only operation that breaks it.
InverseUnlessMoved ==
    \A d \in Dest \ db.moved :
        /\ MappingsOf(d) = Mapping(db, d)
        /\ MappingsOf(d) \cap db.stale = {}

\* Every route with a next hop is in some destination list, so that some link
\* break still finds it.
RouteIsMapped ==
    \A d \in Dest : db.rt[d].known => MappingsOf(d) \ db.stale # {}

\* A valid route leads over a neighbour, or a RERR that invalidates it is still
\* due, whatever the threads do between the check of a neighbour and the capture
\* of its message. The code has four ways around this: a RREQ has moved the next
\* hop (moved), the rate limit drops the RERR, the command line forgets the
\* neighbours, or the message is captured after the RERR (lost).
RoutesOverNeighbours ==
    \A d \in Dest \ db.moved :
        Usable(db, d) => db.rt[d].hop \in nt \cup rerr_task \cup lost
=============================================================================
