---------------------------- MODULE AodvSeries ----------------------------
(***************************************************************************)
(* Route discovery inside one des-aodv node: the RREQ series, the schedule *)
(* table that repeats them, the RREQ log that limits their rate, and the   *)
(* packet buffer that waits for their answer.                              *)
(*                                                                         *)
(* A series is a heap object that holds the RREQ being repeated towards    *)
(* one destination.  Its owner (a thread inside aodv_send_rreq_real, or    *)
(* the schedule table) hands it back and forth; a thread that learns a     *)
(* route ends the series whoever owns it.  Every action below is one       *)
(* critical section of the code (series_list_lock or db_rwlock), so the    *)
(* threads interleave between any two of them.                             *)
(*                                                                         *)
(* The schedule table also holds RERR, RWARN and RSSI tasks; only its      *)
(* AODV_SC_REPEAT_RREQ entries are modelled, and the time at which an      *)
(* entry is due is arbitrary.                                              *)
(***************************************************************************)
EXTENDS Integers, FiniteSets

CONSTANTS
    Dest,          \* destination addresses (the key of a series)
    NoDest,
    Series,        \* addresses malloc can return for a series
    NoSeries,      \* the NULL series
    SysThread,     \* threads that deliver packets of the host (aodv_sys2rp)
    MeshThread,    \* threads that receive mesh messages
    TimerThread,   \* threads that run periodic tasks
    RREQ_RETRIES,
    RREQ_RATELIMIT,
    RingSearch,    \* the ring_search switch of the CLI
    TTL_START, TTL_INCREMENT, TTL_THRESHOLD, TTL_MAX,
    MaxPackets     \* bound: packets buffered for one destination

Thread == SysThread \cup MeshThread \cup TimerThread

ASSUME AddressAssumption == NoSeries \notin Series /\ NoDest \notin Dest

ASSUME ThreadAssumption ==
    /\ IsFiniteSet(Thread)
    /\ SysThread \cap MeshThread = {}
    /\ SysThread \cap TimerThread = {}
    /\ MeshThread \cap TimerThread = {}

ASSUME ConfigAssumption ==
    /\ RREQ_RETRIES \in Nat
    /\ RREQ_RATELIMIT \in Nat
    /\ RingSearch \in BOOLEAN
    /\ TTL_START \in Nat /\ TTL_INCREMENT \in Nat
    /\ TTL_THRESHOLD \in Nat /\ TTL_MAX \in Nat
    /\ MaxPackets \in Nat

VARIABLES
    heap,        \* the content of each series object
    series_list, \* the objects linked in series_list
    schedule,    \* schedule_param of each (dest, AODV_SC_REPEAT_RREQ)
    rreq_count,  \* RREQs logged in the last second
    packets,     \* number of packets buffered for each destination
    route,       \* destinations with a usable route
    gave_up,     \* history: destinations whose last series gave up
    pc, own, dst \* each thread's position, its series, its destination

threadVars == <<pc, own, dst>>
vars == <<heap, series_list, schedule, rreq_count, packets, route, gave_up,
          threadVars>>

\* The content of an object that is not allocated.
Freed == [live |-> FALSE, key |-> NoDest, stop |-> FALSE, retries |-> 0,
          ttl |-> 0]

Init ==
    /\ heap = [s \in Series |-> Freed]
    /\ series_list = {}
    /\ schedule = [d \in Dest |-> NoSeries]
    /\ rreq_count = 0
    /\ packets = [d \in Dest |-> 0]
    /\ route = {}
    /\ gave_up = {}
    /\ pc = [t \in Thread |-> "idle"]
    /\ own = [t \in Thread |-> NoSeries]
    /\ dst = [t \in Thread |-> NoDest]

Goto(t, label) == pc' = [pc EXCEPT ![t] = label]

Return(t) ==
    /\ pc' = [pc EXCEPT ![t] = "idle"]
    /\ own' = [own EXCEPT ![t] = NoSeries]
    /\ dst' = [dst EXCEPT ![t] = NoDest]

-----------------------------------------------------------------------------
(* The host sends a packet: aodv_sys2rp. *)

\* aodv_db_getroute2dest finds no route (otherwise the packet just leaves).
LookupMiss(t, d) ==
    /\ pc[t] = "idle"
    /\ d \notin route
    /\ Goto(t, "push")
    /\ dst' = [dst EXCEPT ![t] = d]
    /\ UNCHANGED <<heap, series_list, schedule, rreq_count, packets, route,
                   gave_up, own>>

PushPacket(t) ==
    /\ pc[t] = "push"
    /\ packets[dst[t]] < MaxPackets
    /\ packets' = [packets EXCEPT ![dst[t]] = @ + 1]
    /\ Goto(t, "new")
    /\ UNCHANGED <<heap, series_list, schedule, rreq_count, route, gave_up,
                   own, dst>>

\* aodv_pipeline_new_series: a series to the destination exists already ...
JoinSeries(t) ==
    /\ pc[t] = "new"
    /\ \E s \in series_list : heap[s].key = dst[t]
    /\ Return(t)
    /\ UNCHANGED <<heap, series_list, schedule, rreq_count, packets, route,
                   gave_up>>

\* Mutant: start a series without looking for a running one.
NewSeriesUnchecked(t, s) ==
    /\ pc[t] = "new"
    /\ ~heap[s].live
    /\ heap' = [heap EXCEPT ![s] = [live |-> TRUE, key |-> dst[t],
                    stop |-> FALSE, retries |-> 0, ttl |-> TTL_START]]
    /\ series_list' = series_list \cup {s}
    /\ own' = [own EXCEPT ![t] = s]
    /\ gave_up' = gave_up \ {dst[t]}
    /\ Goto(t, "check")
    /\ UNCHANGED <<schedule, rreq_count, packets, route, dst>>

\* ... or the thread starts one and owns it.
NewSeries(t, s) ==
    /\ pc[t] = "new"
    /\ \A r \in series_list : heap[r].key # dst[t]
    /\ ~heap[s].live
    /\ heap' = [heap EXCEPT ![s] = [live |-> TRUE, key |-> dst[t],
                    stop |-> FALSE, retries |-> 0,
                    ttl |-> IF RingSearch THEN TTL_START ELSE TTL_MAX]]
    /\ series_list' = series_list \cup {s}
    /\ own' = [own EXCEPT ![t] = s]
    /\ gave_up' = gave_up \ {dst[t]}
    /\ Goto(t, "check")
    /\ UNCHANGED <<schedule, rreq_count, packets, route, dst>>

-----------------------------------------------------------------------------
(* The owner sends the RREQ of its series: aodv_send_rreq_real. *)

\* Too many RREQs in the last second: try again later.
Postpone(t) ==
    /\ pc[t] = "check"
    /\ rreq_count > RREQ_RATELIMIT
    /\ Goto(t, "reschedule")
    /\ UNCHANGED <<heap, series_list, schedule, rreq_count, packets, route,
                   gave_up, own, dst>>

\* Mutant: the log is not consulted.
PassRateLimitAlways(t) ==
    /\ pc[t] = "check"
    /\ Goto(t, "send")
    /\ UNCHANGED <<heap, series_list, schedule, rreq_count, packets, route,
                   gave_up, own, dst>>

PassRateLimit(t) ==
    /\ pc[t] = "check"
    /\ rreq_count <= RREQ_RATELIMIT
    /\ Goto(t, "send")
    /\ UNCHANGED <<heap, series_list, schedule, rreq_count, packets, route,
                   gave_up, own, dst>>

\* What ring search makes of the ttl once the RREQ has been sent.
NextTtl(n) ==
    CASE ~RingSearch \/ n > TTL_THRESHOLD      -> n
      [] n + TTL_INCREMENT > TTL_THRESHOLD     -> TTL_MAX
      [] OTHER                                 -> n + TTL_INCREMENT

\* Mutant: the retry is not counted.
NextRingUncounted(r) == [r EXCEPT !.ttl = NextTtl(r.ttl)]

\* The content of a series that will try once more.
NextRing(r) == [r EXCEPT !.retries = r.retries + 1, !.ttl = NextTtl(r.ttl)]

\* Mutant: one retry too many.
RetriesUsedUpLate(s) == heap[s].retries > RREQ_RETRIES

RetriesUsedUp(s) == heap[s].retries >= RREQ_RETRIES

\* dessert_meshsend and aodv_db_putrreq; then widen the ring, or give up.
SendRreq(t) ==
    LET s == own[t] IN
    /\ pc[t] = "send"
    /\ rreq_count' = rreq_count + 1
    /\ \/ /\ RetriesUsedUp(s)
          /\ Goto(t, "giveup")
          /\ UNCHANGED heap
       \/ /\ ~RetriesUsedUp(s)
          /\ heap' = [heap EXCEPT ![s] = NextRing(heap[s])]
          /\ Goto(t, "reschedule")
    /\ UNCHANGED <<series_list, schedule, packets, route, gave_up, own, dst>>

\* aodv_pipeline_reschedule_series: hand the series to the schedule table ...
Reschedule(t) ==
    LET s == own[t] IN
    /\ pc[t] = "reschedule"
    /\ ~heap[s].stop
    /\ schedule' = [schedule EXCEPT ![heap[s].key] = s]
    /\ Return(t)
    /\ UNCHANGED <<heap, series_list, rreq_count, packets, route, gave_up>>

\* ... or, when it was ended meanwhile, free it.
FreeStopped(t) ==
    /\ pc[t] = "reschedule"
    /\ heap[own[t]].stop
    /\ heap' = [heap EXCEPT ![own[t]] = Freed]
    /\ Return(t)
    /\ UNCHANGED <<series_list, schedule, rreq_count, packets, route, gave_up>>

\* Mutant: free the series whoever owns it.
DeleteAndFree(s) ==
    /\ series_list' = series_list \ {s}
    /\ schedule' = [schedule EXCEPT ![heap[s].key] = NoSeries]
    /\ heap' = [heap EXCEPT ![s] = Freed]

\* Mutant: the schedule is not dropped; the series is left to its owner.
DeleteKeepSchedule(s) ==
    /\ series_list' = series_list \ {s}
    /\ heap' = [heap EXCEPT ![s].stop = TRUE]
    /\ UNCHANGED schedule

\* aodv_pipeline_delete_series_unlocked on a series that is still listed:
\* unlink it, and free it only if the schedule table owned it.
DeleteSeriesUnlocked(s) ==
    LET d == heap[s].key IN
    /\ series_list' = series_list \ {s}
    /\ schedule' = [schedule EXCEPT ![d] = NoSeries]
    /\ heap' = IF schedule[d] # NoSeries
               THEN [heap EXCEPT ![s] = Freed]
               ELSE [heap EXCEPT ![s].stop = TRUE]

\* The last retry has been sent: aodv_pipeline_delete_series by the owner.
GiveUp(t) ==
    LET s == own[t] IN
    /\ pc[t] = "giveup"
    /\ \/ ~heap[s].stop /\ DeleteSeriesUnlocked(s)
       \/ heap[s].stop /\ UNCHANGED <<heap, series_list, schedule>>
    /\ gave_up' = IF heap[s].stop THEN gave_up ELSE gave_up \cup {heap[s].key}
    /\ Return(t)
    /\ UNCHANGED <<rreq_count, packets, route>>

-----------------------------------------------------------------------------
(* A RREQ or RREP taught us a route: aodv_send_packets_from_buffer. *)

\* aodv_db_capt_rrep
LearnRoute(t, d) ==
    /\ pc[t] = "idle"
    /\ route' = route \cup {d}
    /\ dst' = [dst EXCEPT ![t] = d]
    /\ Goto(t, "delete")
    /\ UNCHANGED <<heap, series_list, schedule, rreq_count, packets, gave_up,
                   own>>

\* Mutant: the series is ended, the buffered packets are not flushed.
DeleteSeriesNoFlush(t) ==
    /\ pc[t] = "delete"
    /\ \/ \E s \in series_list :
             heap[s].key = dst[t] /\ ~heap[s].stop /\ DeleteSeriesUnlocked(s)
       \/ /\ \A s \in series_list : heap[s].key = dst[t] => heap[s].stop
          /\ UNCHANGED <<heap, series_list, schedule>>
    /\ Return(t)
    /\ UNCHANGED <<rreq_count, packets, route, gave_up>>

\* aodv_pipeline_delete_series_ether
DeleteSeriesEther(t) ==
    /\ pc[t] = "delete"
    /\ \/ \E s \in series_list :
             heap[s].key = dst[t] /\ ~heap[s].stop /\ DeleteSeriesUnlocked(s)
       \/ /\ \A s \in series_list : heap[s].key = dst[t] => heap[s].stop
          /\ UNCHANGED <<heap, series_list, schedule>>
    /\ Goto(t, "flush")
    /\ UNCHANGED <<rreq_count, packets, route, gave_up, own, dst>>

\* One round of the loop over aodv_db_pop_packet.
FlushPacket(t) ==
    /\ pc[t] = "flush"
    /\ packets[dst[t]] > 0
    /\ packets' = [packets EXCEPT ![dst[t]] = @ - 1]
    /\ UNCHANGED <<heap, series_list, schedule, rreq_count, route, gave_up,
                   threadVars>>

FlushDone(t) ==
    /\ pc[t] = "flush"
    /\ packets[dst[t]] = 0
    /\ Return(t)
    /\ UNCHANGED <<heap, series_list, schedule, rreq_count, packets, route,
                   gave_up>>

-----------------------------------------------------------------------------
(* Periodic tasks and the passing of time. *)

\* Mutant: the due schedule is run but stays in the table.
PeekSchedule(t, d) ==
    /\ pc[t] = "idle"
    /\ schedule[d] # NoSeries
    /\ own' = [own EXCEPT ![t] = schedule[d]]
    /\ dst' = [dst EXCEPT ![t] = d]
    /\ Goto(t, "check")
    /\ UNCHANGED <<heap, series_list, schedule, rreq_count, packets, route,
                   gave_up>>

\* aodv_periodic_scexecute pops a due AODV_SC_REPEAT_RREQ.
PopSchedule(t, d) ==
    /\ pc[t] = "idle"
    /\ schedule[d] # NoSeries
    /\ own' = [own EXCEPT ![t] = schedule[d]]
    /\ schedule' = [schedule EXCEPT ![d] = NoSeries]
    /\ dst' = [dst EXCEPT ![t] = d]
    /\ Goto(t, "check")
    /\ UNCHANGED <<heap, series_list, rreq_count, packets, route, gave_up>>

\* A logged RREQ is older than one second.
ForgetRreq ==
    /\ rreq_count > 0
    /\ rreq_count' = rreq_count - 1
    /\ UNCHANGED <<heap, series_list, schedule, packets, route, gave_up,
                   threadVars>>

\* The buffered packets of a destination time out together.
PurgePackets(d) ==
    /\ packets[d] > 0
    /\ packets' = [packets EXCEPT ![d] = 0]
    /\ UNCHANGED <<heap, series_list, schedule, rreq_count, route, gave_up,
                   threadVars>>

\* The route expires, or a RERR or a broken link invalidates it.
LoseRoute(d) ==
    /\ d \in route
    /\ route' = route \ {d}
    /\ UNCHANGED <<heap, series_list, schedule, rreq_count, packets, gave_up,
                   threadVars>>

SendRreqReal(t) ==
    \/ Postpone(t) \/ PassRateLimit(t) \/ SendRreq(t)
    \/ Reschedule(t) \/ FreeStopped(t) \/ GiveUp(t)

SysStep(t) ==
    \/ \E d \in Dest : LookupMiss(t, d)
    \/ PushPacket(t)
    \/ JoinSeries(t)
    \/ \E s \in Series : NewSeries(t, s)
    \/ SendRreqReal(t)

MeshStep(t) ==
    \/ \E d \in Dest : LearnRoute(t, d)
    \/ DeleteSeriesEther(t) \/ FlushPacket(t) \/ FlushDone(t)

TimerStep(t) ==
    \/ \E d \in Dest : PopSchedule(t, d)
    \/ SendRreqReal(t)

Environment ==
    \/ ForgetRreq
    \/ \E d \in Dest : PurgePackets(d) \/ LoseRoute(d)

Next ==
    \/ \E t \in SysThread : SysStep(t)
    \/ \E t \in MeshThread : MeshStep(t)
    \/ \E t \in TimerThread : TimerStep(t)
    \/ Environment

Spec == Init /\ [][Next]_vars

\* Handlers run to completion, the periodic task pops every due schedule in
\* the end (the table is sorted by time), and the RREQ log drains.  Nothing
\* obliges the host to send, or a route to be learnt or lost.
Fairness ==
    /\ \A t \in SysThread : WF_vars(JoinSeries(t) \/ SendRreqReal(t)
                                    \/ \E s \in Series : NewSeries(t, s))
    /\ \A t \in TimerThread : WF_vars(SendRreqReal(t))
    /\ \A d \in Dest : WF_vars(\E t \in TimerThread : PopSchedule(t, d))
    /\ WF_vars(ForgetRreq)

FairSpec == Spec /\ Fairness

-----------------------------------------------------------------------------
(* Properties. *)

SeriesRecord == [live : BOOLEAN, key : Dest \cup {NoDest}, stop : BOOLEAN,
                 retries : 0..RREQ_RETRIES, ttl : Nat]

TypeOK ==
    /\ heap \in [Series -> SeriesRecord]
    /\ series_list \in SUBSET Series
    /\ schedule \in [Dest -> Series \cup {NoSeries}]
    /\ rreq_count \in Nat
    /\ packets \in [Dest -> 0..MaxPackets]
    /\ route \in SUBSET Dest
    /\ gave_up \in SUBSET Dest
    /\ pc \in [Thread -> {"idle", "push", "new", "check", "send",
                          "reschedule", "giveup", "delete", "flush"}]
    /\ own \in [Thread -> Series \cup {NoSeries}]
    /\ dst \in [Thread -> Dest \cup {NoDest}]

\* No thread, no schedule and no list link ever refers to a freed series: the
\* stop flag keeps aodv_send_rreq_real from touching, and the table from
\* handing out, an object that send_packets_from_buffer freed.
NoUseAfterFree ==
    /\ \A t \in Thread : own[t] # NoSeries => heap[own[t]].live
    /\ \A d \in Dest : schedule[d] # NoSeries => heap[schedule[d]].live
    /\ \A s \in series_list : heap[s].live

\* "a series is either owned by a invocation of send_rreq, delete_series,
\* reschedule_series or of the schedule table": never by two of them, so a
\* series is neither sent by two threads at once nor freed twice.
SingleOwner ==
    /\ \A t, u \in Thread : own[t] = own[u] /\ own[t] # NoSeries => t = u
    /\ \A t \in Thread, d \in Dest : own[t] = schedule[d] => own[t] = NoSeries

\* "a schedule is only added by a valid series and dropped or popped before
\* the series is deleted": what the table holds is the one running series of
\* its destination.
ScheduleIsRunning ==
    \A d \in Dest : schedule[d] # NoSeries =>
        /\ schedule[d] \in series_list
        /\ heap[schedule[d]].key = d
        /\ ~heap[schedule[d]].stop

\* At most one series runs to a destination, whichever threads ask for one.
OneSeriesPerDest ==
    \A r, s \in series_list : heap[r].key = heap[s].key => r = s

\* aodv_db_sc_addschedule silently drops a previous schedule of the same key
\* (and would lose its series): a series is rescheduled into an empty slot.
NoScheduleLost ==
    \A t \in Thread :
        pc[t] = "reschedule" /\ ~heap[own[t]].stop =>
            schedule[heap[own[t]].key] = NoSeries

Owned(s) ==
    \/ \E t \in Thread : own[t] = s
    \/ \E d \in Dest : schedule[d] = s

\* The only series nobody owns are those that used up their retries.
OrphansGaveUp ==
    \A s \in Series : heap[s].live /\ ~Owned(s) =>
        heap[s].stop /\ heap[s].retries = RREQ_RETRIES

\* The rate limit is checked and charged in two critical sections, and
\* admits one RREQ more than its constant; each thread can overshoot once.
RateLimitSlack == rreq_count <= RREQ_RATELIMIT + Cardinality(Thread)

\* A buffered packet is never forgotten while discovery runs: a series to its
\* destination is running, or some thread is about to start one or to flush
\* the buffer, unless the last series gave up.
BufferedHasDiscovery ==
    \A d \in Dest : packets[d] > 0 =>
        \/ \E s \in series_list : heap[s].key = d
        \/ \E t \in Thread : dst[t] = d /\ pc[t] \in {"new", "delete", "flush"}
        \/ d \in gave_up

\* A series answered by nobody ends: it gives up after its retries.
SeriesEnds ==
    \A d \in Dest : (\E s \in series_list : heap[s].key = d)
                        ~> ~(\E s \in series_list : heap[s].key = d)
=============================================================================
