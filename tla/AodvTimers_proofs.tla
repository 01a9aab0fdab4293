-------------------------- MODULE AodvTimers_proofs --------------------------
(***************************************************************************)
(* Proofs about what a des-aodv node does by the clock, for any number of  *)
(* destinations, threads and objects.  First the ownership of a RREQ       *)
(* series (AodvSeries), which the schedule table and the threads hand back *)
(* and forth, and its rate limit.  Then the list of leases (AodvTimeslot): *)
(* it stays a sorted list and implements a set of leases.                  *)
(***************************************************************************)
EXTENDS AodvSeries, AodvTimeslot, FiniteSetTheorems, WellFoundedInduction, TLAPS

\* The four positions inside aodv_send_rreq_real.
Sending == {"check", "send", "reschedule", "giveup"}

\* A thread owns a series exactly while it is inside aodv_send_rreq_real, and
\* the series is then allocated.
OwnerInv ==
    \A t \in Thread :
        /\ own[t] # NoSeries <=> pc[t] \in Sending
        /\ own[t] # NoSeries => heap[own[t]].live

\* A thread that is not idle works for a destination.
DstInv == \A t \in Thread : pc[t] # "idle" => dst[t] \in Dest

\* series_list holds the allocated series that are not marked to stop.
ListInv ==
    \A s \in Series :
        /\ s \in series_list <=> heap[s].live /\ ~heap[s].stop
        /\ heap[s].live => heap[s].key \in Dest

\* The inductive strengthening.
IInv ==
    /\ TypeOK /\ OwnerInv /\ DstInv /\ ListInv
    /\ SingleOwner /\ ScheduleIsRunning /\ OneSeriesPerDest

LEMMA InitIInv == Init => IInv
  BY AddressAssumption, ConfigAssumption
  DEF Init, IInv, TypeOK, OwnerInv, DstInv, ListInv, SingleOwner,
      ScheduleIsRunning, OneSeriesPerDest, Freed, SeriesRecord, Sending

\* Type correctness is preserved by every step.
LEMMA NextTypeOK == IInv /\ [Next]_vars => TypeOK'
<1> SUFFICES ASSUME IInv, [Next]_vars PROVE TypeOK'
  OBVIOUS
<1> USE AddressAssumption, ConfigAssumption
<1> USE DEF IInv, TypeOK, SeriesRecord, Goto, Return
<1>1. ASSUME NEW t \in Thread, NEW d \in Dest, LookupMiss(t, d)
      PROVE  TypeOK'
  BY <1>1 DEF LookupMiss
<1>2. ASSUME NEW t \in Thread, PushPacket(t)
      PROVE  TypeOK'
  <2>1. dst[t] \in Dest
    BY <1>2 DEF PushPacket, DstInv
  <2>2. packets' \in [Dest -> 0..MaxPackets]
    BY <1>2, <2>1 DEF PushPacket
  <2> QED
    BY <1>2, <2>2 DEF PushPacket
<1>3. ASSUME NEW t \in Thread, JoinSeries(t)
      PROVE  TypeOK'
  BY <1>3 DEF JoinSeries
<1>4. ASSUME NEW t \in Thread, NEW s \in Series, NewSeries(t, s)
      PROVE  TypeOK'
  <2>1. dst[t] \in Dest
    BY <1>4 DEF NewSeries, DstInv
  <2>2. heap' \in [Series -> SeriesRecord]
    BY <1>4, <2>1 DEF NewSeries
  <2> QED
    BY <1>4, <2>2 DEF NewSeries
<1>5. ASSUME NEW t \in Thread, Postpone(t) \/ PassRateLimit(t)
      PROVE  TypeOK'
  BY <1>5 DEF Postpone, PassRateLimit
<1>6. ASSUME NEW t \in Thread, SendRreq(t)
      PROVE  TypeOK'
  <2>1. own[t] \in Series
    BY <1>6 DEF SendRreq, OwnerInv, Sending
  <2>2. \A n \in Nat : NextTtl(n) \in Nat
    BY DEF NextTtl
  <2>3. ASSUME RetriesUsedUp(own[t])
        PROVE  heap' \in [Series -> SeriesRecord]
    BY <1>6, <2>3 DEF SendRreq
  <2>4. ASSUME ~RetriesUsedUp(own[t])
        PROVE  heap' \in [Series -> SeriesRecord]
    <3> DEFINE r == heap[own[t]]
    <3>1. r \in SeriesRecord
      BY <2>1
    <3>2. r.retries + 1 \in 0..RREQ_RETRIES
      BY <2>4, <3>1 DEF RetriesUsedUp
    <3>3. NextRing(r) \in SeriesRecord
      BY <2>2, <3>1, <3>2 DEF NextRing
    <3>4. heap' = [heap EXCEPT ![own[t]] = NextRing(r)]
      BY <1>6, <2>4 DEF SendRreq
    <3> QED
      BY <2>1, <3>3, <3>4
  <2>5. pc' \in [Thread -> {"idle", "push", "new", "check", "send",
                            "reschedule", "giveup", "delete", "flush"}]
    BY <1>6 DEF SendRreq
  <2> QED
    BY <1>6, <2>3, <2>4, <2>5 DEF SendRreq
<1>7. ASSUME NEW t \in Thread, Reschedule(t)
      PROVE  TypeOK'
  <2>1. own[t] \in Series
    BY <1>7 DEF Reschedule, OwnerInv, Sending
  <2> QED
    BY <1>7, <2>1 DEF Reschedule
<1>8. ASSUME NEW t \in Thread, FreeStopped(t)
      PROVE  TypeOK'
  <2>1. Freed \in SeriesRecord
    BY DEF Freed
  <2>2. heap' \in [Series -> SeriesRecord]
    BY <1>8, <2>1 DEF FreeStopped
  <2> QED
    BY <1>8, <2>2 DEF FreeStopped
<1>9. ASSUME NEW s \in Series, DeleteSeriesUnlocked(s)
      PROVE  /\ heap' \in [Series -> SeriesRecord]
             /\ series_list' \in SUBSET Series
             /\ schedule' \in [Dest -> Series \cup {NoSeries}]
  <2>1. Freed \in SeriesRecord
    BY DEF Freed
  <2>2. [heap EXCEPT ![s].stop = TRUE] \in [Series -> SeriesRecord]
    OBVIOUS
  <2> QED
    BY <1>9, <2>1, <2>2 DEF DeleteSeriesUnlocked
<1>10. ASSUME NEW t \in Thread, GiveUp(t)
       PROVE  TypeOK'
  <2>1. own[t] \in Series /\ heap[own[t]].key \in Dest
    BY <1>10 DEF GiveUp, OwnerInv, ListInv, Sending
  <2> QED
    BY <1>9, <1>10, <2>1 DEF GiveUp
<1>11. ASSUME NEW t \in Thread, NEW d \in Dest, LearnRoute(t, d)
       PROVE  TypeOK'
  BY <1>11 DEF LearnRoute
<1>12. ASSUME NEW t \in Thread, DeleteSeriesEther(t)
       PROVE  TypeOK'
  BY <1>9, <1>12 DEF DeleteSeriesEther
<1>13. ASSUME NEW t \in Thread, FlushPacket(t)
       PROVE  TypeOK'
  <2>1. dst[t] \in Dest
    BY <1>13 DEF FlushPacket, DstInv
  <2>2. packets' \in [Dest -> 0..MaxPackets]
    BY <1>13, <2>1 DEF FlushPacket
  <2> QED
    BY <1>13, <2>2 DEF FlushPacket, threadVars
<1>14. ASSUME NEW t \in Thread, FlushDone(t)
       PROVE  TypeOK'
  BY <1>14 DEF FlushDone
<1>15. ASSUME NEW t \in Thread, NEW d \in Dest, PopSchedule(t, d)
       PROVE  TypeOK'
  BY <1>15 DEF PopSchedule
<1>16. CASE Environment
  <2>1. CASE ForgetRreq
    BY <2>1 DEF ForgetRreq, threadVars
  <2>2. ASSUME NEW d \in Dest, PurgePackets(d) \/ LoseRoute(d)
        PROVE  TypeOK'
    BY <2>2 DEF PurgePackets, LoseRoute, threadVars
  <2> QED
    BY <1>16, <2>1, <2>2 DEF Environment
<1>17. CASE UNCHANGED vars
  BY <1>17 DEF vars, threadVars
<1> QED
  BY <1>1, <1>2, <1>3, <1>4, <1>5, <1>6, <1>7, <1>8, <1>10, <1>11, <1>12,
     <1>13, <1>14, <1>15, <1>16, <1>17
  DEF Next, SysStep, MeshStep, TimerStep, SendRreqReal, Thread

Ownership ==
    /\ OwnerInv /\ DstInv /\ ListInv
    /\ SingleOwner /\ ScheduleIsRunning /\ OneSeriesPerDest

\* Ownership is preserved by every step.
LEMMA NextOwnership == IInv /\ TypeOK' /\ [Next]_vars => Ownership'
<1> SUFFICES ASSUME IInv, TypeOK', [Next]_vars PROVE Ownership'
  OBVIOUS
<1> USE AddressAssumption
<1> USE DEF IInv, Ownership, TypeOK, SeriesRecord, Goto, Return, Sending
<1>1. ASSUME NEW t \in Thread, NEW d \in Dest, LookupMiss(t, d)
      PROVE  Ownership'
  BY <1>1
  DEF LookupMiss, OwnerInv, DstInv, ListInv, SingleOwner,
      ScheduleIsRunning, OneSeriesPerDest
<1>2. ASSUME NEW t \in Thread, PushPacket(t)
      PROVE  Ownership'
  BY <1>2
  DEF PushPacket, OwnerInv, DstInv, ListInv, SingleOwner,
      ScheduleIsRunning, OneSeriesPerDest
<1>3. ASSUME NEW t \in Thread, JoinSeries(t)
      PROVE  Ownership'
  BY <1>3
  DEF JoinSeries, OwnerInv, DstInv, ListInv, SingleOwner,
      ScheduleIsRunning, OneSeriesPerDest
<1>4. ASSUME NEW t \in Thread, NEW s \in Series, NewSeries(t, s)
      PROVE  Ownership'
  <2>1. OwnerInv'
    BY <1>4 DEF NewSeries, OwnerInv, DstInv, ListInv, SingleOwner, ScheduleIsRunning, OneSeriesPerDest
  <2>2. DstInv'
    BY <1>4 DEF NewSeries, OwnerInv, DstInv, ListInv, SingleOwner, ScheduleIsRunning, OneSeriesPerDest
  <2>3. ListInv'
    BY <1>4 DEF NewSeries, OwnerInv, DstInv, ListInv, SingleOwner, ScheduleIsRunning, OneSeriesPerDest
  <2>4. SingleOwner'
    BY <1>4 DEF NewSeries, OwnerInv, DstInv, ListInv, SingleOwner, ScheduleIsRunning, OneSeriesPerDest
  <2>5. ScheduleIsRunning'
    BY <1>4 DEF NewSeries, OwnerInv, DstInv, ListInv, SingleOwner, ScheduleIsRunning, OneSeriesPerDest
  <2>6. OneSeriesPerDest'
    BY <1>4 DEF NewSeries, OwnerInv, DstInv, ListInv, SingleOwner, ScheduleIsRunning, OneSeriesPerDest
  <2> QED
    BY <2>1, <2>2, <2>3, <2>4, <2>5, <2>6
<1>5. ASSUME NEW t \in Thread, Postpone(t) \/ PassRateLimit(t)
      PROVE  Ownership'
  BY <1>5
  DEF Postpone, PassRateLimit, OwnerInv, DstInv, ListInv, SingleOwner,
      ScheduleIsRunning, OneSeriesPerDest
<1>6. ASSUME NEW t \in Thread, SendRreq(t)
      PROVE  Ownership'
  <2>1. own[t] \in Series
    BY <1>6 DEF SendRreq, OwnerInv
  <2>2. \A s \in Series : /\ heap'[s].live = heap[s].live
                          /\ heap'[s].stop = heap[s].stop
                          /\ heap'[s].key = heap[s].key
    <3>1. CASE heap' = heap
      BY <3>1
    <3>2. CASE heap' = [heap EXCEPT ![own[t]] = NextRing(heap[own[t]])]
      BY <2>1, <3>2 DEF NextRing
    <3> QED
      BY <1>6, <3>1, <3>2 DEF SendRreq
  <2>3. OwnerInv'
    BY <1>6, <2>1, <2>2 DEF SendRreq, OwnerInv, DstInv, ListInv, SingleOwner, ScheduleIsRunning, OneSeriesPerDest
  <2>4. DstInv'
    BY <1>6, <2>1, <2>2 DEF SendRreq, OwnerInv, DstInv, ListInv, SingleOwner, ScheduleIsRunning, OneSeriesPerDest
  <2>5. ListInv'
    BY <1>6, <2>1, <2>2 DEF SendRreq, OwnerInv, DstInv, ListInv, SingleOwner, ScheduleIsRunning, OneSeriesPerDest
  <2>6. SingleOwner'
    BY <1>6, <2>1, <2>2 DEF SendRreq, OwnerInv, DstInv, ListInv, SingleOwner, ScheduleIsRunning, OneSeriesPerDest
  <2>7. ScheduleIsRunning'
    BY <1>6, <2>1, <2>2 DEF SendRreq, OwnerInv, DstInv, ListInv, SingleOwner, ScheduleIsRunning, OneSeriesPerDest
  <2>8. OneSeriesPerDest'
    BY <1>6, <2>1, <2>2 DEF SendRreq, OwnerInv, DstInv, ListInv, SingleOwner, ScheduleIsRunning, OneSeriesPerDest
  <2> QED
    BY <2>3, <2>4, <2>5, <2>6, <2>7, <2>8
<1>7. ASSUME NEW t \in Thread, Reschedule(t)
      PROVE  Ownership'
  <2>1. OwnerInv'
    BY <1>7 DEF Reschedule, OwnerInv, DstInv, ListInv, SingleOwner, ScheduleIsRunning, OneSeriesPerDest
  <2>2. DstInv'
    BY <1>7 DEF Reschedule, OwnerInv, DstInv, ListInv, SingleOwner, ScheduleIsRunning, OneSeriesPerDest
  <2>3. ListInv'
    BY <1>7 DEF Reschedule, OwnerInv, DstInv, ListInv, SingleOwner, ScheduleIsRunning, OneSeriesPerDest
  <2>4. SingleOwner'
    BY <1>7 DEF Reschedule, OwnerInv, DstInv, ListInv, SingleOwner, ScheduleIsRunning, OneSeriesPerDest
  <2>5. ScheduleIsRunning'
    BY <1>7 DEF Reschedule, OwnerInv, DstInv, ListInv, SingleOwner, ScheduleIsRunning, OneSeriesPerDest
  <2>6. OneSeriesPerDest'
    BY <1>7 DEF Reschedule, OwnerInv, DstInv, ListInv, SingleOwner, ScheduleIsRunning, OneSeriesPerDest
  <2> QED
    BY <2>1, <2>2, <2>3, <2>4, <2>5, <2>6
<1>8. ASSUME NEW t \in Thread, FreeStopped(t)
      PROVE  Ownership'
  <2>1. OwnerInv'
    BY <1>8 DEF FreeStopped, Freed, OwnerInv, DstInv, ListInv, SingleOwner, ScheduleIsRunning, OneSeriesPerDest
  <2>2. DstInv'
    BY <1>8 DEF FreeStopped, Freed, OwnerInv, DstInv, ListInv, SingleOwner, ScheduleIsRunning, OneSeriesPerDest
  <2>3. ListInv'
    BY <1>8 DEF FreeStopped, Freed, OwnerInv, DstInv, ListInv, SingleOwner, ScheduleIsRunning, OneSeriesPerDest
  <2>4. SingleOwner'
    BY <1>8 DEF FreeStopped, Freed, OwnerInv, DstInv, ListInv, SingleOwner, ScheduleIsRunning, OneSeriesPerDest
  <2>5. ScheduleIsRunning'
    BY <1>8 DEF FreeStopped, Freed, OwnerInv, DstInv, ListInv, SingleOwner, ScheduleIsRunning, OneSeriesPerDest
  <2>6. OneSeriesPerDest'
    BY <1>8 DEF FreeStopped, Freed, OwnerInv, DstInv, ListInv, SingleOwner, ScheduleIsRunning, OneSeriesPerDest
  <2> QED
    BY <2>1, <2>2, <2>3, <2>4, <2>5, <2>6
<1>9. ASSUME NEW t \in Thread, GiveUp(t)
      PROVE  Ownership'
  <2>1. OwnerInv'
    BY <1>9 DEF GiveUp, DeleteSeriesUnlocked, OwnerInv, DstInv, ListInv, SingleOwner, ScheduleIsRunning, OneSeriesPerDest
  <2>2. DstInv'
    BY <1>9 DEF GiveUp, DeleteSeriesUnlocked, OwnerInv, DstInv, ListInv, SingleOwner, ScheduleIsRunning, OneSeriesPerDest
  <2>3. ListInv'
    BY <1>9 DEF GiveUp, DeleteSeriesUnlocked, OwnerInv, DstInv, ListInv, SingleOwner, ScheduleIsRunning, OneSeriesPerDest
  <2>4. SingleOwner'
    BY <1>9 DEF GiveUp, DeleteSeriesUnlocked, OwnerInv, DstInv, ListInv, SingleOwner, ScheduleIsRunning, OneSeriesPerDest
  <2>5. ScheduleIsRunning'
    BY <1>9 DEF GiveUp, DeleteSeriesUnlocked, OwnerInv, DstInv, ListInv, SingleOwner, ScheduleIsRunning, OneSeriesPerDest
  <2>6. OneSeriesPerDest'
    BY <1>9 DEF GiveUp, DeleteSeriesUnlocked, OwnerInv, DstInv, ListInv, SingleOwner, ScheduleIsRunning, OneSeriesPerDest
  <2> QED
    BY <2>1, <2>2, <2>3, <2>4, <2>5, <2>6
<1>10. ASSUME NEW t \in Thread, NEW d \in Dest, LearnRoute(t, d)
      PROVE  Ownership'
  BY <1>10
  DEF LearnRoute, OwnerInv, DstInv, ListInv, SingleOwner,
      ScheduleIsRunning, OneSeriesPerDest
<1>11. ASSUME NEW t \in Thread, DeleteSeriesEther(t)
      PROVE  Ownership'
  <2>1. OwnerInv'
    BY <1>11 DEF DeleteSeriesEther, DeleteSeriesUnlocked, Freed, OwnerInv, DstInv, ListInv, SingleOwner, ScheduleIsRunning, OneSeriesPerDest
  <2>2. DstInv'
    BY <1>11 DEF DeleteSeriesEther, DeleteSeriesUnlocked, Freed, OwnerInv, DstInv, ListInv, SingleOwner, ScheduleIsRunning, OneSeriesPerDest
  <2>3. ListInv'
    BY <1>11 DEF DeleteSeriesEther, DeleteSeriesUnlocked, Freed, OwnerInv, DstInv, ListInv, SingleOwner, ScheduleIsRunning, OneSeriesPerDest
  <2>4. SingleOwner'
    BY <1>11 DEF DeleteSeriesEther, DeleteSeriesUnlocked, Freed, OwnerInv, DstInv, ListInv, SingleOwner, ScheduleIsRunning, OneSeriesPerDest
  <2>5. ScheduleIsRunning'
    BY <1>11 DEF DeleteSeriesEther, DeleteSeriesUnlocked, Freed, OwnerInv, DstInv, ListInv, SingleOwner, ScheduleIsRunning, OneSeriesPerDest
  <2>6. OneSeriesPerDest'
    BY <1>11 DEF DeleteSeriesEther, DeleteSeriesUnlocked, Freed, OwnerInv, DstInv, ListInv, SingleOwner, ScheduleIsRunning, OneSeriesPerDest
  <2> QED
    BY <2>1, <2>2, <2>3, <2>4, <2>5, <2>6
<1>12. ASSUME NEW t \in Thread, FlushPacket(t)
      PROVE  Ownership'
  BY <1>12
  DEF FlushPacket, threadVars, OwnerInv, DstInv, ListInv, SingleOwner,
      ScheduleIsRunning, OneSeriesPerDest
<1>13. ASSUME NEW t \in Thread, FlushDone(t)
      PROVE  Ownership'
  BY <1>13
  DEF FlushDone, OwnerInv, DstInv, ListInv, SingleOwner,
      ScheduleIsRunning, OneSeriesPerDest
<1>14. ASSUME NEW t \in Thread, NEW d \in Dest, PopSchedule(t, d)
      PROVE  Ownership'
  <2>1. OwnerInv'
    BY <1>14 DEF PopSchedule, OwnerInv, DstInv, ListInv, SingleOwner, ScheduleIsRunning, OneSeriesPerDest
  <2>2. DstInv'
    BY <1>14 DEF PopSchedule, OwnerInv, DstInv, ListInv, SingleOwner, ScheduleIsRunning, OneSeriesPerDest
  <2>3. ListInv'
    BY <1>14 DEF PopSchedule, OwnerInv, DstInv, ListInv, SingleOwner, ScheduleIsRunning, OneSeriesPerDest
  <2>4. SingleOwner'
    BY <1>14 DEF PopSchedule, OwnerInv, DstInv, ListInv, SingleOwner, ScheduleIsRunning, OneSeriesPerDest
  <2>5. ScheduleIsRunning'
    BY <1>14 DEF PopSchedule, OwnerInv, DstInv, ListInv, SingleOwner, ScheduleIsRunning, OneSeriesPerDest
  <2>6. OneSeriesPerDest'
    BY <1>14 DEF PopSchedule, OwnerInv, DstInv, ListInv, SingleOwner, ScheduleIsRunning, OneSeriesPerDest
  <2> QED
    BY <2>1, <2>2, <2>3, <2>4, <2>5, <2>6
<1>15. CASE Environment
  BY <1>15 DEF Environment, ForgetRreq, PurgePackets, LoseRoute, threadVars, OwnerInv, DstInv, ListInv, SingleOwner, ScheduleIsRunning, OneSeriesPerDest
<1>16. CASE UNCHANGED vars
  BY <1>16 DEF vars, threadVars, OwnerInv, DstInv, ListInv, SingleOwner, ScheduleIsRunning, OneSeriesPerDest
<1> QED
  BY <1>1, <1>2, <1>3, <1>4, <1>5, <1>6, <1>7, <1>8, <1>9, <1>10, <1>11, <1>12, <1>13, <1>14, <1>15, <1>16
  DEF Next, SysStep, MeshStep, TimerStep, SendRreqReal, Thread

\* The strengthening holds in every reachable state.
THEOREM Invariance == Spec => []IInv
<1>1. IInv /\ [Next]_vars => IInv'
  BY NextTypeOK, NextOwnership DEF IInv, Ownership
<1> QED
  BY InitIInv, <1>1, PTL DEF Spec

\* Every variable keeps its type.
THEOREM TypeCorrect == Spec => []TypeOK
<1>1. IInv => TypeOK
  BY DEF IInv
<1> QED
  BY Invariance, <1>1, PTL

\* No thread, schedule or list link refers to a freed series.
THEOREM NeverUseAfterFree == Spec => []NoUseAfterFree
<1>1. IInv => NoUseAfterFree
  BY AddressAssumption
  DEF IInv, TypeOK, OwnerInv, ListInv, ScheduleIsRunning, NoUseAfterFree
<1> QED
  BY Invariance, <1>1, PTL

\* A series has at most one owner.
THEOREM AlwaysSingleOwner == Spec => []SingleOwner
<1>1. IInv => SingleOwner
  BY DEF IInv
<1> QED
  BY Invariance, <1>1, PTL

\* The schedule table only holds running series, under their destination.
THEOREM ScheduleSound == Spec => []ScheduleIsRunning
<1>1. IInv => ScheduleIsRunning
  BY DEF IInv
<1> QED
  BY Invariance, <1>1, PTL

\* However many threads ask for a route, one series searches for it.
THEOREM NeverTwoSeries == Spec => []OneSeriesPerDest
<1>1. IInv => OneSeriesPerDest
  BY DEF IInv
<1> QED
  BY Invariance, <1>1, PTL

\* A series is rescheduled into an empty slot: a scheduled series of the same
\* destination would be the rescheduled one itself, which its thread owns.
THEOREM NeverLoseSchedule == Spec => []NoScheduleLost
<1>1. IInv => NoScheduleLost
  <2> SUFFICES ASSUME IInv, NEW t \in Thread, pc[t] = "reschedule",
                      ~heap[own[t]].stop,
                      schedule[heap[own[t]].key] # NoSeries
               PROVE  FALSE
    BY DEF NoScheduleLost
  <2> DEFINE d == heap[own[t]].key
  <2>1. /\ own[t] \in Series /\ own[t] # NoSeries
        /\ own[t] \in series_list /\ d \in Dest
    BY AddressAssumption DEF IInv, TypeOK, OwnerInv, ListInv, Sending
  <2>2. schedule[d] \in series_list /\ heap[schedule[d]].key = d
    BY <2>1 DEF IInv, ScheduleIsRunning
  <2>3. schedule[d] = own[t]
    BY <2>1, <2>2 DEF IInv, OneSeriesPerDest
  <2> QED
    BY <2>1, <2>3 DEF IInv, SingleOwner
<1> QED
  BY Invariance, <1>1, PTL

-----------------------------------------------------------------------------
(* The rate limit: a thread that has passed the check but not yet logged   *)
(* its RREQ counts as one logged RREQ.                                     *)

Senders == {t \in Thread : pc[t] = "send"}

RateInv ==
    rreq_count + Cardinality(Senders) <= RREQ_RATELIMIT + Cardinality(Thread)

\* Senders is a finite set of at most as many elements as there are threads.
LEMMA SendersFinite ==
    /\ IsFiniteSet(Senders)
    /\ Cardinality(Senders) \in Nat
    /\ Cardinality(Thread) \in Nat
    /\ Cardinality(Senders) <= Cardinality(Thread)
  BY ThreadAssumption, FS_Subset, FS_CardinalityType DEF Senders

\* Passing the check adds a sender while the log has room for it.
LEMMA PassKeepsRate ==
  ASSUME TypeOK, TypeOK', NEW t \in Thread, PassRateLimit(t), RateInv
  PROVE  RateInv'
<1>1. Cardinality(Senders') \in Nat /\ Cardinality(Senders') <= Cardinality(Thread)
  BY SendersFinite, ThreadAssumption, FS_Subset, FS_CardinalityType DEF Senders
<1> QED
  BY <1>1, SendersFinite, ConfigAssumption
  DEF RateInv, TypeOK, PassRateLimit

\* Sending removes a sender and adds a logged RREQ.
LEMMA SendKeepsRate ==
  ASSUME TypeOK, TypeOK', NEW t \in Thread, SendRreq(t), RateInv
  PROVE  RateInv'
<1>1. t \in Senders /\ Senders' = Senders \ {t}
  BY DEF Senders, SendRreq, TypeOK, Goto
<1>2. Cardinality(Senders') = Cardinality(Senders) - 1
  BY <1>1, SendersFinite, FS_RemoveElement
<1>3. rreq_count' = rreq_count + 1
  BY DEF SendRreq
<1> QED
  BY <1>2, <1>3, SendersFinite, ConfigAssumption DEF RateInv, TypeOK

\* Every other step leaves the senders alone and logs nothing.
LEMMA OtherKeepsRate ==
  ASSUME TypeOK, TypeOK', Senders' = Senders,
         rreq_count' = rreq_count \/ rreq_count' = rreq_count - 1, RateInv
  PROVE  RateInv'
  BY SendersFinite, ConfigAssumption DEF RateInv, TypeOK

\* The overshoot of the rate limit is bounded by the number of threads.
THEOREM RateBounded == Spec => []RateLimitSlack
<1>1. Init => RateInv
  <2> SUFFICES ASSUME Init PROVE RateInv
    OBVIOUS
  <2>1. rreq_count = 0
    BY DEF Init
  <2> QED
    BY <2>1, SendersFinite, ConfigAssumption DEF RateInv
<1>2. TypeOK /\ TypeOK' /\ RateInv /\ [Next]_vars => RateInv'
  <2> SUFFICES ASSUME TypeOK, TypeOK', RateInv, [Next]_vars PROVE RateInv'
    OBVIOUS
  <2> USE DEF TypeOK, Senders, Goto, Return
  <2>1. ASSUME NEW t \in Thread, SendRreqReal(t)
        PROVE  RateInv'
    <3>1. CASE Postpone(t) \/ Reschedule(t) \/ FreeStopped(t) \/ GiveUp(t)
      BY <3>1, OtherKeepsRate DEF Postpone, Reschedule, FreeStopped, GiveUp
    <3> QED
      BY <2>1, <3>1, PassKeepsRate, SendKeepsRate DEF SendRreqReal
  <2>2. ASSUME NEW t \in SysThread, SysStep(t)
        PROVE  RateInv'
    <3>1. CASE \E d \in Dest : LookupMiss(t, d)
      BY <3>1, OtherKeepsRate DEF LookupMiss
    <3>2. CASE PushPacket(t) \/ JoinSeries(t)
      BY <3>2, OtherKeepsRate DEF PushPacket, JoinSeries
    <3>3. CASE \E s \in Series : NewSeries(t, s)
      BY <3>3, OtherKeepsRate DEF NewSeries
    <3> QED
      BY <2>1, <2>2, <3>1, <3>2, <3>3 DEF SysStep, Thread
  <2>3. ASSUME NEW t \in MeshThread, MeshStep(t)
        PROVE  RateInv'
    BY <2>3, OtherKeepsRate
    DEF MeshStep, LearnRoute, DeleteSeriesEther, FlushPacket, FlushDone, threadVars
  <2>4. ASSUME NEW t \in TimerThread, TimerStep(t)
        PROVE  RateInv'
    <3>1. CASE \E d \in Dest : PopSchedule(t, d)
      BY <3>1, OtherKeepsRate DEF PopSchedule
    <3> QED
      BY <2>1, <2>4, <3>1 DEF TimerStep, Thread
  <2>5. CASE Environment \/ UNCHANGED vars
    BY <2>5, OtherKeepsRate
    DEF Environment, ForgetRreq, PurgePackets, LoseRoute, vars, threadVars
  <2> QED
    BY <2>2, <2>3, <2>4, <2>5 DEF Next
<1>3. TypeOK /\ RateInv => RateLimitSlack
  BY SendersFinite, ConfigAssumption DEF RateInv, RateLimitSlack, TypeOK
<1> QED
  BY TypeCorrect, <1>1, <1>2, <1>3, PTL DEF Spec

-----------------------------------------------------------------------------
(* Only a series that used up its retries loses its owner.                 *)

GiveUpInv ==
    \A t \in Thread : pc[t] = "giveup" => heap[own[t]].retries = RREQ_RETRIES

OrphanInv == GiveUpInv /\ OrphansGaveUp

\* A series that may not try again has used exactly RREQ_RETRIES retries.
LEMMA UsedUpRetries ==
  ASSUME TypeOK, NEW s \in Series, RetriesUsedUp(s)
  PROVE  heap[s].retries = RREQ_RETRIES
<1>1. heap[s].retries \in 0..RREQ_RETRIES
  BY DEF TypeOK, SeriesRecord
<1>2. heap[s].retries >= RREQ_RETRIES
  BY DEF RetriesUsedUp
<1> QED
  BY <1>1, <1>2, ConfigAssumption

\* Every series without an owner has used up its retries.
THEOREM OnlyGivenUpOrphans == Spec => []OrphansGaveUp
<1>1. Init => OrphanInv
  BY DEF Init, OrphanInv, GiveUpInv, OrphansGaveUp, Freed
<1>2. IInv /\ IInv' /\ OrphanInv /\ [Next]_vars => OrphanInv'
  <2> SUFFICES ASSUME IInv, IInv', OrphanInv, [Next]_vars PROVE OrphanInv'
    OBVIOUS
  <2> USE AddressAssumption, ConfigAssumption
  <2> USE DEF IInv, TypeOK, SeriesRecord, OrphanInv, GiveUpInv, OrphansGaveUp,
              Owned, Goto, Return, Sending
  <2>1. ASSUME NEW t \in Thread, SendRreqReal(t)
        PROVE  OrphanInv'
    <3>1. CASE Postpone(t) \/ PassRateLimit(t)
      BY <3>1 DEF Postpone, PassRateLimit
    <3>2. CASE SendRreq(t)
      <4>1. /\ own[t] \in Series /\ own' = own /\ schedule' = schedule
            /\ \A u \in Thread : u # t => pc'[u] = pc[u]
        BY <3>2 DEF SendRreq, OwnerInv
      <4>2. \A s \in Series : s # own[t] => heap'[s] = heap[s]
        BY <3>2, <4>1 DEF SendRreq
      <4>3. OrphansGaveUp'
        BY <4>1, <4>2
      <4>4. ASSUME NEW u \in Thread, pc'[u] = "giveup"
            PROVE  heap'[own[u]].retries = RREQ_RETRIES
        <5>1. CASE u = t
          <6>1. CASE Goto(t, "giveup") /\ RetriesUsedUp(own[t]) /\ heap' = heap
            BY <4>1, <5>1, <6>1, UsedUpRetries
          <6>2. CASE Goto(t, "reschedule")
            BY <4>4, <5>1, <6>2
          <6> QED
            BY <3>2, <6>1, <6>2 DEF SendRreq
        <5>2. CASE u # t
          <6>1. own[u] \in Series /\ own[u] # own[t]
            BY <4>1, <4>4, <5>2 DEF OwnerInv, SingleOwner
          <6> QED
            BY <4>1, <4>2, <4>4, <5>2, <6>1
        <5> QED
          BY <5>1, <5>2
      <4> QED
        BY <4>1, <4>3, <4>4
    <3>3. CASE Reschedule(t)
      <4>1. own[t] \in Series /\ heap[own[t]].key \in Dest
        BY <3>3 DEF Reschedule, OwnerInv, ListInv
      <4>2. schedule[heap[own[t]].key] = NoSeries
        BY <3>3, <4>1 DEF Reschedule, OwnerInv, ListInv, SingleOwner,
                         ScheduleIsRunning, OneSeriesPerDest
      <4>3. \A s \in Series : Owned(s) => Owned(s)'
        BY <3>3, <4>1, <4>2 DEF Reschedule
      <4> QED
        BY <3>3, <4>3 DEF Reschedule
    <3>4. CASE FreeStopped(t)
      BY <3>4 DEF FreeStopped, Freed, OwnerInv, SingleOwner
    <3>5. CASE GiveUp(t)
      BY <3>5 DEF GiveUp, DeleteSeriesUnlocked, Freed, OwnerInv, ListInv,
                  SingleOwner, ScheduleIsRunning, OneSeriesPerDest
    <3> QED
      BY <2>1, <3>1, <3>2, <3>3, <3>4, <3>5 DEF SendRreqReal
  <2>2. ASSUME NEW t \in SysThread, SysStep(t)
        PROVE  OrphanInv'
    <3> USE DEF Thread
    <3>1. CASE \E d \in Dest : LookupMiss(t, d)
      BY <3>1 DEF LookupMiss
    <3>2. CASE PushPacket(t) \/ JoinSeries(t)
      BY <3>2 DEF PushPacket, JoinSeries, OwnerInv
    <3>3. CASE \E s \in Series : NewSeries(t, s)
      BY <3>3 DEF NewSeries, OwnerInv
    <3> QED
      BY <2>1, <2>2, <3>1, <3>2, <3>3 DEF SysStep
  <2>3. ASSUME NEW t \in MeshThread, MeshStep(t)
        PROVE  OrphanInv'
    <3> USE DEF Thread
    <3>1. CASE DeleteSeriesEther(t)
      BY <2>3, <3>1
      DEF DeleteSeriesEther, DeleteSeriesUnlocked, Freed, OwnerInv, ListInv,
          SingleOwner, ScheduleIsRunning, OneSeriesPerDest
    <3> QED
      BY <2>3, <3>1
      DEF MeshStep, LearnRoute, FlushPacket, FlushDone, threadVars, OwnerInv
  <2>4. ASSUME NEW t \in TimerThread, TimerStep(t)
        PROVE  OrphanInv'
    <3> USE DEF Thread
    <3>1. CASE \E d \in Dest : PopSchedule(t, d)
      BY <3>1 DEF PopSchedule, OwnerInv
    <3> QED
      BY <2>1, <2>4, <3>1 DEF TimerStep
  <2>5. CASE Environment \/ UNCHANGED vars
    BY <2>5
    DEF Environment, ForgetRreq, PurgePackets, LoseRoute, vars, threadVars
  <2> QED
    BY <2>2, <2>3, <2>4, <2>5 DEF Next
<1>3. OrphanInv => OrphansGaveUp
  BY DEF OrphanInv
<1> QED
  BY Invariance, <1>1, <1>2, <1>3, PTL DEF Spec

-----------------------------------------------------------------------------
(* A buffered packet keeps a discovery, or a thread that will flush it.    *)

\* No packet waits forgotten while its destination has not been given up.
THEOREM NeverForgetPackets == Spec => []BufferedHasDiscovery
<1>1. Init => BufferedHasDiscovery
  BY DEF Init, BufferedHasDiscovery
<1>2. IInv /\ BufferedHasDiscovery /\ [Next]_vars => BufferedHasDiscovery'
  <2> SUFFICES ASSUME IInv, BufferedHasDiscovery, [Next]_vars
               PROVE  BufferedHasDiscovery'
    OBVIOUS
  <2> USE DEF IInv, TypeOK, SeriesRecord, BufferedHasDiscovery, Goto, Return
  <2>1. ASSUME NEW t \in Thread, SendRreqReal(t)
        PROVE  BufferedHasDiscovery'
    <3>1. CASE Postpone(t) \/ PassRateLimit(t)
      BY <3>1 DEF Postpone, PassRateLimit
    <3>2. CASE SendRreq(t)
      <4>1. own[t] \in Series
        BY <3>2 DEF SendRreq, OwnerInv, Sending
      <4>2. \A s \in Series : heap'[s].key = heap[s].key
        <5>1. CASE heap' = heap
          BY <5>1
        <5>2. CASE heap' = [heap EXCEPT ![own[t]] = NextRing(heap[own[t]])]
          BY <4>1, <5>2 DEF NextRing
        <5> QED
          BY <3>2, <5>1, <5>2 DEF SendRreq
      <4> QED
        BY <3>2, <4>1, <4>2 DEF SendRreq
    <3>3. CASE Reschedule(t)
      BY <3>3 DEF Reschedule
    <3>4. CASE FreeStopped(t)
      <4>1. own[t] \in Series /\ own[t] \notin series_list
        BY <3>4 DEF FreeStopped, OwnerInv, ListInv, Sending
      <4> QED
        BY <3>4, <4>1 DEF FreeStopped
    <3>5. CASE GiveUp(t)
      <4>1. own[t] \in Series
        BY <3>5 DEF GiveUp, OwnerInv, Sending
      <4> QED
        BY <3>5, <4>1 DEF GiveUp, DeleteSeriesUnlocked
    <3> QED
      BY <2>1, <3>1, <3>2, <3>3, <3>4, <3>5 DEF SendRreqReal
  <2>2. ASSUME NEW t \in SysThread, SysStep(t)
        PROVE  BufferedHasDiscovery'
    <3> USE DEF Thread
    <3>1. CASE \E d \in Dest : LookupMiss(t, d)
      BY <3>1 DEF LookupMiss
    <3>2. CASE PushPacket(t)
      BY <3>2 DEF PushPacket
    <3>3. CASE JoinSeries(t)
      BY <3>3 DEF JoinSeries
    <3>4. CASE \E s \in Series : NewSeries(t, s)
      BY <3>4 DEF NewSeries, ListInv
    <3> QED
      BY <2>1, <2>2, <3>1, <3>2, <3>3, <3>4 DEF SysStep
  <2>3. ASSUME NEW t \in MeshThread, MeshStep(t)
        PROVE  BufferedHasDiscovery'
    <3> USE DEF Thread
    <3>1. CASE \E d \in Dest : LearnRoute(t, d)
      BY <3>1 DEF LearnRoute
    <3>2. CASE DeleteSeriesEther(t)
      BY <3>2 DEF DeleteSeriesEther, DeleteSeriesUnlocked, DstInv
    <3>3. CASE FlushPacket(t)
      BY <3>3 DEF FlushPacket, threadVars
    <3>4. CASE FlushDone(t)
      BY <3>4 DEF FlushDone
    <3> QED
      BY <2>3, <3>1, <3>2, <3>3, <3>4 DEF MeshStep
  <2>4. ASSUME NEW t \in TimerThread, TimerStep(t)
        PROVE  BufferedHasDiscovery'
    <3> USE DEF Thread
    <3>1. CASE \E d \in Dest : PopSchedule(t, d)
      BY <3>1 DEF PopSchedule
    <3> QED
      BY <2>1, <2>4, <3>1 DEF TimerStep
  <2>5. CASE Environment \/ UNCHANGED vars
    BY <2>5
    DEF Environment, ForgetRreq, PurgePackets, LoseRoute, vars, threadVars
  <2> QED
    BY <2>2, <2>3, <2>4, <2>5 DEF Next
<1> QED
  BY Invariance, <1>1, <1>2, PTL DEF Spec
-----------------------------------------------------------------------------
(* The timeslot. *)

\* Every set of numbers has a least one: how the inductions below are done.
LEMMA LeastNat ==
    ASSUME NEW T, T \subseteq Nat, T # {}
    PROVE  \E x \in T : \A y \in T : x <= y
<1> DEFINE R == {ss \in Nat \X Nat : ss[1] < ss[2]}
<1>1. IsWellFoundedOn(R, Nat)
    BY NatLessThanWellFounded DEF OpToRel
<1>2. \E x \in T : \A y \in T : <<y, x>> \notin R
    <2> HIDE DEF R
    <2> QED
        BY <1>1, WFMin
<1>3. PICK x \in T : \A y \in T : <<y, x>> \notin R
    BY <1>2
<1>4. ASSUME NEW y \in T PROVE x <= y
    <2>1. <<y, x>> \notin R /\ x \in Nat /\ y \in Nat
        BY <1>3
    <2> QED
        BY <2>1
<1> QED
    BY <1>4

-----------------------------------------------------------------------------

(* The list.  It is one when a rank, from the tail to the head, orders its *)
(* elements the way the links do.                                          *)

Rank == [Object -> Nat]

First(H, r, x) == x \in H /\ \A z \in H : r[x] <= r[z]

Last(H, r, x) == x \in H /\ \A z \in H : r[z] <= r[x]

Successor(H, r, x, y) ==
    /\ x \in H /\ y \in H /\ r[x] < r[y]
    /\ \A z \in H : r[z] <= r[x] \/ r[y] <= r[z]

Typed(S) ==
    S \in [el : [Object -> [prev : Pointer, next : Pointer, purge_time : Nat]],
           head : Pointer, tail : Pointer, size : Nat, hash : SUBSET Object]

Ranked(S, r) ==
    /\ \A x, y \in S.hash : r[x] = r[y] => x = y
    /\ \A x \in S.hash :
          \/ S.el[x].next = NULL /\ Last(S.hash, r, x)
          \/ Successor(S.hash, r, x, S.el[x].next)
    /\ \A x \in S.hash :
          \/ S.el[x].prev = NULL /\ First(S.hash, r, x)
          \/ Successor(S.hash, r, S.el[x].prev, x)
    /\ (S.head = NULL /\ S.hash = {}) \/ Last(S.hash, r, S.head)
    /\ (S.tail = NULL /\ S.hash = {}) \/ First(S.hash, r, S.tail)
    /\ \A x, y \in S.hash :
          r[x] <= r[y] => S.el[x].purge_time <= S.el[y].purge_time

IsList(S) ==
    /\ Typed(S)
    /\ S.size = Cardinality(S.hash)
    /\ \A x \in Object \ S.hash : S.el[x] = Free
    /\ \E r \in Rank : Ranked(S, r)

\* The inductive invariant.
TsInv ==
    /\ IsList(ts)
    /\ purged \in SUBSET Object
    /\ now \in 0..MaxTime

-----------------------------------------------------------------------------

\* The order by ranks implies the local conditions on the links.
LEMMA ListLinked ==
    ASSUME IsList(ts) PROVE Linked
<1>1. PICK r \in Rank : Ranked(ts, r)
    BY DEF IsList
<1>2. Typed(ts) /\ NULL \notin Object /\ ts.size = Cardinality(ts.hash)
    BY TimeslotAssumption DEF IsList
<1>3. /\ \A x \in ts.hash : x \in Object /\ x # NULL /\ r[x] \in Nat
      /\ \A x \in ts.hash : ts.el[x].next \in Pointer /\ ts.el[x].prev \in Pointer
    BY <1>2 DEF Typed, Rank
<1>4. /\ ts.head = NULL <=> ts.hash = {}
      /\ ts.tail = NULL <=> ts.hash = {}
    BY <1>1, <1>3 DEF Ranked, First, Last
<1>5. ASSUME NEW x \in ts.hash
      PROVE  /\ ts.el[x].next = NULL <=> x = ts.head
             /\ ts.el[x].prev = NULL <=> x = ts.tail
    <2>1. Last(ts.hash, r, ts.head) /\ First(ts.hash, r, ts.tail)
        BY <1>1, <1>5, <1>4 DEF Ranked
    <2>2. \A a, b \in ts.hash : r[a] <= r[b] /\ r[b] <= r[a] => a = b
        BY <1>1, <1>3 DEF Ranked
    <2>3. \/ (ts.el[x].next = NULL /\ Last(ts.hash, r, x))
          \/ Successor(ts.hash, r, x, ts.el[x].next)
        BY <1>1, <1>5 DEF Ranked
    <2>4. \/ (ts.el[x].prev = NULL /\ First(ts.hash, r, x))
          \/ Successor(ts.hash, r, ts.el[x].prev, x)
        BY <1>1, <1>5 DEF Ranked
    <2>5. ts.el[x].next = NULL <=> x = ts.head
        BY <2>1, <2>2, <2>3, <1>3 DEF Last, Successor
    <2>6. ts.el[x].prev = NULL <=> x = ts.tail
        BY <2>1, <2>2, <2>4, <1>3 DEF First, Successor
    <2> QED
        BY <2>5, <2>6
<1>6. ASSUME NEW x \in ts.hash, ts.el[x].next # NULL
      PROVE  /\ ts.el[x].next \in ts.hash
             /\ ts.el[ts.el[x].next].prev = x
             /\ ts.el[x].purge_time <= ts.el[ts.el[x].next].purge_time
    <2> DEFINE y == ts.el[x].next
    <2>1. Successor(ts.hash, r, x, y)
        BY <1>1, <1>6 DEF Ranked
    <2>2. y \in ts.hash /\ r[x] < r[y]
        BY <2>1 DEF Successor
    <2> HIDE DEF y
    <2>3. (ts.el[y].prev = NULL /\ First(ts.hash, r, y))
          \/ Successor(ts.hash, r, ts.el[y].prev, y)
        BY <1>1, <2>2 DEF Ranked
    <2>4. ts.el[y].prev = x
        BY <1>1, <2>1, <2>2, <2>3, <1>3 DEF Ranked, Successor, First
    <2>5. ts.el[x].purge_time <= ts.el[y].purge_time
        BY <1>1, <1>3, <2>2 DEF Ranked
    <2> QED
        BY <2>2, <2>4, <2>5 DEF y
<1>7. ASSUME NEW x \in ts.hash, ts.el[x].prev # NULL
      PROVE  ts.el[x].prev \in ts.hash /\ ts.el[ts.el[x].prev].next = x
    <2> DEFINE y == ts.el[x].prev
    <2>1. Successor(ts.hash, r, y, x)
        BY <1>1, <1>7 DEF Ranked
    <2>2. y \in ts.hash /\ r[y] < r[x]
        BY <2>1 DEF Successor
    <2> HIDE DEF y
    <2>3. (ts.el[y].next = NULL /\ Last(ts.hash, r, y))
          \/ Successor(ts.hash, r, y, ts.el[y].next)
        BY <1>1, <2>2 DEF Ranked
    <2>4. ts.el[y].next = x
        BY <1>1, <2>1, <2>2, <2>3, <1>3 DEF Ranked, Successor, Last
    <2> QED
        BY <2>2, <2>4 DEF y
<1> QED
    BY <1>2, <1>4, <1>5, <1>6, <1>7 DEF Linked

LEMMA OneLess ==
    ASSUME NEW H, NEW o \in H, H \subseteq Object
    PROVE  /\ Cardinality(H \ {o}) = Cardinality(H) - 1
           /\ Cardinality(H) \in Nat /\ Cardinality(H \ {o}) \in Nat
<1>1. IsFiniteSet(H)
    BY FS_Subset, TimeslotAssumption
<1>2. IsFiniteSet(H \ {o})
    BY <1>1, FS_RemoveElement
<1> QED
    BY <1>1, <1>2, FS_RemoveElement, FS_CardinalityType

LEMMA OneMore ==
    ASSUME NEW H, NEW o \in Object, o \notin H, H \subseteq Object
    PROVE  /\ Cardinality(H \cup {o}) = Cardinality(H) + 1
           /\ Cardinality(H) \in Nat /\ Cardinality(H \cup {o}) \in Nat
<1>1. IsFiniteSet(H)
    BY FS_Subset, TimeslotAssumption
<1>2. IsFiniteSet(H \cup {o})
    BY <1>1, FS_AddElement
<1> QED
    BY <1>1, <1>2, FS_AddElement, FS_CardinalityType
-----------------------------------------------------------------------------

LEMMA ListTyped ==
    ASSUME NEW S, IsList(S)
    PROVE  /\ S.hash \subseteq Object /\ NULL \notin Object
           /\ S.head \in Pointer /\ S.tail \in Pointer /\ S.size \in Nat
           /\ S.size = Cardinality(S.hash)
           /\ \A x \in Object : /\ S.el[x].prev \in Pointer
                                /\ S.el[x].next \in Pointer
                                /\ S.el[x].purge_time \in Nat
                                /\ S.el[x] \in [prev : Pointer, next : Pointer,
                                                purge_time : Nat]
           /\ \A x \in Object \ S.hash : S.el[x] = Free
BY TimeslotAssumption DEF IsList, Typed

\* T is S without o.
Unlinked(S, o, T) ==
    /\ Typed(T)
    /\ T.hash = S.hash \ {o}
    /\ T.size = Cardinality(S.hash \ {o})
    /\ T.el[o] = Free
    /\ \A x \in Object \ {o} :
          /\ T.el[x].next = IF x = S.el[o].prev THEN S.el[o].next
                            ELSE S.el[x].next
          /\ T.el[x].prev = IF x = S.el[o].next THEN S.el[o].prev
                            ELSE S.el[x].prev
          /\ T.el[x].purge_time = S.el[x].purge_time
          /\ x # S.el[o].prev /\ x # S.el[o].next => T.el[x] = S.el[x]
    /\ T.head = IF S.head = o THEN S.el[o].prev ELSE S.head
    /\ T.tail = IF S.tail = o THEN S.el[o].next ELSE S.tail

LEMMA UnlinkFields ==
    ASSUME NEW S, IsList(S), NEW o \in S.hash
    PROVE  Unlinked(S, o, Unlink(S, o))
<1>1. o \in Object /\ S.hash \subseteq Object
    BY ListTyped
<1>2. S.size - 1 = Cardinality(S.hash \ {o}) /\ S.size - 1 \in Nat
    <2>1. S.size = Cardinality(S.hash)
        BY ListTyped
    <2>2. /\ Cardinality(S.hash \ {o}) = Cardinality(S.hash) - 1
          /\ Cardinality(S.hash \ {o}) \in Nat
        BY <1>1, OneLess
    <2> QED
        BY <2>1, <2>2
<1>3. \A x \in Object : S.el[x] \in [prev : Pointer, next : Pointer,
                                     purge_time : Nat]
    BY ListTyped
<1>4. S.head \in Pointer /\ S.tail \in Pointer
    BY ListTyped
<1>5. Free \in [prev : Pointer, next : Pointer, purge_time : Nat]
    BY DEF Free, Pointer
<1>6. \A x \in Object : Unlink(S, o).el[x] =
          IF x = o THEN Free
          ELSE [S.el[x] EXCEPT
                  !.next = IF x = S.el[o].prev THEN S.el[o].next ELSE @,
                  !.prev = IF x = S.el[o].next THEN S.el[o].prev ELSE @]
    BY DEF Unlink
<1>7. ASSUME NEW x \in Object \ {o}
      PROVE  /\ Unlink(S, o).el[x].next =
                   IF x = S.el[o].prev THEN S.el[o].next ELSE S.el[x].next
             /\ Unlink(S, o).el[x].prev =
                   IF x = S.el[o].next THEN S.el[o].prev ELSE S.el[x].prev
             /\ Unlink(S, o).el[x].purge_time = S.el[x].purge_time
             /\ x # S.el[o].prev /\ x # S.el[o].next =>
                   Unlink(S, o).el[x] = S.el[x]
             /\ Unlink(S, o).el[x] \in [prev : Pointer, next : Pointer,
                                        purge_time : Nat]
    <2> DEFINE e == S.el[x]
               n == IF x = S.el[o].prev THEN S.el[o].next ELSE e.next
               p == IF x = S.el[o].next THEN S.el[o].prev ELSE e.prev
    <2>1. Unlink(S, o).el[x] = [e EXCEPT !.next = n, !.prev = p]
        BY <1>6, <1>7
    <2>2. e \in [prev : Pointer, next : Pointer, purge_time : Nat]
        BY <1>3
    <2>3. n \in Pointer /\ p \in Pointer
        BY <1>1, <1>3
    <2>4. x # S.el[o].prev /\ x # S.el[o].next => n = e.next /\ p = e.prev
        OBVIOUS
    <2> HIDE DEF e, n, p
    <2>5. /\ Unlink(S, o).el[x].next = n
          /\ Unlink(S, o).el[x].prev = p
          /\ Unlink(S, o).el[x].purge_time = e.purge_time
          /\ Unlink(S, o).el[x] \in [prev : Pointer, next : Pointer,
                                     purge_time : Nat]
        BY <2>1, <2>2, <2>3
    <2>6. n = e.next /\ p = e.prev => Unlink(S, o).el[x] = e
        BY <2>1, <2>2
    <2> QED
        BY <2>4, <2>5, <2>6 DEF e, n, p
<1>8. Unlink(S, o).el \in [Object -> [prev : Pointer, next : Pointer,
                                      purge_time : Nat]]
    <2>1. Unlink(S, o).el = [x \in Object |-> Unlink(S, o).el[x]]
        BY DEF Unlink
    <2>2. \A x \in Object : Unlink(S, o).el[x] \in
              [prev : Pointer, next : Pointer, purge_time : Nat]
        BY <1>5, <1>6, <1>7
    <2> QED
        BY <2>1, <2>2
<1>9. /\ Unlink(S, o).hash = S.hash \ {o}
      /\ Unlink(S, o).size = S.size - 1
      /\ Unlink(S, o).head = IF S.head = o THEN S.el[o].prev ELSE S.head
      /\ Unlink(S, o).tail = IF S.tail = o THEN S.el[o].next ELSE S.tail
      /\ Unlink(S, o) = [el |-> Unlink(S, o).el, head |-> Unlink(S, o).head,
                         tail |-> Unlink(S, o).tail,
                         size |-> Unlink(S, o).size,
                         hash |-> Unlink(S, o).hash]
    BY DEF Unlink
<1>10. Unlink(S, o).head \in Pointer /\ Unlink(S, o).tail \in Pointer
    BY <1>1, <1>3, <1>4, <1>9
<1>11. Typed(Unlink(S, o))
    BY <1>1, <1>2, <1>8, <1>9, <1>10 DEF Typed
<1> QED
    BY <1>1, <1>2, <1>6, <1>7, <1>9, <1>11 DEF Unlinked

LEMMA UnlinkRanked ==
    ASSUME NEW S, IsList(S), NEW o \in S.hash, NEW r \in Rank, Ranked(S, r)
    PROVE  Ranked(Unlink(S, o), r)
<1> DEFINE T == Unlink(S, o)
           H == S.hash
           G == S.hash \ {o}
           p == S.el[o].prev
           n == S.el[o].next
<1>1. /\ T.hash = G
      /\ \A x \in G :
            /\ T.el[x].next = IF x = p THEN n ELSE S.el[x].next
            /\ T.el[x].prev = IF x = n THEN p ELSE S.el[x].prev
            /\ T.el[x].purge_time = S.el[x].purge_time
      /\ T.head = IF S.head = o THEN p ELSE S.head
      /\ T.tail = IF S.tail = o THEN n ELSE S.tail
    <2>1. G \subseteq Object \ {o}
        BY ListTyped
    <2> HIDE DEF G
    <2>0. Unlinked(S, o, T)
        BY UnlinkFields
    <2>2. /\ T.hash = S.hash \ {o}
          /\ \A x \in Object \ {o} :
                /\ T.el[x].next = IF x = p THEN n ELSE S.el[x].next
                /\ T.el[x].prev = IF x = n THEN p ELSE S.el[x].prev
                /\ T.el[x].purge_time = S.el[x].purge_time
          /\ T.head = IF S.head = o THEN p ELSE S.head
          /\ T.tail = IF S.tail = o THEN n ELSE S.tail
        <3> HIDE DEF T
        <3> QED
            BY <2>0 DEF Unlinked
    <2>3. T.hash = G
        BY <2>2 DEF G
    <2> HIDE DEF T, p, n
    <2> QED
        BY <2>1, <2>2, <2>3
<1>2. /\ H \subseteq Object /\ NULL \notin H
      /\ \A x \in H : r[x] \in Nat
      /\ o \in H /\ G = H \ {o}
    BY ListTyped DEF Rank
<1>3. /\ \A x, y \in H : r[x] = r[y] => x = y
      /\ \A x \in H : (S.el[x].next = NULL /\ Last(H, r, x))
                      \/ Successor(H, r, x, S.el[x].next)
      /\ \A x \in H : (S.el[x].prev = NULL /\ First(H, r, x))
                      \/ Successor(H, r, S.el[x].prev, x)
      /\ (S.head = NULL /\ H = {}) \/ Last(H, r, S.head)
      /\ (S.tail = NULL /\ H = {}) \/ First(H, r, S.tail)
      /\ \A x, y \in H :
            r[x] <= r[y] => S.el[x].purge_time <= S.el[y].purge_time
    BY DEF Ranked
<1>4. /\ (n = NULL /\ Last(H, r, o)) \/ Successor(H, r, o, n)
      /\ (p = NULL /\ First(H, r, o)) \/ Successor(H, r, p, o)
    BY <1>3
<1> HIDE DEF T, H, G, p, n
<1>5. ASSUME NEW x \in G
      PROVE  (T.el[x].next = NULL /\ Last(G, r, x))
             \/ Successor(G, r, x, T.el[x].next)
    <2>1. x \in H /\ x # o
        BY <1>2
    <2>2. (S.el[x].next = NULL /\ Last(H, r, x))
          \/ Successor(H, r, x, S.el[x].next)
        BY <1>3, <2>1
    <2>3. CASE x = p
        <3>1. Successor(H, r, p, o) /\ T.el[x].next = n
            BY <1>1, <1>2, <1>4, <2>1, <2>3
        <3>2. CASE n = NULL /\ Last(H, r, o)
            BY <3>1, <3>2, <1>2, <1>3, <2>1, <2>3 DEF Last, Successor
        <3>3. CASE Successor(H, r, o, n)
            BY <3>1, <3>3, <1>2, <1>3, <2>1, <2>3 DEF Successor
        <3> QED
            BY <1>4, <3>2, <3>3
    <2>4. CASE x # p
        <3>1. T.el[x].next = S.el[x].next
            BY <1>1, <2>4
        <3>2. S.el[x].next # o
            BY <1>2, <1>3, <1>4, <2>1, <2>2, <2>4 DEF Successor, First
        <3> QED
            BY <3>1, <3>2, <2>1, <2>2, <1>2 DEF Last, Successor
    <2> QED
        BY <2>3, <2>4
<1>6. ASSUME NEW x \in G
      PROVE  (T.el[x].prev = NULL /\ First(G, r, x))
             \/ Successor(G, r, T.el[x].prev, x)
    <2>1. x \in H /\ x # o
        BY <1>2
    <2>2. (S.el[x].prev = NULL /\ First(H, r, x))
          \/ Successor(H, r, S.el[x].prev, x)
        BY <1>3, <2>1
    <2>3. CASE x = n
        <3>1. Successor(H, r, o, n) /\ T.el[x].prev = p
            BY <1>1, <1>2, <1>4, <2>1, <2>3
        <3>2. CASE p = NULL /\ First(H, r, o)
            BY <3>1, <3>2, <1>2, <1>3, <2>1, <2>3 DEF First, Successor
        <3>3. CASE Successor(H, r, p, o)
            BY <3>1, <3>3, <1>2, <1>3, <2>1, <2>3 DEF Successor
        <3> QED
            BY <1>4, <3>2, <3>3
    <2>4. CASE x # n
        <3>1. T.el[x].prev = S.el[x].prev
            BY <1>1, <2>4
        <3>2. S.el[x].prev # o
            BY <1>2, <1>3, <1>4, <2>1, <2>2, <2>4 DEF Successor, Last
        <3> QED
            BY <3>1, <3>2, <2>1, <2>2, <1>2 DEF First, Successor
    <2> QED
        BY <2>3, <2>4
<1>7. (T.head = NULL /\ G = {}) \/ Last(G, r, T.head)
    <2>1. Last(H, r, S.head)
        BY <1>2, <1>3
    <2>2. CASE S.head # o
        BY <2>1, <2>2, <1>1, <1>2 DEF Last
    <2>3. CASE S.head = o
        <3>1. T.head = p
            BY <1>1, <2>3
        <3>2. CASE p = NULL /\ First(H, r, o)
            <4>1. G = {}
                BY <3>2, <2>1, <2>3, <1>2, <1>3 DEF First, Last
            <4> QED
                BY <3>1, <3>2, <4>1
        <3>3. CASE Successor(H, r, p, o)
            BY <3>1, <3>3, <2>1, <2>3, <1>2, <1>3 DEF Successor, Last
        <3> QED
            BY <1>4, <3>2, <3>3
    <2> QED
        BY <2>2, <2>3
<1>8. (T.tail = NULL /\ G = {}) \/ First(G, r, T.tail)
    <2>1. First(H, r, S.tail)
        BY <1>2, <1>3
    <2>2. CASE S.tail # o
        BY <2>1, <2>2, <1>1, <1>2 DEF First
    <2>3. CASE S.tail = o
        <3>1. T.tail = n
            BY <1>1, <2>3
        <3>2. CASE n = NULL /\ Last(H, r, o)
            <4>1. G = {}
                BY <3>2, <2>1, <2>3, <1>2, <1>3 DEF First, Last
            <4> QED
                BY <3>1, <3>2, <4>1
        <3>3. CASE Successor(H, r, o, n)
            BY <3>1, <3>3, <2>1, <2>3, <1>2, <1>3 DEF Successor, First
        <3> QED
            BY <1>4, <3>2, <3>3
    <2> QED
        BY <2>2, <2>3
<1>9. /\ \A x, y \in G : r[x] = r[y] => x = y
      /\ \A x, y \in G :
            r[x] <= r[y] => T.el[x].purge_time <= T.el[y].purge_time
    BY <1>1, <1>2, <1>3
<1> QED
    BY <1>1, <1>5, <1>6, <1>7, <1>8, <1>9 DEF Ranked, T

LEMMA UnlinkList ==
    ASSUME NEW S, IsList(S), NEW o \in S.hash
    PROVE  IsList(Unlink(S, o))
<1>1. PICK r \in Rank : Ranked(S, r)
    BY DEF IsList
<1>2. Ranked(Unlink(S, o), r)
    BY <1>1, UnlinkRanked
<1>3. Typed(Unlink(S, o)) /\ Unlink(S, o).hash = S.hash \ {o}
      /\ Unlink(S, o).size = Cardinality(S.hash \ {o})
    BY UnlinkFields DEF Unlinked
<1>4. ASSUME NEW x \in Object, x \notin S.hash \ {o}
      PROVE  Unlink(S, o).el[x] = Free
    <2> DEFINE T == Unlink(S, o)
    <2>a. Unlinked(S, o, T)
        BY UnlinkFields
    <2> HIDE DEF T
    <2>0. /\ T.el[o] = Free
          /\ \A y \in Object \ {o} :
                y # S.el[o].prev /\ y # S.el[o].next =>
                   T.el[y] = S.el[y]
        BY <2>a DEF Unlinked
    <2> USE DEF T
    <2>1. CASE x = o
        BY <2>0, <2>1
    <2>2. CASE x # o
        <3>1. S.el[x] = Free /\ x \notin S.hash
            BY <1>4, <2>2, ListTyped
        <3>2. x # S.el[o].prev /\ x # S.el[o].next
            BY <1>1, <1>4, <3>1, TimeslotAssumption DEF Ranked, Successor
        <3> QED
            BY <3>1, <3>2, <2>2, <1>4, <2>0
    <2> QED
        BY <2>1, <2>2
<1> HIDE DEF Unlink
<1> QED
    BY <1>1, <1>2, <1>3, <1>4 DEF IsList
-----------------------------------------------------------------------------

LEMMA GoodFromBelow ==
    ASSUME NEW H, NEW r, \A x \in H : r[x] \in Nat,
           NEW Good,
           \A x \in H : (\A y \in H : r[y] < r[x] => y \in Good) => x \in Good
    PROVE  H \subseteq Good
<1> DEFINE B == {r[x] : x \in H \ Good}
<1>1. SUFFICES ASSUME H \ Good # {} PROVE FALSE
    OBVIOUS
<1>2. B \subseteq Nat /\ B # {}
    BY <1>1
<1>3. PICK b \in B : \A c \in B : b <= c
    <2> HIDE DEF B
    <2> QED
        BY <1>2, LeastNat
<1>4. PICK x \in H \ Good : b = r[x]
    BY <1>3
<1>5. \A y \in H : r[y] < r[x] => y \in Good
    BY <1>2, <1>3, <1>4
<1> QED
    BY <1>4, <1>5

LEMMA GoodFromAbove ==
    ASSUME NEW H, NEW r, \A x \in H : r[x] \in Nat,
           NEW b \in Nat, \A x \in H : r[x] <= b,
           NEW Good,
           \A x \in H : (\A y \in H : r[x] < r[y] => y \in Good) => x \in Good
    PROVE  H \subseteq Good
<1> DEFINE q == [x \in H |-> b - r[x]]
<1>1. \A x \in H : q[x] \in Nat
    OBVIOUS
<1>2. \A x, y \in H : q[y] < q[x] <=> r[x] < r[y]
    OBVIOUS
<1>3. \A x \in H : (\A y \in H : q[y] < q[x] => y \in Good) => x \in Good
    BY <1>2
<1> HIDE DEF q
<1> QED
    BY <1>1, <1>3, GoodFromBelow

\* A set of objects that is bounded above has one of greatest rank.
LEMMA Greatest ==
    ASSUME NEW H, NEW r, \A x \in H : r[x] \in Nat, NEW b \in Nat,
           \A x \in H : r[x] <= b, H # {}
    PROVE  \E x \in H : \A y \in H : r[y] <= r[x]
<1> DEFINE B == {b - r[x] : x \in H}
<1>1. B \subseteq Nat /\ B # {}
    OBVIOUS
<1>2. PICK c \in B : \A d \in B : c <= d
    <2> HIDE DEF B
    <2> QED
        BY <1>1, LeastNat
<1>3. PICK x \in H : c = b - r[x]
    OBVIOUS
<1>4. \A y \in H : b - r[x] <= b - r[y]
    BY <1>2, <1>3
<1> QED
    BY <1>4

LEMMA Smallest ==
    ASSUME NEW H, NEW r, \A x \in H : r[x] \in Nat, H # {}
    PROVE  \E x \in H : \A y \in H : r[x] <= r[y]
<1> DEFINE B == {r[x] : x \in H}
<1>1. B \subseteq Nat /\ B # {}
    OBVIOUS
<1>2. PICK c \in B : \A d \in B : c <= d
    <2> HIDE DEF B
    <2> QED
        BY <1>1, LeastNat
<1> QED
    BY <1>2

-----------------------------------------------------------------------------

LEMMA RankFacts ==
    ASSUME NEW S, IsList(S), NEW r \in Rank, Ranked(S, r)
    PROVE  /\ S.hash \subseteq Object /\ NULL \notin Object
           /\ \A x \in Object : r[x] \in Nat
           /\ \A x \in S.hash : r[x] \in Nat
           /\ \A x, y \in S.hash : r[x] = r[y] => x = y
           /\ \A x \in S.hash : (S.el[x].next = NULL /\ Last(S.hash, r, x))
                                \/ Successor(S.hash, r, x, S.el[x].next)
           /\ \A x \in S.hash : (S.el[x].prev = NULL /\ First(S.hash, r, x))
                                \/ Successor(S.hash, r, S.el[x].prev, x)
           /\ \A x \in S.hash : S.el[x].purge_time \in Nat
           /\ \A x \in Object \ S.hash : /\ S.el[x].prev = NULL
                                         /\ S.el[x].next = NULL
                                         /\ S.el[x].purge_time = 0
           /\ (S.head = NULL /\ S.hash = {}) \/ Last(S.hash, r, S.head)
           /\ (S.tail = NULL /\ S.hash = {}) \/ First(S.hash, r, S.tail)
           /\ \A x, y \in S.hash :
                 r[x] <= r[y] => S.el[x].purge_time <= S.el[y].purge_time
<1>1. /\ S.hash \subseteq Object /\ NULL \notin Object
      /\ \A x \in Object : S.el[x].purge_time \in Nat
      /\ \A x \in Object \ S.hash : S.el[x] = Free
    BY ListTyped
<1>2. \A x \in Object \ S.hash : /\ S.el[x].prev = NULL
                                 /\ S.el[x].next = NULL
                                 /\ S.el[x].purge_time = 0
    BY <1>1 DEF Free
<1>3. \A x \in Object : r[x] \in Nat
    BY DEF Rank
<1> QED
    BY <1>1, <1>2, <1>3 DEF Ranked

\* f is the recursive function of Position.
Walks(S, t, f) ==
    f = [x \in Object |->
            IF S.el[x].prev # NULL /\ t < S.el[x].purge_time
            THEN f[S.el[x].prev] ELSE x]

LEMMA WalkExists ==
    ASSUME NEW S, IsList(S), NEW t \in Nat
    PROVE  \E f : Walks(S, t, f)
<1> DEFINE H == S.hash
           Stops(x) == S.el[x].prev = NULL \/ S.el[x].purge_time <= t
<1>1. PICK r \in Rank : Ranked(S, r)
    BY DEF IsList
<1> DEFINE Below(x) == {y \in H : r[y] <= r[x] /\ Stops(y)}
           Found(x) == CHOOSE y \in Below(x) :
                          \A z \in Below(x) : r[z] <= r[y]
           g == [x \in Object |-> IF x \in H THEN Found(x) ELSE x]
<1>2. /\ H \subseteq Object /\ NULL \notin Object
      /\ \A x \in H : r[x] \in Nat
      /\ \A x, y \in H : r[x] = r[y] => x = y
      /\ \A x \in H : (S.el[x].prev = NULL /\ First(H, r, x))
                      \/ Successor(H, r, S.el[x].prev, x)
      /\ \A x \in Object \ H : S.el[x].prev = NULL
      /\ \A x \in H : S.el[x].purge_time \in Nat
    BY <1>1, RankFacts
<1> HIDE DEF H
<1>3. ASSUME NEW x \in Object, Stops(x)
      PROVE  g[x] = x
    <2>1. CASE x \notin H
        BY <2>1
    <2>2. CASE x \in H
        <3>1. x \in Below(x) /\ \A z \in Below(x) : r[z] <= r[x]
            BY <1>2, <1>3, <2>2
        <3>2. \A y \in Below(x) :
                  (\A z \in Below(x) : r[z] <= r[y]) => y = x
            BY <1>2, <3>1
        <3>3. Found(x) = x
            <4> HIDE DEF Below
            <4> QED
                BY <3>1, <3>2
        <3> QED
            BY <2>2, <3>3
    <2> QED
        BY <2>1, <2>2
<1>4. ASSUME NEW x \in Object, ~Stops(x)
      PROVE  g[x] = g[S.el[x].prev]
    <2> DEFINE p == S.el[x].prev
    <2>1. x \in H /\ Successor(H, r, p, x)
        BY <1>2, <1>4
    <2> HIDE DEF p
    <2>2. p \in H /\ p \in Object /\ r[p] < r[x]
          /\ \A z \in H : r[z] <= r[p] \/ r[x] <= r[z]
        BY <1>2, <2>1 DEF Successor
    <2>3. ASSUME NEW y \in H
          PROVE  y \in Below(x) <=> y \in Below(p)
        <3>1. r[y] = r[x] => ~Stops(y)
            BY <1>2, <1>4, <2>1, <2>3
        <3> HIDE DEF Stops
        <3>2. r[y] \in Nat /\ r[x] \in Nat /\ r[p] \in Nat
            BY <1>2, <2>1, <2>2
        <3> QED
            BY <2>2, <3>1, <3>2
    <2>4. Below(x) = Below(p)
        BY <2>3
    <2>5. Found(x) = Found(p)
        <3> HIDE DEF Below
        <3> QED
            BY <2>4
    <2>6. g[x] = Found(x) /\ g[p] = Found(p)
        BY <2>1, <2>2
    <2> QED
        BY <2>5, <2>6 DEF p
<1>5. ASSUME NEW x \in Object
      PROVE  g[x] = IF S.el[x].prev # NULL /\ t < S.el[x].purge_time
                    THEN g[S.el[x].prev] ELSE x
    <2>1. S.el[x].purge_time \in Nat
        BY ListTyped
    <2>2. Stops(x) <=> ~(S.el[x].prev # NULL /\ t < S.el[x].purge_time)
        BY <2>1
    <2> HIDE DEF g, Stops
    <2> QED
        BY <1>3, <1>4, <2>2
<1>6. Walks(S, t, g)
    <2>1. g = [x \in Object |-> g[x]]
        OBVIOUS
    <2> HIDE DEF g
    <2> QED
        BY <1>5, <2>1 DEF Walks
<1> QED
    BY <1>6

\* The search ends at an element that ends no later than t or is the tail, and
\* everything behind it ends after t.
LEMMA PositionFound ==
    ASSUME NEW S, IsList(S), NEW t \in Nat, S.hash # {},
           NEW r \in Rank, Ranked(S, r)
    PROVE  /\ Position(S, t) \in S.hash
           /\ \/ S.el[Position(S, t)].prev = NULL
              \/ S.el[Position(S, t)].purge_time <= t
           /\ \A z \in S.hash :
                 r[Position(S, t)] < r[z] => t < S.el[z].purge_time
<1> DEFINE walk[x \in Object] ==
               IF S.el[x].prev # NULL /\ t < S.el[x].purge_time
               THEN walk[S.el[x].prev] ELSE x
           H == S.hash
<1>1. Walks(S, t, walk)
    <2>1. PICK f : Walks(S, t, f)
        BY WalkExists
    <2> QED
        BY <2>1 DEF Walks
<1>2. Position(S, t) = walk[S.head]
    BY DEF Position
<1> HIDE DEF walk
<1>3. /\ H \subseteq Object /\ NULL \notin Object
      /\ \A x \in H : r[x] \in Nat
      /\ \A x, y \in H : r[x] = r[y] => x = y
      /\ \A x \in H : (S.el[x].prev = NULL /\ First(H, r, x))
                      \/ Successor(H, r, S.el[x].prev, x)
      /\ \A x \in H : S.el[x].purge_time \in Nat
      /\ Last(H, r, S.head)
    BY RankFacts
<1> DEFINE Good == {x \in H :
               /\ walk[x] \in H
               /\ S.el[walk[x]].prev = NULL \/ S.el[walk[x]].purge_time <= t
               /\ \A z \in H : r[walk[x]] < r[z] /\ r[z] <= r[x]
                                  => t < S.el[z].purge_time}
<1> HIDE DEF H
<1>4. ASSUME NEW x \in H, \A y \in H : r[y] < r[x] => y \in Good
      PROVE  x \in Good
    <2>1. walk[x] = IF S.el[x].prev # NULL /\ t < S.el[x].purge_time
                    THEN walk[S.el[x].prev] ELSE x
        BY <1>1, <1>3, <1>4 DEF Walks
    <2>2. CASE S.el[x].prev # NULL /\ t < S.el[x].purge_time
        <3> DEFINE p == S.el[x].prev
        <3>1. walk[x] = walk[p] /\ Successor(H, r, p, x)
            BY <2>1, <2>2, <1>3
        <3> HIDE DEF p
        <3>2. p \in H /\ r[p] < r[x]
              /\ \A z \in H : r[z] <= r[p] \/ r[x] <= r[z]
            BY <3>1 DEF Successor
        <3>3. p \in Good
            BY <3>2, <1>4
        <3>4. /\ walk[x] \in H
              /\ S.el[walk[x]].prev = NULL \/ S.el[walk[x]].purge_time <= t
            BY <3>1, <3>3
        <3>5. ASSUME NEW z \in H, r[walk[x]] < r[z], r[z] <= r[x]
              PROVE  t < S.el[z].purge_time
            <4>1. CASE r[z] <= r[p]
                BY <3>1, <3>3, <3>5, <4>1
            <4>2. CASE r[x] <= r[z]
                <5>1. z = x
                    BY <3>5, <4>2, <1>3
                <5> QED
                    BY <5>1, <2>2
            <4> QED
                BY <3>2, <4>1, <4>2
        <3> QED
            BY <3>4, <3>5
    <2>3. CASE ~(S.el[x].prev # NULL /\ t < S.el[x].purge_time)
        <3>1. walk[x] = x
            BY <2>1, <2>3
        <3>2. S.el[x].prev = NULL \/ S.el[x].purge_time <= t
            BY <2>3, <1>3
        <3>3. \A z \in H : ~(r[x] < r[z] /\ r[z] <= r[x])
            BY <1>3
        <3> QED
            BY <3>1, <3>2, <3>3
    <2> QED
        BY <2>2, <2>3
<1>5. H \subseteq Good
    <2> HIDE DEF Good
    <2> QED
        BY <1>3, <1>4, GoodFromBelow
<1>6. S.head \in H /\ \A z \in H : r[z] <= r[S.head]
    BY <1>3 DEF Last
<1> QED
    BY <1>2, <1>5, <1>6 DEF H
-----------------------------------------------------------------------------

\* T is S with o linked between a and b, one of which may be missing.
Linking(S, a, o, b, t, T) ==
    /\ Typed(T)
    /\ T.hash = S.hash \cup {o}
    /\ T.size = Cardinality(S.hash \cup {o})
    /\ T.el[o].prev = a /\ T.el[o].next = b /\ T.el[o].purge_time = t
    /\ \A x \in Object \ {o} :
          /\ T.el[x].next = IF x = a THEN o ELSE S.el[x].next
          /\ T.el[x].prev = IF x = b THEN o ELSE S.el[x].prev
          /\ T.el[x].purge_time = S.el[x].purge_time
          /\ x # a /\ x # b => T.el[x] = S.el[x]
    /\ T.head = IF b = NULL THEN o ELSE S.head
    /\ T.tail = IF a = NULL THEN o ELSE S.tail

\* a is the last element of rank at most m and b the first of a higher rank;
\* a lease until t belongs between them.
Gap(S, r, m, a, b, t) ==
    /\ m \in Int /\ -1 <= m
    /\ \/ a = NULL /\ \A z \in S.hash : m < r[z]
       \/ /\ a \in S.hash /\ r[a] <= m
          /\ \A z \in S.hash : r[z] <= m => r[z] <= r[a]
    /\ \/ b = NULL /\ \A z \in S.hash : r[z] <= m
       \/ /\ b \in S.hash /\ m < r[b]
          /\ \A z \in S.hash : m < r[z] => r[b] <= r[z]
    /\ \A z \in S.hash : IF r[z] <= m THEN S.el[z].purge_time <= t
                         ELSE t <= S.el[z].purge_time

LEMMA LinkingRanked ==
    ASSUME NEW S, IsList(S), NEW o \in Object \ S.hash, NEW t \in Nat,
           NEW r \in Rank, Ranked(S, r),
           NEW m, NEW a, NEW b, Gap(S, r, m, a, b, t),
           NEW T, Linking(S, a, o, b, t, T), S.hash # {}
    PROVE  \E q \in Rank : Ranked(T, q)
<1> DEFINE H == S.hash
           G == S.hash \cup {o}
           q == [x \in Object |-> IF x = o THEN 2 * m + 2 ELSE 2 * r[x] + 1]
<1>1. /\ H \subseteq Object /\ NULL \notin Object
      /\ \A x \in Object : r[x] \in Nat
      /\ \A x \in H : r[x] \in Nat
      /\ \A x, y \in H : r[x] = r[y] => x = y
      /\ \A x \in H : (S.el[x].next = NULL /\ Last(H, r, x))
                      \/ Successor(H, r, x, S.el[x].next)
      /\ \A x \in H : (S.el[x].prev = NULL /\ First(H, r, x))
                      \/ Successor(H, r, S.el[x].prev, x)
      /\ Last(H, r, S.head) /\ First(H, r, S.tail)
      /\ \A x, y \in H :
            r[x] <= r[y] => S.el[x].purge_time <= S.el[y].purge_time
      /\ \A x \in H : S.el[x].purge_time \in Nat
    BY RankFacts
<1>2. /\ m \in Int /\ -1 <= m
      /\ \/ a = NULL /\ \A z \in H : m < r[z]
         \/ a \in H /\ r[a] <= m /\ \A z \in H : r[z] <= m => r[z] <= r[a]
      /\ \/ b = NULL /\ \A z \in H : r[z] <= m
         \/ b \in H /\ m < r[b] /\ \A z \in H : m < r[z] => r[b] <= r[z]
      /\ \A z \in H : IF r[z] <= m THEN S.el[z].purge_time <= t
                      ELSE t <= S.el[z].purge_time
    BY DEF Gap
<1>3. /\ T.hash = G
      /\ T.el[o].prev = a /\ T.el[o].next = b /\ T.el[o].purge_time = t
      /\ T.head = IF b = NULL THEN o ELSE S.head
      /\ T.tail = IF a = NULL THEN o ELSE S.tail
    BY DEF Linking
<1>4. \A x \in H : /\ T.el[x].next = IF x = a THEN o ELSE S.el[x].next
                   /\ T.el[x].prev = IF x = b THEN o ELSE S.el[x].prev
                   /\ T.el[x].purge_time = S.el[x].purge_time
    BY <1>1 DEF Linking
<1>5. /\ q \in Rank
      /\ q[o] = 2 * m + 2
      /\ \A x \in H : q[x] = 2 * r[x] + 1
    BY <1>1, <1>2 DEF Rank
<1>6. o \notin H /\ o # NULL /\ o \in G /\ \A x \in G : x \in H \/ x = o
    BY <1>1
<1> HIDE DEF H, G, q
<1>7. \A x, y \in H : /\ r[x] < r[y] <=> q[x] < q[y]
                      /\ r[x] <= r[y] <=> q[x] <= q[y]
    BY <1>1, <1>5
<1>8. \A x \in H : /\ r[x] <= m <=> q[x] < q[o]
                   /\ m < r[x] <=> q[o] < q[x]
    BY <1>1, <1>2, <1>5
<1>9. \A x \in G : x \in Object /\ q[x] \in Nat
    BY <1>1, <1>5, <1>6 DEF Rank
<1>10. \A x \in H : x \in G
    BY DEF G, H
<1>11. ASSUME NEW x \in G
       PROVE  (T.el[x].next = NULL /\ Last(G, q, x))
              \/ Successor(G, q, x, T.el[x].next)
    <2>1. CASE x = o
        <3>1. T.el[x].next = b
            BY <1>3, <2>1
        <3>2. CASE b = NULL /\ \A z \in H : r[z] <= m
            <4>1. \A z \in G : q[z] <= q[o]
                BY <3>2, <1>6, <1>8, <1>9
            <4> QED
                BY <3>1, <3>2, <4>1, <2>1 DEF Last
        <3>3. CASE b \in H /\ m < r[b] /\ \A z \in H : m < r[z] => r[b] <= r[z]
            <4>1. q[o] < q[b] /\ b \in G
                BY <3>3, <1>8, <1>10
            <4>2. \A z \in H : q[z] <= q[o] \/ q[b] <= q[z]
                BY <3>3, <1>1, <1>2, <1>7, <1>8, <1>9, <1>10, <1>6
            <4>3. \A z \in G : q[z] <= q[o] \/ q[b] <= q[z]
                BY <4>2, <1>6, <1>9
            <4> QED
                BY <3>1, <4>1, <4>3, <2>1, <1>6 DEF Successor
        <3> QED
            BY <1>2, <3>2, <3>3
    <2>2. CASE x # o /\ x = a
        <3>1. x \in H /\ T.el[x].next = o
            BY <1>4, <1>6, <2>2
        <3>2. r[x] <= m /\ \A z \in H : r[z] <= m => r[z] <= r[x]
            BY <1>1, <1>2, <2>2, <3>1
        <3>3. q[x] < q[o]
            BY <3>1, <3>2, <1>8
        <3>4. \A z \in H : q[z] <= q[x] \/ q[o] <= q[z]
            BY <3>1, <3>2, <1>1, <1>2, <1>7, <1>8, <1>9, <1>10, <1>6
        <3>5. \A z \in G : q[z] <= q[x] \/ q[o] <= q[z]
            BY <3>4, <1>6, <1>9
        <3> QED
            BY <3>1, <3>3, <3>5, <1>6 DEF Successor
    <2>3. CASE x # o /\ x # a
        <3>1. x \in H
            BY <1>6, <2>3
        <3>2. T.el[x].next = S.el[x].next
            BY <1>4, <2>3, <3>1
        <3>3. CASE S.el[x].next = NULL /\ Last(H, r, x)
            <4>1. \A z \in H : r[z] <= r[x]
                BY <3>3 DEF Last
            <4>2. ~(r[x] <= m)
                BY <4>1, <1>1, <1>2, <2>3, <3>1
            <4>3. q[o] < q[x]
                BY <4>2, <3>1, <1>1, <1>2, <1>8
            <4>4. \A z \in H : q[z] <= q[x]
                BY <4>1, <3>1, <1>7
            <4>5. \A z \in G : q[z] <= q[x]
                BY <4>3, <4>4, <1>6, <1>9
            <4> QED
                BY <3>2, <3>3, <4>5 DEF Last
        <3>4. CASE Successor(H, r, x, S.el[x].next)
            <4> DEFINE y == S.el[x].next
            <4>1. y \in H /\ r[x] < r[y]
                  /\ \A z \in H : r[z] <= r[x] \/ r[y] <= r[z]
                BY <3>4 DEF Successor
            <4> HIDE DEF y
            <4>2. ~(r[x] <= m /\ m < r[y])
                BY <4>1, <1>1, <1>2, <2>3, <3>1
            <4>3. q[x] < q[y] /\ \A z \in H : q[z] <= q[x] \/ q[y] <= q[z]
                BY <4>1, <1>7, <3>1
            <4>4. q[o] <= q[x] \/ q[y] <= q[o]
                BY <4>1, <4>2, <1>1, <1>2, <1>8, <1>9, <1>6, <1>10, <3>1
            <4>5. \A z \in G : q[z] <= q[x] \/ q[y] <= q[z]
                BY <4>3, <4>4, <1>6
            <4>6. x \in G /\ y \in G
                BY <3>1, <4>1, <1>10
            <4>7. Successor(G, q, x, y)
                BY <4>3, <4>5, <4>6 DEF Successor
            <4> QED
                BY <4>7, <3>2 DEF y
        <3> QED
            BY <1>1, <3>1, <3>3, <3>4
    <2> QED
        BY <2>1, <2>2, <2>3
<1>12. ASSUME NEW x \in G
       PROVE  (T.el[x].prev = NULL /\ First(G, q, x))
              \/ Successor(G, q, T.el[x].prev, x)
    <2>1. CASE x = o
        <3>1. T.el[x].prev = a
            BY <1>3, <2>1
        <3>2. CASE a = NULL /\ \A z \in H : m < r[z]
            <4>1. \A z \in G : q[o] <= q[z]
                BY <3>2, <1>6, <1>8, <1>9
            <4> QED
                BY <3>1, <3>2, <4>1, <2>1 DEF First
        <3>3. CASE a \in H /\ r[a] <= m /\ \A z \in H : r[z] <= m => r[z] <= r[a]
            <4>1. q[a] < q[o] /\ a \in G
                BY <3>3, <1>8, <1>10
            <4>2. \A z \in H : q[z] <= q[a] \/ q[o] <= q[z]
                BY <3>3, <1>1, <1>2, <1>7, <1>8, <1>9, <1>10, <1>6
            <4>3. \A z \in G : q[z] <= q[a] \/ q[o] <= q[z]
                BY <4>2, <1>6, <1>9
            <4> QED
                BY <3>1, <4>1, <4>3, <2>1, <1>6 DEF Successor
        <3> QED
            BY <1>2, <3>2, <3>3
    <2>2. CASE x # o /\ x = b
        <3>1. x \in H /\ T.el[x].prev = o
            BY <1>4, <1>6, <2>2
        <3>2. m < r[x] /\ \A z \in H : m < r[z] => r[x] <= r[z]
            BY <1>1, <1>2, <2>2, <3>1
        <3>3. q[o] < q[x]
            BY <3>1, <3>2, <1>8
        <3>4. \A z \in H : q[z] <= q[o] \/ q[x] <= q[z]
            BY <3>1, <3>2, <1>1, <1>2, <1>7, <1>8, <1>9, <1>10, <1>6
        <3>5. \A z \in G : q[z] <= q[o] \/ q[x] <= q[z]
            BY <3>4, <1>6, <1>9
        <3> QED
            BY <3>1, <3>3, <3>5, <1>6 DEF Successor
    <2>3. CASE x # o /\ x # b
        <3>1. x \in H
            BY <1>6, <2>3
        <3>2. T.el[x].prev = S.el[x].prev
            BY <1>4, <2>3, <3>1
        <3>3. CASE S.el[x].prev = NULL /\ First(H, r, x)
            <4>1. \A z \in H : r[x] <= r[z]
                BY <3>3 DEF First
            <4>2. ~(m < r[x])
                BY <4>1, <1>1, <1>2, <2>3, <3>1
            <4>3. q[x] < q[o]
                BY <4>2, <3>1, <1>1, <1>2, <1>8
            <4>4. \A z \in H : q[x] <= q[z]
                BY <4>1, <3>1, <1>7
            <4>5. \A z \in G : q[x] <= q[z]
                BY <4>3, <4>4, <1>6, <1>9
            <4> QED
                BY <3>2, <3>3, <4>5 DEF First
        <3>4. CASE Successor(H, r, S.el[x].prev, x)
            <4> DEFINE y == S.el[x].prev
            <4>1. y \in H /\ r[y] < r[x]
                  /\ \A z \in H : r[z] <= r[y] \/ r[x] <= r[z]
                BY <3>4 DEF Successor
            <4> HIDE DEF y
            <4>2. ~(r[y] <= m /\ m < r[x])
                BY <4>1, <1>1, <1>2, <2>3, <3>1
            <4>3. q[y] < q[x] /\ \A z \in H : q[z] <= q[y] \/ q[x] <= q[z]
                BY <4>1, <1>7, <3>1
            <4>4. q[o] <= q[y] \/ q[x] <= q[o]
                BY <4>1, <4>2, <1>1, <1>2, <1>8, <1>9, <1>6, <1>10, <3>1
            <4>5. \A z \in G : q[z] <= q[y] \/ q[x] <= q[z]
                BY <4>3, <4>4, <1>6
            <4>6. x \in G /\ y \in G
                BY <3>1, <4>1, <1>10
            <4>7. Successor(G, q, y, x)
                BY <4>3, <4>5, <4>6 DEF Successor
            <4> QED
                BY <4>7, <3>2 DEF y
        <3> QED
            BY <1>1, <3>1, <3>3, <3>4
    <2> QED
        BY <2>1, <2>2, <2>3
<1>13. Last(G, q, T.head)
    <2>1. CASE b = NULL
        <3>1. T.head = o /\ \A z \in H : r[z] <= m
            BY <2>1, <1>1, <1>2, <1>3
        <3>2. \A z \in G : q[z] <= q[o]
            BY <3>1, <1>6, <1>8, <1>9
        <3> QED
            BY <3>1, <3>2, <1>6 DEF Last
    <2>2. CASE b # NULL
        <3>1. T.head = S.head /\ b \in H /\ m < r[b]
            BY <2>2, <1>2, <1>3
        <3>2. S.head \in H /\ \A z \in H : r[z] <= r[S.head]
            BY <1>1 DEF Last
        <3>3. m < r[S.head]
            BY <3>1, <3>2, <1>1, <1>2
        <3>4. q[o] <= q[S.head]
            BY <3>2, <3>3, <1>8, <1>9, <1>10, <1>6
        <3>5. \A z \in H : q[z] <= q[S.head]
            BY <3>2, <1>7
        <3>6. \A z \in G : q[z] <= q[S.head]
            BY <3>4, <3>5, <1>6
        <3> QED
            BY <3>1, <3>2, <3>6, <1>10 DEF Last
    <2> QED
        BY <2>1, <2>2
<1>14. First(G, q, T.tail)
    <2>1. CASE a = NULL
        <3>1. T.tail = o /\ \A z \in H : m < r[z]
            BY <2>1, <1>1, <1>2, <1>3
        <3>2. \A z \in G : q[o] <= q[z]
            BY <3>1, <1>6, <1>8, <1>9
        <3> QED
            BY <3>1, <3>2, <1>6 DEF First
    <2>2. CASE a # NULL
        <3>1. T.tail = S.tail /\ a \in H /\ r[a] <= m
            BY <2>2, <1>2, <1>3
        <3>2. S.tail \in H /\ \A z \in H : r[S.tail] <= r[z]
            BY <1>1 DEF First
        <3>3. r[S.tail] <= m
            BY <3>1, <3>2, <1>1, <1>2
        <3>4. q[S.tail] <= q[o]
            BY <3>2, <3>3, <1>8, <1>9, <1>10, <1>6
        <3>5. \A z \in H : q[S.tail] <= q[z]
            BY <3>2, <1>7
        <3>6. \A z \in G : q[S.tail] <= q[z]
            BY <3>4, <3>5, <1>6
        <3> QED
            BY <3>1, <3>2, <3>6, <1>10 DEF First
    <2> QED
        BY <2>1, <2>2
<1>15. \A x, y \in G : q[x] = q[y] => x = y
    <2>1. \A x \in H : q[x] # q[o]
        BY <1>1, <1>2, <1>5
    <2>2. \A x, y \in H : q[x] = q[y] => x = y
        BY <1>1, <1>5
    <2> QED
        BY <2>1, <2>2, <1>6
<1>16. ASSUME NEW x \in G, NEW y \in G, q[x] <= q[y]
       PROVE  T.el[x].purge_time <= T.el[y].purge_time
    <2>1. CASE x \in H /\ y \in H
        BY <2>1, <1>1, <1>4, <1>7, <1>16
    <2>2. CASE x = o /\ y \in H
        <3>1. q[o] < q[y]
            BY <2>2, <1>16, <1>15, <1>9, <1>6, <1>10
        <3>2. m < r[y]
            BY <2>2, <3>1, <1>8
        <3>3. ~(r[y] <= m)
            BY <3>2, <1>1, <1>2, <2>2
        <3> QED
            BY <3>3, <2>2, <1>2, <1>3, <1>4
    <2>3. CASE x \in H /\ y = o
        <3>1. q[x] < q[o]
            BY <2>3, <1>16, <1>15, <1>9, <1>6, <1>10
        <3> QED
            BY <3>1, <2>3, <1>2, <1>3, <1>4, <1>8
    <2>4. CASE x = o /\ y = o
        BY <2>4, <1>3
    <2> QED
        BY <2>1, <2>2, <2>3, <2>4, <1>6
<1>17. Ranked(T, q)
    BY <1>3, <1>11, <1>12, <1>13, <1>14, <1>15, <1>16 DEF Ranked
<1> QED
    BY <1>5, <1>17

LEMMA LinkingList ==
    ASSUME NEW S, IsList(S), NEW o \in Object \ S.hash, NEW t \in Nat,
           NEW r \in Rank, Ranked(S, r),
           NEW m, NEW a, NEW b, Gap(S, r, m, a, b, t),
           NEW T, Linking(S, a, o, b, t, T), S.hash # {}
    PROVE  IsList(T)
<1>1. \E q \in Rank : Ranked(T, q)
    BY LinkingRanked
<1>2. Typed(T) /\ T.hash = S.hash \cup {o} /\ T.size = Cardinality(T.hash)
    BY DEF Linking
<1>3. ASSUME NEW x \in Object \ T.hash
      PROVE  T.el[x] = Free
    <2>1. x \notin S.hash /\ x # o /\ x \in Object
        BY <1>2, <1>3
    <2>2. S.el[x] = Free
        BY <2>1, ListTyped
    <2>3. x # a /\ x # b
        BY <2>1, TimeslotAssumption DEF Gap
    <2>4. T.el[x] = S.el[x]
        BY <2>1, <2>3 DEF Linking
    <2> QED
        BY <2>2, <2>4
<1> QED
    BY <1>1, <1>2, <1>3 DEF IsList
LEMMA InsertAfterLinking ==
    ASSUME NEW S, IsList(S), NEW o \in Object \ S.hash, NEW t \in Nat,
           NEW r \in Rank, Ranked(S, r), NEW x \in S.hash
    PROVE  Linking(S, x, o, S.el[x].next, t, InsertAfter(S, x, o, t))
<1> DEFINE T == InsertAfter(S, x, o, t)
           b == S.el[x].next
           Elem == [prev : Pointer, next : Pointer, purge_time : Nat]
<1>1. /\ x \in Object /\ x # NULL /\ o # NULL /\ o \in Object /\ x # o
      /\ S.hash \subseteq Object
    BY ListTyped
<1>2. S.size + 1 = Cardinality(S.hash \cup {o}) /\ S.size + 1 \in Nat
    <2>1. S.size = Cardinality(S.hash)
        BY ListTyped
    <2>2. /\ Cardinality(S.hash \cup {o}) = Cardinality(S.hash) + 1
          /\ Cardinality(S.hash \cup {o}) \in Nat
        BY <1>1, OneMore
    <2> QED
        BY <2>1, <2>2
<1>3. /\ \A y \in Object : S.el[y] \in Elem
      /\ S.head \in Pointer /\ S.tail \in Pointer
      /\ b \in Pointer
    BY <1>1, ListTyped
<1>4. T.el = [y \in Object |->
                 IF y = o THEN [prev |-> x, next |-> b, purge_time |-> t]
                 ELSE [S.el[y] EXCEPT !.next = IF y = x THEN o ELSE @,
                                      !.prev = IF y = b THEN o ELSE @]]
    BY DEF InsertAfter
<1>5. ASSUME NEW y \in Object \ {o}
      PROVE  /\ T.el[y].next = IF y = x THEN o ELSE S.el[y].next
             /\ T.el[y].prev = IF y = b THEN o ELSE S.el[y].prev
             /\ T.el[y].purge_time = S.el[y].purge_time
             /\ y # x /\ y # b => T.el[y] = S.el[y]
             /\ T.el[y] \in Elem
    <2> DEFINE e == S.el[y]
               n == IF y = x THEN o ELSE e.next
               p == IF y = b THEN o ELSE e.prev
    <2>1. T.el[y] = [e EXCEPT !.next = n, !.prev = p]
        BY <1>4, <1>5
    <2>2. e \in Elem
        BY <1>3
    <2>3. n \in Pointer /\ p \in Pointer
        BY <1>1, <2>2 DEF Pointer
    <2>4. y # x /\ y # b => n = e.next /\ p = e.prev
        OBVIOUS
    <2> HIDE DEF e, n, p, T, b
    <2>5. /\ T.el[y].next = n /\ T.el[y].prev = p
          /\ T.el[y].purge_time = e.purge_time
          /\ T.el[y] \in Elem
        BY <2>1, <2>2, <2>3
    <2>6. n = e.next /\ p = e.prev => T.el[y] = e
        BY <2>1, <2>2
    <2> QED
        BY <2>4, <2>5, <2>6 DEF e, n, p
<1>6. T.el[o] = [prev |-> x, next |-> b, purge_time |-> t]
    BY <1>1, <1>4
<1>7. T.el[o] \in Elem
    BY <1>1, <1>3, <1>6 DEF Pointer
<1>8. T.el \in [Object -> Elem]
    <2>1. T.el = [y \in Object |-> T.el[y]]
        BY <1>4
    <2>2. \A y \in Object : T.el[y] \in Elem
        BY <1>5, <1>7
    <2> HIDE DEF T
    <2> QED
        BY <2>1, <2>2
<1>9. /\ T = [el |-> T.el, head |-> T.head, tail |-> T.tail, size |-> T.size,
              hash |-> T.hash]
      /\ T.hash = S.hash \cup {o} /\ T.size = S.size + 1
      /\ T.head = IF S.head = x THEN o ELSE S.head
      /\ T.tail = S.tail
    BY DEF InsertAfter
<1>10. b = NULL <=> S.head = x
    <2>1. /\ (S.el[x].next = NULL /\ Last(S.hash, r, x))
             \/ Successor(S.hash, r, x, S.el[x].next)
          /\ Last(S.hash, r, S.head)
          /\ \A u \in S.hash : r[u] \in Nat
          /\ \A u, v \in S.hash : r[u] = r[v] => u = v
          /\ NULL \notin S.hash
        BY RankFacts
    <2> QED
        BY <2>1 DEF Last, Successor
<1>11. Typed(T)
    <2>1. T.head \in Pointer /\ T.tail \in Pointer /\ T.size \in Nat
          /\ T.hash \in SUBSET Object
        BY <1>1, <1>2, <1>3, <1>9 DEF Pointer
    <2> HIDE DEF T
    <2> QED
        BY <1>8, <1>9, <2>1 DEF Typed
<1> HIDE DEF T, b
<1>12. T.el[o].prev = x /\ T.el[o].next = b /\ T.el[o].purge_time = t
    BY <1>6
<1>13. T.head = IF b = NULL THEN o ELSE S.head
    BY <1>9, <1>10
<1>14. T.tail = IF x = NULL THEN o ELSE S.tail
    BY <1>1, <1>9
<1>15. Linking(S, x, o, b, t, T)
    BY <1>2, <1>5, <1>9, <1>11, <1>12, <1>13, <1>14 DEF Linking
<1> QED
    BY <1>15 DEF T, b

LEMMA InsertBeforeLinking ==
    ASSUME NEW S, IsList(S), NEW o \in Object \ S.hash, NEW t \in Nat,
           NEW r \in Rank, Ranked(S, r), NEW x \in S.hash, S.el[x].prev = NULL
    PROVE  Linking(S, NULL, o, x, t, InsertBefore(S, x, o, t))
<1> DEFINE T == InsertBefore(S, x, o, t)
           Elem == [prev : Pointer, next : Pointer, purge_time : Nat]
<1>1. /\ x \in Object /\ x # NULL /\ o # NULL /\ o \in Object /\ x # o
      /\ S.hash \subseteq Object /\ NULL \notin Object
    BY ListTyped
<1>2. S.size + 1 = Cardinality(S.hash \cup {o}) /\ S.size + 1 \in Nat
    <2>1. S.size = Cardinality(S.hash)
        BY ListTyped
    <2>2. /\ Cardinality(S.hash \cup {o}) = Cardinality(S.hash) + 1
          /\ Cardinality(S.hash \cup {o}) \in Nat
        BY <1>1, OneMore
    <2> QED
        BY <2>1, <2>2
<1>3. /\ \A y \in Object : S.el[y] \in Elem
      /\ S.head \in Pointer /\ S.tail \in Pointer
    BY <1>1, ListTyped
<1>4. T.el = [y \in Object |->
                 IF y = o THEN [prev |-> NULL, next |-> x, purge_time |-> t]
                 ELSE [S.el[y] EXCEPT !.prev = IF y = x THEN o ELSE @,
                                      !.next = IF y = NULL THEN o ELSE @]]
    BY DEF InsertBefore
<1>5. ASSUME NEW y \in Object \ {o}
      PROVE  /\ T.el[y].next = S.el[y].next
             /\ T.el[y].prev = IF y = x THEN o ELSE S.el[y].prev
             /\ T.el[y].purge_time = S.el[y].purge_time
             /\ y # x => T.el[y] = S.el[y]
             /\ T.el[y] \in Elem
    <2> DEFINE e == S.el[y]
               n == IF y = NULL THEN o ELSE e.next
               p == IF y = x THEN o ELSE e.prev
    <2>1. T.el[y] = [e EXCEPT !.prev = p, !.next = n]
        BY <1>4, <1>5
    <2>2. e \in Elem
        BY <1>3
    <2>3. n = e.next
        BY <1>1, <1>5
    <2>4. n \in Pointer /\ p \in Pointer
        BY <1>1, <2>2, <2>3 DEF Pointer
    <2>5. y # x => p = e.prev
        OBVIOUS
    <2> HIDE DEF e, n, p, T
    <2>6. /\ T.el[y].next = n /\ T.el[y].prev = p
          /\ T.el[y].purge_time = e.purge_time
          /\ T.el[y] \in Elem
        BY <2>1, <2>2, <2>4
    <2>7. n = e.next /\ p = e.prev => T.el[y] = e
        BY <2>1, <2>2
    <2> QED
        BY <2>3, <2>5, <2>6, <2>7 DEF e, n, p
<1>6. T.el[o] = [prev |-> NULL, next |-> x, purge_time |-> t]
    BY <1>1, <1>4
<1>7. T.el[o] \in Elem
    BY <1>1, <1>3, <1>6 DEF Pointer
<1>8. T.el \in [Object -> Elem]
    <2>1. T.el = [y \in Object |-> T.el[y]]
        BY <1>4
    <2>2. \A y \in Object : T.el[y] \in Elem
        BY <1>5, <1>7
    <2> HIDE DEF T
    <2> QED
        BY <2>1, <2>2
<1>9. /\ T = [el |-> T.el, head |-> T.head, tail |-> T.tail, size |-> T.size,
              hash |-> T.hash]
      /\ T.hash = S.hash \cup {o} /\ T.size = S.size + 1
      /\ T.head = S.head
      /\ T.tail = IF S.tail = x THEN o ELSE S.tail
    BY DEF InsertBefore
<1>10. S.tail = x
    <2>1. /\ (S.el[x].prev = NULL /\ First(S.hash, r, x))
             \/ Successor(S.hash, r, S.el[x].prev, x)
          /\ First(S.hash, r, S.tail)
          /\ \A u \in S.hash : r[u] \in Nat
          /\ \A u, v \in S.hash : r[u] = r[v] => u = v
          /\ NULL \notin S.hash
        BY RankFacts
    <2> QED
        BY <2>1 DEF First, Successor
<1>11. Typed(T)
    <2>1. T.head \in Pointer /\ T.tail \in Pointer /\ T.size \in Nat
          /\ T.hash \in SUBSET Object
        BY <1>1, <1>2, <1>3, <1>9 DEF Pointer
    <2> HIDE DEF T
    <2> QED
        BY <1>8, <1>9, <2>1 DEF Typed
<1> HIDE DEF T
<1>12. T.el[o].prev = NULL /\ T.el[o].next = x /\ T.el[o].purge_time = t
    BY <1>6
<1>13. T.head = (IF x = NULL THEN o ELSE S.head) /\ T.tail = o
    BY <1>1, <1>9, <1>10
<1>14. \A y \in Object \ {o} : y # NULL
    BY <1>1
<1>15. Linking(S, NULL, o, x, t, T)
    BY <1>2, <1>5, <1>9, <1>11, <1>12, <1>13, <1>14 DEF Linking
<1> QED
    BY <1>15 DEF T

\* What the rest of a step needs of an insertion.
Granted(S, o, t, T) ==
    /\ IsList(T)
    /\ T.hash = S.hash \cup {o}
    /\ T.el[o].purge_time = t
    /\ \A x \in S.hash : T.el[x].purge_time = S.el[x].purge_time

LEMMA InsertGranted ==
    ASSUME NEW S, IsList(S), NEW o \in Object \ S.hash, NEW t \in Nat,
           S.hash # {}
    PROVE  Granted(S, o, t, Insert(S, o, t))
<1> DEFINE H == S.hash
           x == Position(S, t)
<1>1. PICK r \in Rank : Ranked(S, r)
    BY DEF IsList
<1>2. /\ x \in H
      /\ S.el[x].prev = NULL \/ S.el[x].purge_time <= t
      /\ \A z \in H : r[x] < r[z] => t < S.el[z].purge_time
    BY <1>1, PositionFound
<1>3. /\ H \subseteq Object /\ NULL \notin Object
      /\ \A y \in H : r[y] \in Nat
      /\ \A y, z \in H : r[y] = r[z] => y = z
      /\ (S.el[x].next = NULL /\ Last(H, r, x))
         \/ Successor(H, r, x, S.el[x].next)
      /\ (S.el[x].prev = NULL /\ First(H, r, x))
         \/ Successor(H, r, S.el[x].prev, x)
      /\ \A y, z \in H :
            r[y] <= r[z] => S.el[y].purge_time <= S.el[z].purge_time
      /\ \A y \in H : S.el[y].purge_time \in Nat
    <2> HIDE DEF x
    <2> QED
        BY <1>1, <1>2, RankFacts
<1>4. Insert(S, o, t) = IF S.el[x].purge_time <= t THEN InsertAfter(S, x, o, t)
                        ELSE InsertBefore(S, x, o, t)
    BY DEF Insert
<1> HIDE DEF H, x
<1>5. ASSUME NEW m, NEW a, NEW b, NEW T,
             Gap(S, r, m, a, b, t), Linking(S, a, o, b, t, T)
      PROVE  Granted(S, o, t, T)
    <2>1. IsList(T)
        BY <1>1, <1>5, LinkingList
    <2>2. \A y \in S.hash : y \in Object \ {o}
        BY ListTyped
    <2> QED
        BY <1>5, <2>1, <2>2 DEF Granted, Linking
<1>6. CASE S.el[x].purge_time <= t
    <2> DEFINE b == S.el[x].next
               m == r[x]
               T == InsertAfter(S, x, o, t)
    <2>1. Linking(S, x, o, b, t, T)
        BY <1>1, <1>2, InsertAfterLinking DEF H
    <2>2. \A z \in H : IF r[z] <= m THEN S.el[z].purge_time <= t
                       ELSE t <= S.el[z].purge_time
        BY <1>2, <1>3, <1>6
    <2>3. \/ b = NULL /\ \A z \in H : r[z] <= m
          \/ b \in H /\ m < r[b] /\ \A z \in H : m < r[z] => r[b] <= r[z]
        BY <1>2, <1>3 DEF Last, Successor
    <2>4. m \in Int /\ -1 <= m /\ x \in H /\ r[x] <= m
          /\ \A z \in H : r[z] <= m => r[z] <= r[x]
        BY <1>2, <1>3
    <2> HIDE DEF b, m, T
    <2>5. Gap(S, r, m, x, b, t)
        BY <2>2, <2>3, <2>4 DEF Gap, H
    <2>6. Granted(S, o, t, T)
        BY <2>1, <2>5, <1>5
    <2> QED
        BY <1>4, <1>6, <2>6 DEF T
<1>7. CASE ~(S.el[x].purge_time <= t)
    <2> DEFINE m == r[x] - 1
               T == InsertBefore(S, x, o, t)
    <2>1. S.el[x].prev = NULL /\ First(H, r, x)
        BY <1>2, <1>3, <1>7 DEF Successor
    <2>2. Linking(S, NULL, o, x, t, T)
        BY <1>1, <1>2, <2>1, InsertBeforeLinking DEF H
    <2>3. \A z \in H : r[x] <= r[z]
        BY <2>1 DEF First
    <2>4. \A z \in H : m < r[z] /\ ~(r[z] <= m) /\ t <= S.el[z].purge_time
        BY <1>2, <1>3, <1>7, <2>3
    <2>5. m \in Int /\ -1 <= m
        BY <1>2, <1>3
    <2>6. x \in H /\ m < r[x] /\ \A z \in H : m < r[z] => r[x] <= r[z]
        BY <1>2, <2>3, <2>4
    <2> HIDE DEF m, T
    <2>7. Gap(S, r, m, NULL, x, t)
        BY <2>4, <2>5, <2>6 DEF Gap, H
    <2>8. Granted(S, o, t, T)
        BY <2>2, <2>7, <1>5
    <2> QED
        BY <1>4, <1>7, <2>8 DEF T
<1> QED
    BY <1>6, <1>7

LEMMA SingleGranted ==
    ASSUME NEW S, IsList(S), NEW o \in Object, NEW t \in Nat, S.hash = {}
    PROVE  Granted(S, o, t, Single(S, o, t))
<1> DEFINE T == Single(S, o, t)
           Elem == [prev : Pointer, next : Pointer, purge_time : Nat]
           r == [x \in Object |-> 0]
<1>1. S.el \in [Object -> Elem] /\ \A x \in Object : S.el[x] = Free
    BY DEF IsList, Typed
<1>2. /\ T.el = [S.el EXCEPT ![o] = [prev |-> NULL, next |-> NULL,
                                     purge_time |-> t]]
      /\ T.head = o /\ T.tail = o /\ T.size = 1 /\ T.hash = {o}
      /\ T = [el |-> T.el, head |-> T.head, tail |-> T.tail, size |-> T.size,
              hash |-> T.hash]
    BY DEF Single
<1>3. [prev |-> NULL, next |-> NULL, purge_time |-> t] \in Elem
    BY DEF Pointer
<1> HIDE DEF T
<1>4. /\ T.el \in [Object -> Elem]
      /\ T.el[o] = [prev |-> NULL, next |-> NULL, purge_time |-> t]
      /\ \A x \in Object \ {o} : T.el[x] = Free
    <2> HIDE DEF Elem
    <2> QED
        BY <1>1, <1>2, <1>3
<1>5. Typed(T)
    <2>1. T.head \in Pointer /\ T.tail \in Pointer /\ T.size \in Nat
          /\ T.hash \in SUBSET Object
        BY <1>2 DEF Pointer
    <2> QED
        BY <1>2, <1>4, <2>1 DEF Typed
<1>6. T.size = Cardinality(T.hash)
    BY <1>2, FS_Singleton
<1>7. r \in Rank /\ r[o] = 0
    BY DEF Rank
<1>8. T.el[o].prev = NULL /\ T.el[o].next = NULL /\ T.el[o].purge_time = t
    BY <1>4
<1> HIDE DEF r
<1>9. First({o}, r, o) /\ Last({o}, r, o)
    BY <1>7 DEF First, Last
<1>10. Ranked(T, r)
    BY <1>2, <1>8, <1>9 DEF Ranked
<1>11. IsList(T)
    BY <1>2, <1>4, <1>5, <1>6, <1>7, <1>10 DEF IsList
<1> QED
    BY <1>2, <1>8, <1>11 DEF Granted, T
-----------------------------------------------------------------------------

(* The purge. *)

Expired(S, t) == {x \in S.hash : S.el[x].purge_time <= t}

\* f is the recursive function of Due.
DueWalks(S, t, f) ==
    f = [x \in Object \cup {NULL} |->
            IF x = NULL \/ S.el[x].purge_time > t THEN {}
            ELSE IF x = S.head THEN {x} ELSE {x} \cup f[S.el[x].next]]

\* f is the recursive function of NewTail.
TailWalks(S, t, f) ==
    f = [x \in Object \cup {NULL} |->
            IF x = NULL \/ S.el[x].purge_time > t THEN x
            ELSE IF x = S.head THEN NULL ELSE f[S.el[x].next]]

LEMMA UpFacts ==
    ASSUME NEW S, IsList(S), NEW r \in Rank, Ranked(S, r), NEW x \in S.hash
    PROVE  /\ x = S.head => \A y \in S.hash : r[x] <= r[y] <=> y = x
           /\ x # S.head => /\ S.el[x].next \in S.hash
                            /\ r[x] < r[S.el[x].next]
                            /\ \A y \in S.hash :
                                  r[x] <= r[y] <=> y = x \/ r[S.el[x].next] <= r[y]
<1>1. /\ \A y \in S.hash : r[y] \in Nat
      /\ \A y, z \in S.hash : r[y] = r[z] => y = z
      /\ (S.el[x].next = NULL /\ Last(S.hash, r, x))
         \/ Successor(S.hash, r, x, S.el[x].next)
      /\ Last(S.hash, r, S.head)
    BY RankFacts
<1>2. ASSUME x = S.head
      PROVE  \A y \in S.hash : r[x] <= r[y] <=> y = x
    BY <1>1, <1>2 DEF Last
<1>3. ASSUME x # S.head
      PROVE  Successor(S.hash, r, x, S.el[x].next)
    BY <1>1, <1>3 DEF Last
<1>4. ASSUME x # S.head
      PROVE  /\ S.el[x].next \in S.hash
             /\ r[x] < r[S.el[x].next]
             /\ \A y \in S.hash :
                   r[x] <= r[y] <=> y = x \/ r[S.el[x].next] <= r[y]
    <2> DEFINE n == S.el[x].next
    <2>1. /\ n \in S.hash /\ r[x] < r[n]
          /\ \A z \in S.hash : r[z] <= r[x] \/ r[n] <= r[z]
        BY <1>3, <1>4 DEF Successor
    <2> HIDE DEF n
    <2>2. \A y \in S.hash : r[x] <= r[y] <=> y = x \/ r[n] <= r[y]
        BY <1>1, <2>1
    <2> QED
        BY <2>1, <2>2 DEF n
<1> QED
    BY <1>2, <1>4

LEMMA DueWalkExists ==
    ASSUME NEW S, IsList(S), NEW t \in Nat
    PROVE  \E f : DueWalks(S, t, f)
<1> DEFINE H == S.hash
           E == Expired(S, t)
<1>1. PICK r \in Rank : Ranked(S, r)
    BY DEF IsList
<1> DEFINE g == [x \in Object \cup {NULL} |->
                    IF x = NULL THEN {}
                    ELSE IF x \in H THEN {y \in E : r[x] <= r[y]} ELSE {x}]
<1>2. /\ H \subseteq Object /\ NULL \notin Object
      /\ \A x \in H : r[x] \in Nat
      /\ \A x \in Object \ H : S.el[x].next = NULL /\ S.el[x].purge_time = 0
      /\ \A x \in H : S.el[x].purge_time \in Nat
      /\ \A x, y \in H :
            r[x] <= r[y] => S.el[x].purge_time <= S.el[y].purge_time
      /\ S.head \in H \/ S.head = NULL
    BY <1>1, RankFacts DEF Last
<1>3. \A y : y \in E <=> y \in H /\ S.el[y].purge_time <= t
    BY DEF Expired
<1>4. /\ g[NULL] = {}
      /\ \A x \in H : g[x] = {y \in E : r[x] <= r[y]}
      /\ \A x \in Object \ H : g[x] = {x}
    BY <1>2
<1>5. ASSUME NEW x \in H, S.el[x].purge_time > t
      PROVE  g[x] = {}
    <2>1. \A y \in E : ~(r[x] <= r[y])
        BY <1>2, <1>3, <1>5
    <2> QED
        BY <1>4, <2>1
<1>6. ASSUME NEW x \in H, ~(S.el[x].purge_time > t), x = S.head
      PROVE  g[x] = {x}
    <2>1. \A y \in H : r[x] <= r[y] <=> y = x
        BY <1>1, <1>6, UpFacts
    <2>2. x \in E
        BY <1>2, <1>3, <1>6
    <2>3. {y \in E : r[x] <= r[y]} = {x}
        BY <1>3, <2>1, <2>2
    <2> HIDE DEF g
    <2> QED
        BY <1>4, <2>3
<1>7. ASSUME NEW x \in H, ~(S.el[x].purge_time > t), x # S.head
      PROVE  g[x] = {x} \cup g[S.el[x].next]
    <2> DEFINE n == S.el[x].next
    <2>1. n \in H /\ \A y \in H : r[x] <= r[y] <=> y = x \/ r[n] <= r[y]
        BY <1>1, <1>7, UpFacts
    <2>2. x \in E
        BY <1>2, <1>3, <1>7
    <2> HIDE DEF n
    <2>3. g[x] = {x} \cup g[n]
        <3>1. {y \in E : r[x] <= r[y]} = {x} \cup {y \in E : r[n] <= r[y]}
            BY <1>3, <2>1, <2>2
        <3> HIDE DEF g
        <3> QED
            BY <1>4, <2>1, <3>1
    <2> QED
        BY <2>3 DEF n
<1>8. ASSUME NEW x \in Object \cup {NULL}
      PROVE  g[x] = IF x = NULL \/ S.el[x].purge_time > t THEN {}
                    ELSE IF x = S.head THEN {x} ELSE {x} \cup g[S.el[x].next]
    <2>1. CASE x = NULL
        BY <1>4, <2>1
    <2>2. CASE x \in H
        <3>1. x # NULL
            BY <1>2, <2>2
        <3> HIDE DEF g
        <3> QED
            BY <1>5, <1>6, <1>7, <2>2, <3>1
    <2>3. CASE x \in Object \ H
        <3>1. /\ g[x] = {x} /\ S.el[x].next = NULL /\ g[NULL] = {}
              /\ ~(S.el[x].purge_time > t) /\ x # NULL
              /\ x # S.head
            BY <1>2, <1>4, <2>3
        <3> HIDE DEF g
        <3> QED
            BY <3>1
    <2> QED
        BY <2>1, <2>2, <2>3
<1>9. DueWalks(S, t, g)
    <2>1. g = [x \in Object \cup {NULL} |-> g[x]]
        OBVIOUS
    <2> HIDE DEF g
    <2> QED
        BY <1>8, <2>1 DEF DueWalks
<1> QED
    BY <1>9

\* The walk of timeslot_purgeobjects unlinks exactly what has expired.
LEMMA DueExpired ==
    ASSUME NEW S, IsList(S), NEW t \in Nat
    PROVE  Due(S, t) = Expired(S, t)
<1> DEFINE from[x \in Object \cup {NULL}] ==
               IF x = NULL \/ S.el[x].purge_time > t THEN {}
               ELSE IF x = S.head THEN {x} ELSE {x} \cup from[S.el[x].next]
           H == S.hash
           E == Expired(S, t)
<1>1. DueWalks(S, t, from)
    <2>1. PICK f : DueWalks(S, t, f)
        BY DueWalkExists
    <2> QED
        BY <2>1 DEF DueWalks
<1>2. Due(S, t) = from[S.tail]
    BY DEF Due
<1> HIDE DEF from
<1>3. PICK r \in Rank : Ranked(S, r)
    BY DEF IsList
<1>4. /\ H \subseteq Object /\ NULL \notin Object
      /\ \A x \in H : r[x] \in Nat
      /\ \A x \in H : S.el[x].purge_time \in Nat
      /\ \A x, y \in H :
            r[x] <= r[y] => S.el[x].purge_time <= S.el[y].purge_time
      /\ (S.head = NULL /\ H = {}) \/ Last(H, r, S.head)
      /\ (S.tail = NULL /\ H = {}) \/ First(H, r, S.tail)
    BY <1>3, RankFacts
<1>5. \A y : y \in E <=> y \in H /\ S.el[y].purge_time <= t
    BY DEF Expired
<1> DEFINE Good == {x \in H : from[x] = {y \in E : r[x] <= r[y]}}
<1>6. ASSUME NEW x \in H, \A y \in H : r[x] < r[y] => y \in Good
      PROVE  x \in Good
    <2>1. from[x] = IF x = NULL \/ S.el[x].purge_time > t THEN {}
                    ELSE IF x = S.head THEN {x} ELSE {x} \cup from[S.el[x].next]
        BY <1>1, <1>4, <1>6 DEF DueWalks
    <2>2. x # NULL
        BY <1>4
    <2>3. CASE S.el[x].purge_time > t
        <3>1. \A y \in E : ~(r[x] <= r[y])
            BY <1>4, <1>5, <2>3
        <3> QED
            BY <2>1, <2>3, <3>1
    <2>4. CASE ~(S.el[x].purge_time > t) /\ x = S.head
        <3>1. \A y \in H : r[x] <= r[y] <=> y = x
            BY <1>3, <2>4, UpFacts
        <3>2. x \in E
            BY <1>4, <1>5, <2>4
        <3> QED
            BY <2>1, <2>2, <2>4, <1>5, <3>1, <3>2
    <2>5. CASE ~(S.el[x].purge_time > t) /\ x # S.head
        <3> DEFINE n == S.el[x].next
        <3>1. n \in H /\ r[x] < r[n]
              /\ \A y \in H : r[x] <= r[y] <=> y = x \/ r[n] <= r[y]
            BY <1>3, <2>5, UpFacts
        <3>2. x \in E
            BY <1>4, <1>5, <2>5
        <3>3. from[x] = {x} \cup from[n]
            BY <2>1, <2>2, <2>5
        <3> HIDE DEF n
        <3>4. from[n] = {y \in E : r[n] <= r[y]}
            BY <3>1, <1>6
        <3>5. {y \in E : r[x] <= r[y]} = {x} \cup {y \in E : r[n] <= r[y]}
            BY <1>5, <3>1, <3>2
        <3> QED
            BY <3>3, <3>4, <3>5
    <2> QED
        BY <2>3, <2>4, <2>5
<1>7. CASE H = {}
    <2>1. S.tail = NULL
        BY <1>7, <1>4 DEF First
    <2>2. from[NULL] = {}
        BY <1>1 DEF DueWalks
    <2> QED
        BY <1>2, <1>5, <1>7, <2>1, <2>2
<1>8. CASE H # {}
    <2>1. S.head \in H /\ \A x \in H : r[x] <= r[S.head]
        BY <1>4, <1>8 DEF Last
    <2>2. H \subseteq Good
        <3> DEFINE b == r[S.head]
        <3>1. b \in Nat /\ \A x \in H : r[x] <= b
            BY <1>4, <2>1
        <3> HIDE DEF Good, H, b
        <3> QED
            BY <1>4, <1>6, <3>1, GoodFromAbove
    <2>3. S.tail \in H /\ \A x \in H : r[S.tail] <= r[x]
        BY <1>4, <1>8 DEF First
    <2> QED
        BY <1>2, <1>5, <2>2, <2>3
<1> QED
    BY <1>7, <1>8

LEMMA TailWalkExists ==
    ASSUME NEW S, IsList(S), NEW t \in Nat
    PROVE  \E f : TailWalks(S, t, f)
<1> DEFINE H == S.hash
           Stay == H \ Expired(S, t)
<1>1. PICK r \in Rank : Ranked(S, r)
    BY DEF IsList
<1> DEFINE Up(x) == {y \in Stay : r[x] <= r[y]}
           Least(x) == IF Up(x) = {} THEN NULL
                       ELSE CHOOSE y \in Up(x) : \A z \in Up(x) : r[y] <= r[z]
           g == [x \in Object \cup {NULL} |-> IF x \in H THEN Least(x) ELSE NULL]
<1>2. /\ H \subseteq Object /\ NULL \notin Object
      /\ \A x \in H : r[x] \in Nat
      /\ \A x, y \in H : r[x] = r[y] => x = y
      /\ \A x \in Object \ H : S.el[x].next = NULL /\ S.el[x].purge_time = 0
      /\ \A x \in H : S.el[x].purge_time \in Nat
      /\ S.head \in H \/ S.head = NULL
    BY <1>1, RankFacts DEF Last
<1>3. \A y : y \in Stay <=> y \in H /\ ~(S.el[y].purge_time <= t)
    BY DEF Expired
<1> HIDE DEF Stay
<1>4. /\ g[NULL] = NULL
      /\ \A x \in H : g[x] = Least(x)
      /\ \A x \in Object \ H : g[x] = NULL
    BY <1>2
<1>5. ASSUME NEW x \in H, S.el[x].purge_time > t
      PROVE  g[x] = x
    <2>1. x \in Up(x) /\ \A z \in Up(x) : r[x] <= r[z]
        BY <1>2, <1>3, <1>5
    <2>2. \A y \in Up(x) : (\A z \in Up(x) : r[y] <= r[z]) => y = x
        BY <1>2, <1>3, <2>1
    <2>3. Least(x) = x
        <3> HIDE DEF Up
        <3> QED
            BY <2>1, <2>2
    <2> HIDE DEF g, Least
    <2> QED
        BY <1>4, <2>3
<1>6. ASSUME NEW x \in H, ~(S.el[x].purge_time > t), x = S.head
      PROVE  g[x] = NULL
    <2>1. \A y \in H : r[x] <= r[y] <=> y = x
        BY <1>1, <1>6, UpFacts
    <2>2. x \notin Stay
        BY <1>2, <1>3, <1>6
    <2>3. Up(x) = {}
        BY <1>3, <2>1, <2>2
    <2>4. Least(x) = NULL
        BY <2>3
    <2> HIDE DEF g, Least
    <2> QED
        BY <1>4, <2>4
<1>7. ASSUME NEW x \in H, ~(S.el[x].purge_time > t), x # S.head
      PROVE  g[x] = g[S.el[x].next]
    <2> DEFINE n == S.el[x].next
    <2>1. n \in H /\ \A y \in H : r[x] <= r[y] <=> y = x \/ r[n] <= r[y]
        BY <1>1, <1>7, UpFacts
    <2>2. x \notin Stay
        BY <1>2, <1>3, <1>7
    <2> HIDE DEF n
    <2>3. Up(x) = Up(n)
        BY <1>3, <2>1, <2>2
    <2>4. Least(x) = Least(n)
        <3> HIDE DEF Up
        <3> QED
            BY <2>3
    <2>5. g[x] = g[n]
        <3> HIDE DEF g, Least
        <3> QED
            BY <1>4, <2>1, <2>4
    <2> QED
        BY <2>5 DEF n
<1>8. ASSUME NEW x \in Object \cup {NULL}
      PROVE  g[x] = IF x = NULL \/ S.el[x].purge_time > t THEN x
                    ELSE IF x = S.head THEN NULL ELSE g[S.el[x].next]
    <2>1. CASE x = NULL
        <3> HIDE DEF g
        <3> QED
            BY <1>4, <2>1
    <2>2. CASE x \in H
        <3>1. x # NULL
            BY <1>2, <2>2
        <3> HIDE DEF g
        <3> QED
            BY <1>5, <1>6, <1>7, <2>2, <3>1
    <2>3. CASE x \in Object \ H
        <3> HIDE DEF g
        <3>1. /\ g[x] = NULL /\ S.el[x].next = NULL /\ g[NULL] = NULL
              /\ ~(S.el[x].purge_time > t) /\ x # NULL
              /\ x # S.head
            BY <1>2, <1>4, <2>3
        <3> QED
            BY <3>1
    <2> QED
        BY <2>1, <2>2, <2>3
<1>9. TailWalks(S, t, g)
    <2>1. g = [x \in Object \cup {NULL} |-> g[x]]
        OBVIOUS
    <2> HIDE DEF g
    <2> QED
        BY <1>8, <2>1 DEF TailWalks
<1> QED
    BY <1>9

\* ... and leaves the first element that has not expired as the tail.
LEMMA NewTailFirst ==
    ASSUME NEW S, IsList(S), NEW t \in Nat, NEW r \in Rank, Ranked(S, r)
    PROVE  \/ NewTail(S, t) = NULL /\ S.hash \ Expired(S, t) = {}
           \/ First(S.hash \ Expired(S, t), r, NewTail(S, t))
<1> DEFINE from[x \in Object \cup {NULL}] ==
               IF x = NULL \/ S.el[x].purge_time > t THEN x
               ELSE IF x = S.head THEN NULL ELSE from[S.el[x].next]
           H == S.hash
           Stay == S.hash \ Expired(S, t)
<1>1. TailWalks(S, t, from)
    <2>1. PICK f : TailWalks(S, t, f)
        BY TailWalkExists
    <2> QED
        BY <2>1 DEF TailWalks
<1>2. NewTail(S, t) = from[S.tail]
    BY DEF NewTail
<1> HIDE DEF from
<1>3. /\ H \subseteq Object /\ NULL \notin Object
      /\ \A x \in H : r[x] \in Nat
      /\ \A x \in H : S.el[x].purge_time \in Nat
      /\ \A x, y \in H :
            r[x] <= r[y] => S.el[x].purge_time <= S.el[y].purge_time
      /\ (S.head = NULL /\ H = {}) \/ Last(H, r, S.head)
      /\ (S.tail = NULL /\ H = {}) \/ First(H, r, S.tail)
    BY RankFacts
<1>4. \A y : y \in Stay <=> y \in H /\ ~(S.el[y].purge_time <= t)
    BY DEF Expired
<1> HIDE DEF Stay
<1> DEFINE Up(x) == {y \in Stay : r[x] <= r[y]}
           Good == {x \in H : \/ from[x] = NULL /\ Up(x) = {}
                              \/ from[x] \in Up(x)
                                 /\ \A z \in Up(x) : r[from[x]] <= r[z]}
<1>5. ASSUME NEW x \in H, \A y \in H : r[x] < r[y] => y \in Good
      PROVE  x \in Good
    <2>1. from[x] = IF x = NULL \/ S.el[x].purge_time > t THEN x
                    ELSE IF x = S.head THEN NULL ELSE from[S.el[x].next]
        BY <1>1, <1>3, <1>5 DEF TailWalks
    <2>2. x # NULL
        BY <1>3
    <2>3. CASE S.el[x].purge_time > t
        <3>1. from[x] = x
            BY <2>1, <2>3
        <3>2. x \in Up(x)
            BY <1>3, <1>4, <2>3
        <3> QED
            BY <3>1, <3>2
    <2>4. CASE ~(S.el[x].purge_time > t) /\ x = S.head
        <3>1. \A y \in H : r[x] <= r[y] <=> y = x
            BY <2>4, UpFacts
        <3>2. x \notin Stay
            BY <1>3, <1>4, <2>4
        <3>3. Up(x) = {}
            BY <1>4, <3>1, <3>2
        <3>4. from[x] = NULL
            BY <2>1, <2>2, <2>4
        <3> QED
            BY <3>3, <3>4
    <2>5. CASE ~(S.el[x].purge_time > t) /\ x # S.head
        <3> DEFINE n == S.el[x].next
        <3>1. n \in H /\ r[x] < r[n]
              /\ \A y \in H : r[x] <= r[y] <=> y = x \/ r[n] <= r[y]
            BY <2>5, UpFacts
        <3>2. x \notin Stay
            BY <1>3, <1>4, <2>5
        <3>3. from[x] = from[n]
            BY <2>1, <2>2, <2>5
        <3> HIDE DEF n
        <3>4. n \in Good
            BY <3>1, <1>5
        <3>5. Up(x) = Up(n)
            BY <1>4, <3>1, <3>2
        <3> HIDE DEF Up
        <3> QED
            BY <3>3, <3>4, <3>5
    <2> QED
        BY <2>3, <2>4, <2>5
<1>6. CASE H = {}
    <2>1. S.tail = NULL
        BY <1>6, <1>3 DEF First
    <2>2. from[NULL] = NULL
        BY <1>1 DEF TailWalks
    <2> QED
        BY <1>2, <1>6, <2>1, <2>2
<1>7. CASE H # {}
    <2>1. S.head \in H /\ \A x \in H : r[x] <= r[S.head]
        BY <1>3, <1>7 DEF Last
    <2>2. H \subseteq Good
        <3> DEFINE b == r[S.head]
        <3>1. b \in Nat /\ \A x \in H : r[x] <= b
            BY <1>3, <2>1
        <3> HIDE DEF Good, H, b
        <3> QED
            BY <1>3, <1>5, <3>1, GoodFromAbove
    <2>3. S.tail \in H /\ \A x \in H : r[S.tail] <= r[x]
        BY <1>3, <1>7 DEF First
    <2>4. Up(S.tail) = Stay
        BY <1>4, <2>3
    <2> HIDE DEF Up
    <2>5. \/ NewTail(S, t) = NULL /\ Stay = {}
          \/ First(Stay, r, NewTail(S, t))
        BY <1>2, <2>2, <2>3, <2>4 DEF First
    <2> QED
        BY <2>5 DEF Stay
<1> QED
    BY <1>6, <1>7

-----------------------------------------------------------------------------

\* T is S without what has expired at t.
Purged(S, t, T) ==
    /\ IsList(T)
    /\ T.hash = S.hash \ Expired(S, t)
    /\ \A x \in T.hash : T.el[x].purge_time = S.el[x].purge_time

LEMMA PurgePurged ==
    ASSUME NEW S, IsList(S), NEW t \in Nat
    PROVE  Purged(S, t, Purge(S, t))
<1> DEFINE H == S.hash
           D == Expired(S, t)
           G == S.hash \ Expired(S, t)
           T == Purge(S, t)
           n == NewTail(S, t)
           Elem == [prev : Pointer, next : Pointer, purge_time : Nat]
<1>1. PICK r \in Rank : Ranked(S, r)
    BY DEF IsList
<1>2. /\ H \subseteq Object /\ NULL \notin Object
      /\ \A x \in H : r[x] \in Nat
      /\ \A x, y \in H : r[x] = r[y] => x = y
      /\ \A x \in H : (S.el[x].next = NULL /\ Last(H, r, x))
                      \/ Successor(H, r, x, S.el[x].next)
      /\ \A x \in H : (S.el[x].prev = NULL /\ First(H, r, x))
                      \/ Successor(H, r, S.el[x].prev, x)
      /\ \A x \in H : S.el[x].purge_time \in Nat
      /\ (S.head = NULL /\ H = {}) \/ Last(H, r, S.head)
      /\ \A x, y \in H :
            r[x] <= r[y] => S.el[x].purge_time <= S.el[y].purge_time
    BY <1>1, RankFacts
<1>3. (n = NULL /\ G = {}) \/ First(G, r, n)
    BY <1>1, NewTailFirst
<1>4. /\ T.el = [x \in Object |->
                    IF x \in D THEN Free
                    ELSE IF D # {} /\ x = n THEN [S.el[x] EXCEPT !.prev = NULL]
                    ELSE S.el[x]]
      /\ T.head = IF S.head \in D THEN NULL ELSE S.head
      /\ T.tail = n
      /\ T.size = S.size - Cardinality(D)
      /\ T.hash = G
      /\ T = [el |-> T.el, head |-> T.head, tail |-> T.tail, size |-> T.size,
              hash |-> T.hash]
    <2> HIDE DEF n
    <2> QED
        BY DueExpired DEF Purge, n
<1>5. /\ S.size = Cardinality(H)
      /\ \A x \in Object : S.el[x] \in Elem
      /\ \A x \in Object \ H : S.el[x] = Free
      /\ S.head \in Pointer
    BY ListTyped
<1>6. /\ \A y : y \in D <=> y \in H /\ S.el[y].purge_time <= t
      /\ \A y : y \in G <=> y \in H /\ ~(S.el[y].purge_time <= t)
    BY DEF Expired
<1> HIDE DEF T, n, D, G, H
<1>7. T.size = Cardinality(G) /\ T.size \in Nat
    <2>1. IsFiniteSet(H)
        BY <1>2, FS_Subset, TimeslotAssumption
    <2>2. H \ D = G /\ H \cap D = D
        BY <1>6
    <2>3. IsFiniteSet(H \ D)
          /\ Cardinality(H \ D) = Cardinality(H) - Cardinality(H \cap D)
        BY <2>1, FS_Difference
    <2>4. Cardinality(G) \in Nat
        BY <2>2, <2>3, FS_CardinalityType
    <2> QED
        BY <2>2, <2>3, <2>4, <1>4, <1>5
<1>8. ASSUME NEW x \in G
      PROVE  /\ T.el[x].next = S.el[x].next
             /\ T.el[x].prev = IF D # {} /\ x = n THEN NULL ELSE S.el[x].prev
             /\ T.el[x].purge_time = S.el[x].purge_time
             /\ T.el[x] \in Elem
    <2>1. x \in Object /\ x \notin D /\ S.el[x] \in Elem
        BY <1>2, <1>5, <1>6
    <2>2. T.el[x] = IF D # {} /\ x = n THEN [S.el[x] EXCEPT !.prev = NULL]
                    ELSE S.el[x]
        BY <1>4, <2>1
    <2>3. CASE D # {} /\ x = n
        BY <2>1, <2>2, <2>3 DEF Pointer
    <2>4. CASE ~(D # {} /\ x = n)
        BY <2>1, <2>2, <2>4
    <2> QED
        BY <2>3, <2>4
<1>9. ASSUME NEW x \in Object \ G
      PROVE  T.el[x] = Free
    <2>1. CASE x \in D
        BY <1>4, <2>1
    <2>2. CASE x \notin D
        <3>1. x \notin H
            BY <1>6, <1>9, <2>2
        <3>2. x # n
            BY <1>2, <1>3, <1>9 DEF First
        <3> QED
            BY <1>4, <1>5, <2>2, <3>1, <3>2
    <2> QED
        BY <2>1, <2>2
<1>10. T.el \in [Object -> Elem]
    <2>1. Free \in Elem
        BY DEF Free, Pointer
    <2>2. T.el = [x \in Object |-> T.el[x]]
        BY <1>4
    <2>3. \A x \in Object : T.el[x] \in Elem
        BY <2>1, <1>8, <1>9
    <2> HIDE DEF Elem
    <2> QED
        BY <2>2, <2>3
<1>11. Typed(T)
    <2>1. T.head \in Pointer /\ T.tail \in Pointer /\ T.hash \in SUBSET Object
        BY <1>2, <1>3, <1>4, <1>5, <1>6 DEF Pointer, First
    <2> QED
        BY <2>1, <1>4, <1>7, <1>10 DEF Typed
<1>12. ASSUME NEW x \in G
       PROVE  (T.el[x].next = NULL /\ Last(G, r, x))
              \/ Successor(G, r, x, T.el[x].next)
    <2>1. x \in H /\ T.el[x].next = S.el[x].next
        BY <1>6, <1>8
    <2>2. CASE S.el[x].next = NULL /\ Last(H, r, x)
        BY <2>1, <2>2, <1>6, <1>12 DEF Last
    <2>3. CASE Successor(H, r, x, S.el[x].next)
        <3> DEFINE y == S.el[x].next
        <3>1. y \in H /\ r[x] < r[y]
              /\ \A z \in H : r[z] <= r[x] \/ r[y] <= r[z]
            BY <2>3 DEF Successor
        <3> HIDE DEF y
        <3>2. S.el[x].purge_time <= S.el[y].purge_time
            BY <1>2, <2>1, <3>1
        <3>3. y \in G
            BY <1>2, <1>6, <1>12, <2>1, <3>1, <3>2
        <3>4. \A z \in G : r[z] <= r[x] \/ r[y] <= r[z]
            BY <1>6, <3>1
        <3>5. Successor(G, r, x, y)
            BY <1>12, <3>1, <3>3, <3>4 DEF Successor
        <3> QED
            BY <2>1, <3>5 DEF y
    <2> QED
        BY <1>2, <2>1, <2>2, <2>3
<1>13. ASSUME NEW x \in G
       PROVE  (T.el[x].prev = NULL /\ First(G, r, x))
              \/ Successor(G, r, T.el[x].prev, x)
    <2>1. x \in H
          /\ T.el[x].prev = IF D # {} /\ x = n THEN NULL ELSE S.el[x].prev
        BY <1>6, <1>8
    <2>2. First(G, r, n)
        BY <1>3, <1>13
    <2>3. CASE S.el[x].prev = NULL /\ First(H, r, x)
        BY <2>1, <2>3, <1>6, <1>13 DEF First
    <2>4. CASE Successor(H, r, S.el[x].prev, x)
        <3> DEFINE y == S.el[x].prev
        <3>1. y \in H /\ r[y] < r[x]
              /\ \A z \in H : r[z] <= r[y] \/ r[x] <= r[z]
            BY <2>4 DEF Successor
        <3> HIDE DEF y
        <3>2. CASE y \in G
            <4>1. x # n
                BY <2>2, <3>1, <3>2, <1>2, <2>1 DEF First
            <4>2. T.el[x].prev = y
                BY <2>1, <4>1 DEF y
            <4>3. \A z \in G : r[z] <= r[y] \/ r[x] <= r[z]
                BY <1>6, <3>1
            <4> QED
                BY <4>2, <4>3, <3>1, <3>2, <1>13 DEF Successor
        <3>3. CASE y \notin G
            <4>1. y \in D /\ S.el[y].purge_time <= t
                BY <1>6, <3>1, <3>3
            <4>2. \A z \in G : ~(r[z] <= r[y])
                BY <1>2, <1>6, <3>1, <4>1
            <4>3. \A z \in G : r[x] <= r[z]
                BY <1>6, <3>1, <4>2
            <4>4. n = x
                BY <4>3, <2>2, <1>2, <1>6, <1>13, <2>1 DEF First
            <4>5. T.el[x].prev = NULL
                BY <2>1, <4>1, <4>4
            <4> QED
                BY <4>3, <4>5, <1>13 DEF First
        <3> QED
            BY <3>2, <3>3
    <2> QED
        BY <1>2, <2>1, <2>3, <2>4
<1>14. (T.head = NULL /\ G = {}) \/ Last(G, r, T.head)
    <2>1. CASE H = {}
        BY <2>1, <1>2, <1>4, <1>6 DEF Last
    <2>2. CASE H # {} /\ S.head \in D
        <3>1. \A x \in H : r[x] <= r[S.head] /\ S.head \in H
            BY <2>2, <1>2 DEF Last
        <3>2. \A x \in H : S.el[x].purge_time <= S.el[S.head].purge_time
            BY <1>2, <3>1
        <3>3. \A x \in H : S.el[x].purge_time <= t
            BY <1>2, <1>6, <2>2, <3>1, <3>2
        <3> QED
            BY <1>4, <1>6, <2>2, <3>3
    <2>3. CASE H # {} /\ S.head \notin D
        BY <2>3, <1>2, <1>4, <1>6 DEF Last
    <2> QED
        BY <2>1, <2>2, <2>3
<1>15. /\ \A x, y \in G : r[x] = r[y] => x = y
       /\ \A x, y \in G :
             r[x] <= r[y] => T.el[x].purge_time <= T.el[y].purge_time
    BY <1>2, <1>6, <1>8
<1>16. Ranked(T, r)
    BY <1>3, <1>4, <1>12, <1>13, <1>14, <1>15 DEF Ranked
<1>17. IsList(T)
    BY <1>4, <1>7, <1>9, <1>11, <1>16 DEF IsList
<1> QED
    BY <1>4, <1>8, <1>17 DEF Purged, T, G
-----------------------------------------------------------------------------

\* T is S without o.
Withdrawn(S, o, T) ==
    /\ IsList(T)
    /\ T.hash = S.hash \ {o}
    /\ \A x \in T.hash : T.el[x].purge_time = S.el[x].purge_time

LEMMA DeleteWithdrawn ==
    ASSUME NEW S, IsList(S), NEW o \in Object
    PROVE  Withdrawn(S, o, Delete(S, o))
<1>1. CASE o \in S.hash
    <2> DEFINE T == Unlink(S, o)
    <2>1. IsList(T)
        BY <1>1, UnlinkList
    <2>2. Unlinked(S, o, T)
        BY <1>1, UnlinkFields
    <2>3. S.hash \subseteq Object
        BY ListTyped
    <2>4. Delete(S, o) = T
        BY <1>1 DEF Delete
    <2> HIDE DEF T
    <2> QED
        BY <2>1, <2>2, <2>3, <2>4 DEF Withdrawn, Unlinked
<1>2. CASE o \notin S.hash
    <2>1. Delete(S, o) = S /\ S.hash = S.hash \ {o}
        BY <1>2 DEF Delete
    <2> QED
        BY <2>1 DEF Withdrawn
<1> QED
    BY <1>1, <1>2

LEMMA EmptyList ==
    ASSUME NEW S, IsList(S)
    PROVE  S.size = 0 <=> S.hash = {}
<1>1. S.hash \subseteq Object /\ S.size = Cardinality(S.hash)
    BY ListTyped
<1>2. IsFiniteSet(S.hash)
    BY <1>1, FS_Subset, TimeslotAssumption
<1> QED
    BY <1>1, <1>2, FS_EmptySet

\* What timeslot_addobject leaves: o is alone, or what has ended is gone.
Added(S, o, t, now0, T, gone) ==
    \E D, I :
       /\ Withdrawn(S, o, D)
       /\ Granted(D, o, t, I)
       /\ IF D.hash = {} THEN T = I /\ gone = {}
          ELSE Purged(I, now0, T) /\ gone = Expired(I, now0)

LEMMA AddObjectAdded ==
    ASSUME IsList(ts), now \in Nat,
           NEW o \in Object, NEW stamp \in 0..now, NEW lifetime \in Lifetime,
           AddObject(o, stamp, lifetime)
    PROVE  Added(ts, o, stamp + lifetime, now, ts', purged') /\ now' = now
<1> DEFINE D == Delete(ts, o)
           t == stamp + lifetime
           I == Insert(D, o, t)
           J == Single(D, o, t)
           P == Purge(I, now)
           E == Due(I, now)
<1>1. Withdrawn(ts, o, D)
    BY DeleteWithdrawn
<1>2. t \in Nat
    BY TimeslotAssumption
<1>3. IF D.size = 0 THEN ts' = J /\ purged' = {} ELSE ts' = P /\ purged' = E
    BY DEF AddObject
<1>4. now' = now
    BY DEF AddObject
<1> HIDE DEF D, t
<1>5. IsList(D) /\ o \in Object \ D.hash
    BY <1>1 DEF Withdrawn
<1>6. D.size = 0 <=> D.hash = {}
    BY <1>5, EmptyList
<1>7. CASE D.hash = {}
    <2>1. Granted(D, o, t, J)
        BY <1>2, <1>5, <1>7, SingleGranted
    <2> HIDE DEF J
    <2> QED
        BY <1>1, <1>3, <1>4, <1>6, <1>7, <2>1 DEF Added, t
<1>8. CASE D.hash # {}
    <2>1. Granted(D, o, t, I)
        BY <1>2, <1>5, <1>8, InsertGranted
    <2> HIDE DEF I
    <2>2. IsList(I)
        BY <2>1 DEF Granted
    <2>3. Purged(I, now, P) /\ E = Expired(I, now)
        BY <2>2, PurgePurged, DueExpired
    <2> HIDE DEF P, E
    <2> QED
        BY <1>1, <1>3, <1>4, <1>6, <1>8, <2>1, <2>3 DEF Added, t
<1> QED
    BY <1>7, <1>8

LEMMA PurgeObjectsPurged ==
    ASSUME IsList(ts), now \in Nat, NEW stamp \in 0..now, PurgeObjects(stamp)
    PROVE  Purged(ts, stamp, ts') /\ purged' = Expired(ts, stamp) /\ now' = now
<1>1. stamp \in Nat
    OBVIOUS
<1>2. ts' = Purge(ts, stamp) /\ purged' = Due(ts, stamp) /\ now' = now
    BY DEF PurgeObjects
<1> QED
    BY <1>1, <1>2, PurgePurged, DueExpired

LEMMA InitTsInv == TsInit => TsInv
<1> SUFFICES ASSUME TsInit PROVE TsInv
    OBVIOUS
<1> DEFINE r == [x \in Object |-> 0]
<1>1. /\ ts.el = [o \in Object |-> Free] /\ ts.head = NULL /\ ts.tail = NULL
      /\ ts.size = 0 /\ ts.hash = {} /\ purged = {} /\ now = 0
    BY DEF TsInit
<1>2. Free \in [prev : Pointer, next : Pointer, purge_time : Nat]
    BY DEF Free, Pointer
<1>3. Typed(ts)
    BY <1>2 DEF TsInit, Typed, Pointer
<1>4. Cardinality({}) = 0
    BY FS_EmptySet
<1>5. r \in Rank /\ Ranked(ts, r)
    BY <1>1 DEF Rank, Ranked
<1>6. IsList(ts)
    <2> HIDE DEF r
    <2> QED
        BY <1>1, <1>3, <1>4, <1>5 DEF IsList
<1> QED
    BY <1>1, <1>6, TimeslotAssumption DEF TsInv

LEMMA NextTsInv == TsInv /\ [TsNext]_tsVars => TsInv'
<1> SUFFICES ASSUME TsInv, [TsNext]_tsVars PROVE TsInv'
    OBVIOUS
<1>1. /\ IsList(ts) /\ purged \in SUBSET Object
      /\ now \in 0..MaxTime /\ MaxTime \in Nat /\ now \in Nat
      /\ ts.hash \subseteq Object
    BY ListTyped, TimeslotAssumption DEF TsInv
<1>2. ASSUME NEW o \in Object, NEW stamp \in 0..now, NEW lifetime \in Lifetime,
             AddObject(o, stamp, lifetime)
      PROVE  TsInv'
    <2>1. Added(ts, o, stamp + lifetime, now, ts', purged') /\ now' = now
        BY <1>1, <1>2, AddObjectAdded
    <2>2. IsList(ts')
        BY <2>1 DEF Added, Granted, Purged
    <2>3. purged' \in SUBSET Object
        <3>1. PICK D, I : /\ Granted(D, o, stamp + lifetime, I)
                          /\ purged' = {} \/ purged' = Expired(I, now)
            BY <2>1 DEF Added
        <3>2. I.hash \subseteq Object
            BY <3>1, ListTyped DEF Granted
        <3> QED
            BY <3>1, <3>2 DEF Expired
    <2> QED
        BY <1>1, <2>1, <2>2, <2>3 DEF TsInv
<1>3. ASSUME NEW o \in Object, DeleteObject(o)
      PROVE  TsInv'
    <2>1. ts' = Delete(ts, o) /\ purged' = {} /\ now' = now
        BY <1>3 DEF DeleteObject
    <2>2. IsList(ts')
        BY <1>1, <2>1, DeleteWithdrawn DEF Withdrawn
    <2> QED
        BY <1>1, <2>1, <2>2 DEF TsInv
<1>4. ASSUME NEW stamp \in 0..now, PurgeObjects(stamp)
      PROVE  TsInv'
    <2>1. Purged(ts, stamp, ts') /\ purged' = Expired(ts, stamp) /\ now' = now
        BY <1>1, <1>4, PurgeObjectsPurged
    <2>2. IsList(ts')
        BY <2>1 DEF Purged
    <2>3. purged' \in SUBSET Object
        BY <1>1, <2>1 DEF Expired
    <2> QED
        BY <1>1, <2>1, <2>2, <2>3 DEF TsInv
<1>5. CASE Tick
    <2>1. ts' = ts /\ purged' = {} /\ now' = now + 1 /\ now < MaxTime
        BY <1>5 DEF Tick
    <2> QED
        BY <1>1, <2>1 DEF TsInv
<1>6. CASE UNCHANGED tsVars
    BY <1>1, <1>6 DEF tsVars, TsInv
<1> QED
    BY <1>2, <1>3, <1>4, <1>5, <1>6 DEF TsNext

\* Every timeslot_addobject, timeslot_deleteobject and timeslot_purgeobjects
\* leaves the list linked in both directions, sorted, and equal to the hash.
THEOREM TimeslotLinked == TsSpec => []Linked
<1>1. TsInv => Linked
    BY ListLinked DEF TsInv
<1> QED
    BY <1>1, InitTsInv, NextTsInv, PTL DEF TsSpec

\* No pointer of the timeslot leaves its objects, and its size is at most theirs.
THEOREM TimeslotTypeCorrect == TsSpec => []TsTypeOK
<1>1. ASSUME TsInv PROVE TsTypeOK
    <2>1. Typed(ts) /\ ts.size = Cardinality(ts.hash) /\ ts.hash \subseteq Object
        BY <1>1 DEF TsInv, IsList, Typed
    <2>2. /\ Cardinality(Object) \in Nat
          /\ Cardinality(ts.hash) <= Cardinality(Object)
        BY <2>1, FS_Subset, FS_CardinalityType, TimeslotAssumption
    <2>3. ts.size \in 0..Cardinality(Object)
        BY <2>1, <2>2 DEF Typed
    <2> QED
        BY <1>1, <2>1, <2>3 DEF TsInv, TsTypeOK, Typed
<1> QED
    BY <1>1, InitTsInv, NextTsInv, PTL DEF TsSpec

-----------------------------------------------------------------------------

(* The refinement. *)

LeaseOf(S) == [o \in S.hash |-> S.el[o].purge_time]

LEMMA InitLeases == TsInit => Leases!Init
<1> SUFFICES ASSUME TsInit PROVE Leases!Init
    OBVIOUS
<1>1. ts.hash = {} /\ purged = {} /\ now = 0
    BY DEF TsInit
<1> QED
    BY <1>1 DEF Leases!Init

LEMMA AddObjectGrant ==
    ASSUME TsInv, NEW o \in Object, NEW stamp \in 0..now, NEW lifetime \in Lifetime,
           AddObject(o, stamp, lifetime)
    PROVE  Leases!Grant(o, stamp, lifetime)
<1> DEFINE t == stamp + lifetime
           granted == [p \in ts.hash \cup {o} |->
                          IF p = o THEN t ELSE ts.el[p].purge_time]
<1>1. now \in Nat
    BY TimeslotAssumption DEF TsInv
<1>2. Added(ts, o, t, now, ts', purged') /\ now' = now
    BY <1>1, AddObjectAdded DEF TsInv
<1> HIDE DEF t
<1>3. PICK D, I :
          /\ Withdrawn(ts, o, D)
          /\ Granted(D, o, t, I)
          /\ IF D.hash = {} THEN ts' = I /\ purged' = {}
             ELSE Purged(I, now, ts') /\ purged' = Expired(I, now)
    BY <1>2 DEF Added
<1>4. /\ D.hash = ts.hash \ {o}
      /\ I.hash = ts.hash \cup {o}
      /\ \A p \in I.hash : I.el[p].purge_time = granted[p]
    BY <1>3 DEF Withdrawn, Granted
<1>5. DOMAIN granted = I.hash
    BY <1>4
<1>6. D.hash = {} <=> DOMAIN granted = {o}
    BY <1>4, <1>5
<1>7. Expired(I, now) = {p \in DOMAIN granted : granted[p] <= now}
    BY <1>4, <1>5 DEF Expired
<1>8. CASE D.hash = {}
    <2>1. ts' = I /\ purged' = {}
        BY <1>3, <1>8
    <2>2. [p \in ts'.hash |-> ts'.el[p].purge_time] = granted
        BY <1>4, <2>1
    <2> QED
        BY <1>2, <1>6, <1>8, <2>1, <2>2 DEF Leases!Grant, t
<1>9. CASE D.hash # {}
    <2>1. Purged(I, now, ts') /\ purged' = Expired(I, now)
        BY <1>3, <1>9
    <2>2. [p \in ts'.hash |-> ts'.el[p].purge_time]
             = [p \in DOMAIN granted \ Expired(I, now) |-> granted[p]]
        BY <1>4, <1>5, <2>1 DEF Purged
    <2>3. Leases!PurgeEnded(granted, now)
        <3> HIDE DEF granted
        <3> QED
            BY <1>7, <2>1, <2>2 DEF Leases!PurgeEnded, Leases!Ended
    <2>4. [p \in DOMAIN [q \in ts.hash |-> ts.el[q].purge_time] \cup {o} |->
              IF p = o THEN stamp + lifetime
              ELSE [q \in ts.hash |-> ts.el[q].purge_time][p]] = granted
        BY DEF t
    <2>5. DOMAIN granted # {o}
        BY <1>6, <1>9
    <2> HIDE DEF granted
    <2> QED
        BY <1>2, <2>3, <2>4, <2>5 DEF Leases!Grant
<1> QED
    BY <1>8, <1>9

LEMMA NextLeases == TsInv /\ [TsNext]_tsVars => [Leases!Next]_(Leases!vars)
<1> SUFFICES ASSUME TsInv, [TsNext]_tsVars PROVE [Leases!Next]_(Leases!vars)
    OBVIOUS
<1>1. IsList(ts) /\ now \in Nat /\ ts.hash \subseteq Object
    BY ListTyped, TimeslotAssumption DEF TsInv
<1>2. ASSUME NEW o \in Object, NEW stamp \in 0..now, NEW lifetime \in Lifetime,
             AddObject(o, stamp, lifetime)
      PROVE  Leases!Next
    BY <1>2, AddObjectGrant DEF Leases!Next
<1>3. ASSUME NEW o \in Object, DeleteObject(o)
      PROVE  Leases!Next
    <2>1. ts' = Delete(ts, o) /\ purged' = {} /\ now' = now
        BY <1>3 DEF DeleteObject
    <2>2. /\ ts'.hash = ts.hash \ {o}
          /\ \A p \in ts'.hash : ts'.el[p].purge_time = ts.el[p].purge_time
        BY <1>1, <2>1, DeleteWithdrawn DEF Withdrawn
    <2>3. [p \in ts'.hash |-> ts'.el[p].purge_time]
             = [p \in ts.hash \ {o} |-> ts.el[p].purge_time]
        BY <2>2
    <2>4. Leases!Withdraw(o)
        BY <2>1, <2>3 DEF Leases!Withdraw
    <2> QED
        BY <2>4 DEF Leases!Next
<1>4. ASSUME NEW stamp \in 0..now, PurgeObjects(stamp)
      PROVE  Leases!Next
    <2>1. Purged(ts, stamp, ts') /\ purged' = Expired(ts, stamp) /\ now' = now
        BY <1>1, <1>4, PurgeObjectsPurged
    <2>2. /\ ts'.hash = ts.hash \ Expired(ts, stamp)
          /\ \A p \in ts'.hash : ts'.el[p].purge_time = ts.el[p].purge_time
        BY <2>1 DEF Purged
    <2>3. [p \in ts'.hash |-> ts'.el[p].purge_time]
             = [p \in ts.hash \ Expired(ts, stamp) |-> ts.el[p].purge_time]
        BY <2>2
    <2>4. Leases!Cleanup(stamp)
        BY <2>1, <2>3
        DEF Leases!Cleanup, Leases!PurgeEnded, Leases!Ended, Expired
    <2> QED
        BY <2>4 DEF Leases!Next
<1>5. CASE Tick
    <2>1. Leases!Tick
        BY <1>5 DEF Tick, Leases!Tick
    <2> QED
        BY <2>1 DEF Leases!Next
<1>6. CASE UNCHANGED tsVars
    BY <1>6 DEF tsVars, Leases!vars
<1> QED
    BY <1>2, <1>3, <1>4, <1>5, <1>6 DEF TsNext

\* The list implements a set of leases: a purge, which walks from the tail and
\* stops at the first element that is not due, ends those that are due and no
\* other, and a renewed object has the new lease only.
THEOREM TimeslotImplementsLeases == TsSpec => ImplementsLeases
<1> QED
    BY InitTsInv, NextTsInv, InitLeases, NextLeases, PTL
    DEF TsSpec, ImplementsLeases, Leases!Spec

=============================================================================
