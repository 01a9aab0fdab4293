---------------------------- MODULE Aodv_proofs ----------------------------
(***************************************************************************)
(* Proofs about the routing table of a des-aodv node, for any number of    *)
(* destinations, neighbours and threads and any width of sequence numbers, *)
(* and about a mesh of such nodes, for any network, any set of requests    *)
(* and any bounds.                                                         *)
(*                                                                         *)
(* First the comparison of sequence numbers and the operators on the       *)
(* table: a predicate Sound says what holds of every table; one lemma per  *)
(* operator shows that the operator keeps it and over which next hops it   *)
(* leads routes.  Then the threads of AodvRt: the inductive invariant is   *)
(* RtTypeOK, Sound of the routing database and that routes lead over       *)
(* neighbours or those whose RERR is due.  Last the mesh                   *)
(* of AodvNet: the inductive invariant adds to the checked properties that *)
(* tables are Sound, that nothing is due between steps and that the sender *)
(* of a RREQ or RREP knows a next hop to the host the receiver will learn  *)
(* a route to.                                                             *)
(***************************************************************************)
EXTENDS AodvNet, AodvRt, TLAPS

-----------------------------------------------------------------------------
(* Comparison of sequence numbers. *)

LEMMA DiffRange ==
    ASSUME NEW i \in SeqNum, NEW j \in SeqNum
    PROVE  /\ Diff(i, j) \in SeqNum
           /\ i # j => Diff(i, j) + Diff(j, i) = SeqMod
BY SeqModAssumption DEF Diff, SeqNum

LEMMA HalfRangeBounds ==
    HalfRange \in Nat /\ 2 * HalfRange < SeqMod
BY SeqModAssumption DEF HalfRange

LEMMA CompSame == ASSUME NEW i PROVE Comp(i, i) = 0
BY DEF Comp

LEMMA CompRange == ASSUME NEW i, NEW j PROVE Comp(i, j) \in {-1, 0, 1}
BY DEF Comp

\* hf_comp_u32 never calls each of two sequence numbers newer than the other:
\* two nodes cannot both overwrite the other's route as the older one.
THEOREM NeverBothNewer ==
    ASSUME NEW i \in SeqNum, NEW j \in SeqNum, Comp(i, j) > 0
    PROVE  Comp(j, i) < 0
<1>1. i # j /\ Diff(i, j) < HalfRange
  BY DEF Comp
<1>2. Diff(j, i) \in SeqNum /\ Diff(i, j) \in SeqNum
      /\ Diff(i, j) + Diff(j, i) = SeqMod
  BY <1>1, DiffRange
<1>3. ~(Diff(j, i) < HalfRange)
  BY <1>1, <1>2, HalfRangeBounds, SeqModAssumption DEF SeqNum
<1> QED BY <1>1, <1>3 DEF Comp

\* Sequence numbers below HalfRange are compared as plain integers.
THEOREM CompIsOrder ==
    ASSUME NEW i \in SeqNum, NEW j \in SeqNum, i < HalfRange, j < HalfRange
    PROVE  (Comp(i, j) > 0 <=> i > j) /\ (Comp(i, j) < 0 <=> i < j)
<1>1. CASE i = j
  BY <1>1 DEF Comp, SeqNum
<1>2. CASE i > j
  <2>1. Diff(i, j) < HalfRange
    BY <1>2, SeqModAssumption, HalfRangeBounds DEF Diff, SeqNum
  <2> QED BY <1>2, <2>1, SeqModAssumption DEF Comp, SeqNum
<1>3. CASE i < j
  <2>1. ~(Diff(i, j) < HalfRange)
    BY <1>3, SeqModAssumption, HalfRangeBounds DEF Diff, SeqNum
  <2> QED BY <1>3, <2>1, SeqModAssumption DEF Comp, SeqNum
<1> QED BY <1>1, <1>2, <1>3, SeqModAssumption DEF SeqNum
-----------------------------------------------------------------------------
(* The invariant of the table and the operators that keep it. *)

\* RouteIsMapped and InverseUnlessMoved of a table, and what they need: an
\* entry with a known next hop is in the table and has one.
Sound(T) ==
    /\ T \in Table
    /\ \A d \in Dest : T.rt[d].known => T.rt[d].live /\ T.rt[d].hop # NoHop
    /\ \A d \in Dest \ T.moved :
          /\ {p \in T.nht : p[2] = d} = Mapping(T, d)
          /\ {p \in T.nht : p[2] = d} \cap T.stale = {}
    /\ \A d \in Dest : T.rt[d].known =>
          {p \in T.nht : p[2] = d} \ T.stale # {}

\* A step from table T to table U leads no route over another next hop ...
KeepsRoutes(T, U) ==
    /\ T.moved \subseteq U.moved
    /\ \A x \in Dest : Usable(U, x) => Usable(T, x) /\ U.rt[x].hop = T.rt[x].hop

\* ... than h.
LeadsOver(T, U, h) ==
    /\ T.moved \subseteq U.moved
    /\ \A x \in Dest :
          Usable(U, x) => \/ Usable(T, x) /\ U.rt[x].hop = T.rt[x].hop
                          \/ U.rt[x].hop = h

LEMMA SameKeepsRoutes ==
    ASSUME NEW T, NEW U, T.moved \subseteq U.moved,
           \A x \in Dest : U.rt[x] \in {T.rt[x], Absent, FreshEntry}
    PROVE  KeepsRoutes(T, U)
<1>1. ~Absent.live /\ ~FreshEntry.known
  BY DEF Absent, FreshEntry
<1> QED BY <1>1 DEF KeepsRoutes, Usable

LEMMA EmptyIsSound == Sound(EmptyTable)
BY TableAssumption, SeqModAssumption
   DEF Sound, EmptyTable, Table, Entry, Absent, Mapping, SeqNum

LEMMA MappingOfDest ==
    ASSUME NEW T, NEW d, NEW p \in Mapping(T, d)
    PROVE  p[2] = d
BY DEF Mapping

\* purge_rt_entry keeps the table sound and drops only what is due.
LEMMA PurgeIsSound ==
    ASSUME NEW T, Sound(T)
    PROVE  /\ Sound(Purge(T)) /\ KeepsRoutes(T, Purge(T))
           /\ Purge(T).moved = T.moved
           /\ \A d \in Dest \ T.due : Purge(T).rt[d] = T.rt[d]
<1> DEFINE P == Purge(T)
           left == T.nht \ UNION {Mapping(T, d) : d \in T.due}
<1>1. /\ P.rt = [d \in Dest |-> IF d \in T.due THEN Absent ELSE T.rt[d]]
      /\ P.nht = left
      /\ P.stale = {p \in left : p \in T.stale \/ p[2] \in T.due}
      /\ P.due = {} /\ P.moved = T.moved
  BY DEF Purge
<1>2. P \in Table
  <2>1. Absent \in Entry
    BY TableAssumption, SeqModAssumption DEF Absent, Entry, SeqNum
  <2>2. T.rt \in [Dest -> Entry] /\ T.nht \in SUBSET (Hop \X Dest)
        /\ T.moved \in SUBSET Dest
    BY DEF Sound, Table
  <2>3. P.rt \in [Dest -> Entry]
    BY <1>1, <2>1, <2>2
  <2>4. P.nht \in SUBSET (Hop \X Dest) /\ P.stale \in SUBSET (Hop \X Dest)
    BY <1>1, <2>2
  <2> QED BY <1>1, <2>2, <2>3, <2>4 DEF Purge, Table
<1>3. \A d \in Dest \ T.due : P.rt[d] = T.rt[d] /\ Mapping(P, d) = Mapping(T, d)
  <2> TAKE d \in Dest \ T.due
  <2>1. P.rt[d] = T.rt[d]
    BY <1>1
  <2> HIDE DEF P
  <2> QED BY <2>1 DEF Mapping
<1>4. \A d \in T.due : d \in Dest => ~P.rt[d].known /\ Mapping(P, d) = {}
  BY <1>1 DEF Mapping, Absent
<1>5. \A d \in Dest \ T.due :
         /\ {p \in P.nht : p[2] = d} = {p \in T.nht : p[2] = d}
         /\ {p \in P.nht : p[2] = d} \cap P.stale
              = {p \in T.nht : p[2] = d} \cap T.stale
  BY <1>1, MappingOfDest
<1>6. \A d \in Dest \cap T.due : d \notin T.moved =>
         {p \in P.nht : p[2] = d} = {}
  BY <1>1 DEF Sound
<1>7. \A d \in Dest : P.rt[d].known =>
               P.rt[d].live /\ P.rt[d].hop # NoHop
  BY <1>3, <1>4 DEF Sound
<1>8. \A d \in Dest \ P.moved :
         /\ {p \in P.nht : p[2] = d} = Mapping(P, d)
         /\ {p \in P.nht : p[2] = d} \cap P.stale = {}
  BY <1>1, <1>3, <1>4, <1>5, <1>6 DEF Sound
<1>9. \A d \in Dest : P.rt[d].known => {p \in P.nht : p[2] = d} \ P.stale # {}
  <2> TAKE d \in Dest
  <2> HAVE P.rt[d].known
  <2>1. d \notin T.due
    BY <1>4
  <2>2. {p \in T.nht : p[2] = d} \ T.stale # {}
    BY <1>3, <2>1 DEF Sound
  <2> QED BY <1>5, <2>1, <2>2
<1> HIDE DEF P
<1>10. Sound(P)
  BY <1>2, <1>7, <1>8, <1>9 DEF Sound
<1>11. P.moved = T.moved /\ \A d \in Dest \ T.due : P.rt[d] = T.rt[d]
  BY <1>1, <1>3
<1>12. KeepsRoutes(T, P)
  BY <1>1, SameKeepsRoutes
<1> QED BY <1>10, <1>11, <1>12 DEF P

\* timeslot_addobject: the refreshed entry stays.
LEMMA RefreshIsSound ==
    ASSUME NEW T, Sound(T), NEW d \in Dest
    PROVE  Sound(Refresh(T, d)) /\ KeepsRoutes(T, Refresh(T, d))
<1> DEFINE U == [T EXCEPT !.due = @ \ {d}]
<1>1. U.rt = T.rt /\ U.nht = T.nht /\ U.stale = T.stale /\ U.moved = T.moved
      /\ U.due = T.due \ {d} /\ U \in Table
  BY DEF Sound, Table
<1>2. \A x : Mapping(U, x) = Mapping(T, x)
  BY <1>1 DEF Mapping
<1> HIDE DEF U
<1>3. Sound(U)
  BY <1>1, <1>2 DEF Sound
<1>4. Refresh(T, d) = Purge(U)
  BY DEF Refresh, U
<1>5. Sound(Purge(U)) /\ KeepsRoutes(U, Purge(U))
  BY <1>3, PurgeIsSound
<1>6. KeepsRoutes(T, Purge(U))
  BY <1>1, <1>5 DEF KeepsRoutes, Usable
<1> QED BY <1>4, <1>5, <1>6

\* Finding or creating an entry leaves what is known of the others alone.
LEMMA FindIsSound ==
    ASSUME NEW T, Sound(T), NEW d \in Dest
    PROVE  /\ Sound(FindOrCreate(T, d)) /\ KeepsRoutes(T, FindOrCreate(T, d))
           /\ FindOrCreate(T, d).rt[d].live
           /\ \A x \in Dest \ T.due :
                 T.rt[x].known => FindOrCreate(T, d).rt[x] = T.rt[x]
           /\ FindOrCreate(T, d).due \subseteq T.due
<1>1. CASE T.rt[d].live
  BY <1>1, SameKeepsRoutes DEF FindOrCreate
<1>2. CASE ~T.rt[d].live
  <2> DEFINE P == Purge(T)
             F == [P EXCEPT !.rt = [P.rt EXCEPT ![d] = FreshEntry]]
  <2>1. Sound(P) /\ KeepsRoutes(T, P) /\ \A x \in Dest \ T.due : P.rt[x] = T.rt[x]
    BY PurgeIsSound
  <2>2. P.due = {}
    BY DEF Purge
  <2>3. ~P.rt[d].known
    <3>1. ~T.rt[d].known
      BY <1>2 DEF Sound
    <3>2. P.rt[d] = IF d \in T.due THEN Absent ELSE T.rt[d]
      BY DEF Purge
    <3> QED BY <3>1, <3>2 DEF Absent
  <2>4. FreshEntry \in Entry /\ FreshEntry.live /\ ~FreshEntry.known
    BY TableAssumption, SeqModAssumption DEF FreshEntry, Entry, SeqNum
  <2>5. FindOrCreate(T, d) = F
    BY <1>2 DEF FindOrCreate
  <2> HIDE DEF P
  <2>6. /\ F.rt = [P.rt EXCEPT ![d] = FreshEntry]
        /\ F.nht = P.nht /\ F.stale = P.stale /\ F.due = P.due
        /\ F.moved = P.moved /\ F \in Table
    <3>1. P \in Table
      BY <2>1 DEF Sound
    <3>2. [P.rt EXCEPT ![d] = FreshEntry] \in [Dest -> Entry]
      BY <3>1, <2>4 DEF Table
    <3> QED BY <3>1, <3>2 DEF Table
  <2>7. F.rt[d] = FreshEntry /\ \A x \in Dest \ {d} : F.rt[x] = P.rt[x]
    BY <2>1, <2>6 DEF Sound, Table
  <2>8. \A x \in Dest : Mapping(F, x) = Mapping(P, x)
    BY <2>3, <2>4, <2>7 DEF Mapping
  <2>9. \A x \in Dest : F.rt[x].known => P.rt[x].known /\ F.rt[x] = P.rt[x]
    BY <2>4, <2>7
  <2> HIDE DEF F
  <2>10. Sound(F)
    <3>1. \A x \in Dest : F.rt[x].known =>
               F.rt[x].live /\ F.rt[x].hop # NoHop
      BY <2>1, <2>9 DEF Sound
    <3>2. \A x \in Dest \ F.moved :
             /\ {p \in F.nht : p[2] = x} = Mapping(F, x)
             /\ {p \in F.nht : p[2] = x} \cap F.stale = {}
      BY <2>1, <2>6, <2>8 DEF Sound
    <3>3. \A x \in Dest :
             F.rt[x].known => {p \in F.nht : p[2] = x} \ F.stale # {}
      BY <2>1, <2>6, <2>9 DEF Sound
    <3> QED BY <2>6, <3>1, <3>2, <3>3 DEF Sound
  <2>11. \A x \in Dest \ T.due : T.rt[x].known => F.rt[x] = T.rt[x]
    BY <1>2, <2>1, <2>7 DEF Sound
  <2>12. KeepsRoutes(P, F)
    <3>1. \A x \in Dest : F.rt[x] \in {P.rt[x], Absent, FreshEntry}
      BY <2>7
    <3>2. P.moved \subseteq F.moved
      BY <2>6
    <3> QED BY <3>1, <3>2, SameKeepsRoutes
  <2>13. KeepsRoutes(T, F)
    BY <2>1, <2>12 DEF KeepsRoutes
  <2> QED BY <2>2, <2>4, <2>5, <2>6, <2>7, <2>10, <2>11, <2>13
<1> QED BY <1>1, <1>2

\* The second half of aodv_db_rt_capt_rreq, on an entry of the table.
LEMMA CaptRreqEntryIsSound ==
    ASSUME NEW T, Sound(T), NEW o \in Dest, T.rt[o].live, NEW h \in Hop,
           NEW seq \in SeqNum, NEW metric \in 0..MaxMetric
    PROVE  /\ Sound(CaptRreqEntry(T, o, h, seq, metric))
           /\ LeadsOver(T, CaptRreqEntry(T, o, h, seq, metric), h)
<1> DEFINE U == CaptRreqEntry(T, o, h, seq, metric)
           e == T.rt[o]
           f == [live |-> TRUE, known |-> e.known, valid |-> e.valid,
                 hop |-> h, seq |-> seq, metric |-> metric]
<1>1. CASE CaptRreqResult(e, seq, metric) = "old"
  <2>1. U = T
    BY <1>1 DEF CaptRreqEntry
  <2> QED BY <2>1 DEF LeadsOver
<1>2. CASE CaptRreqResult(e, seq, metric) # "old"
  <2>1. /\ U.rt = [T.rt EXCEPT ![o] = f]
        /\ U.nht = T.nht /\ U.stale = T.stale /\ U.due = T.due
        /\ U.moved = IF e.known /\ e.hop # h THEN T.moved \cup {o} ELSE T.moved
        /\ U = [rt |-> U.rt, nht |-> U.nht, stale |-> U.stale,
                due |-> U.due, moved |-> U.moved]
    BY <1>2 DEF CaptRreqEntry
  <2> HIDE DEF U
  <2>2. T \in Table /\ e \in Entry
    BY DEF Sound, Table
  <2>3. f \in Entry /\ f.live /\ f.known = e.known /\ f.hop = h
    BY <2>2 DEF Entry
  <2> HIDE DEF e, f
  <2>4. U \in Table
    <3>1. U.rt \in [Dest -> Entry]
      BY <2>1, <2>2, <2>3 DEF Table
    <3> QED BY <2>1, <2>2, <3>1 DEF Table
  <2>5. U.rt[o] = f /\ \A x \in Dest \ {o} : U.rt[x] = T.rt[x]
    BY <2>1, <2>2 DEF Table
  <2>6. T.rt[o] = e
    BY DEF e
  <2>7. \A x \in Dest : U.rt[x].known = T.rt[x].known
    BY <2>3, <2>5, <2>6
  <2>8. \A x \in Dest \ U.moved : Mapping(U, x) = Mapping(T, x) /\ x \notin T.moved
    BY <2>1, <2>3, <2>5, <2>6 DEF Mapping
  <2>9. Sound(U)
    <3>1. \A x \in Dest : U.rt[x].known =>
               U.rt[x].live /\ U.rt[x].hop # NoHop
      BY <2>3, <2>5, <2>6, <2>7, TableAssumption DEF Sound
    <3>2. \A x \in Dest \ U.moved :
             /\ {p \in U.nht : p[2] = x} = Mapping(U, x)
             /\ {p \in U.nht : p[2] = x} \cap U.stale = {}
      BY <2>1, <2>8 DEF Sound
    <3>3. \A x \in Dest :
             U.rt[x].known => {p \in U.nht : p[2] = x} \ U.stale # {}
      BY <2>1, <2>7 DEF Sound
    <3> QED BY <2>4, <3>1, <3>2, <3>3 DEF Sound
  <2>10. LeadsOver(T, U, h)
    BY <2>1, <2>3, <2>5 DEF LeadsOver, Usable
  <2> QED BY <2>9, <2>10 DEF U
<1> QED BY <1>1, <1>2

\* The second half of aodv_db_rt_capt_rrep, for a RREP that is used.
LEMMA CaptRrepEntryIsSound ==
    ASSUME NEW T, Sound(T), NEW d \in Dest, NEW h \in Hop,
           NEW seq \in SeqNum, NEW metric \in 0..MaxMetric,
           CaptRrepUsed(T.rt[d], seq)
    PROVE  /\ Sound(CaptRrepEntry(T, d, h, seq, metric))
           /\ LeadsOver(T, CaptRrepEntry(T, d, h, seq, metric), h)
<1> DEFINE U == CaptRrepEntry(T, d, h, seq, metric)
           f == [live |-> TRUE, known |-> TRUE, valid |-> TRUE,
                 hop |-> h, seq |-> seq, metric |-> metric]
<1>1. /\ U.rt = [T.rt EXCEPT ![d] = f]
      /\ U.nht = (T.nht \ Mapping(T, d)) \cup {<<h, d>>}
      /\ U.stale = (T.stale \ Mapping(T, d)) \ {<<h, d>>}
      /\ U.due = T.due /\ U.moved = T.moved
      /\ U = [rt |-> U.rt, nht |-> U.nht, stale |-> U.stale,
              due |-> U.due, moved |-> U.moved]
  BY DEF CaptRrepEntry
<1> HIDE DEF U
<1>2. T \in Table
  BY DEF Sound
<1>3. f \in Entry /\ f.live /\ f.known /\ f.hop = h /\ f.seq = seq
  BY DEF Entry
<1> HIDE DEF f
<1>4. U \in Table
  <2>1. U.rt \in [Dest -> Entry]
    BY <1>1, <1>2, <1>3 DEF Table
  <2>2. U.nht \in SUBSET (Hop \X Dest) /\ U.stale \in SUBSET (Hop \X Dest)
    BY <1>1, <1>2 DEF Table
  <2> QED BY <1>1, <1>2, <2>1, <2>2 DEF Table
<1>5. U.rt[d] = f /\ \A x \in Dest \ {d} : U.rt[x] = T.rt[x]
  BY <1>1, <1>2 DEF Table
<1>6. Mapping(U, d) = {<<h, d>>}
  BY <1>3, <1>5 DEF Mapping
<1>7. \A x \in Dest \ {d} :
         /\ Mapping(U, x) = Mapping(T, x)
         /\ {p \in U.nht : p[2] = x} = {p \in T.nht : p[2] = x}
         /\ {p \in U.nht : p[2] = x} \cap U.stale
              = {p \in T.nht : p[2] = x} \cap T.stale
  <2> TAKE x \in Dest \ {d}
  <2>1. Mapping(U, x) = Mapping(T, x)
    BY <1>5 DEF Mapping
  <2>2. {p \in U.nht : p[2] = x} = {p \in T.nht : p[2] = x}
    BY <1>1, MappingOfDest
  <2>3. \A p \in T.nht : p[2] = x => (p \in U.stale <=> p \in T.stale)
    BY <1>1, MappingOfDest
  <2> QED BY <2>1, <2>2, <2>3
<1>8. {p \in U.nht : p[2] = d} \cap U.stale
        \subseteq {p \in T.nht \ Mapping(T, d) : p[2] = d} \cap T.stale
  BY <1>1
<1>9. <<h, d>> \in U.nht \ U.stale
  BY <1>1
<1>10. Sound(U)
  <2>1. \A x \in Dest : U.rt[x].known =>
               U.rt[x].live /\ U.rt[x].hop # NoHop
    BY <1>3, <1>5, TableAssumption DEF Sound
  <2>2. \A x \in Dest \ U.moved :
           /\ {p \in U.nht : p[2] = x} = Mapping(U, x)
           /\ {p \in U.nht : p[2] = x} \cap U.stale = {}
    <3> TAKE x \in Dest \ U.moved
    <3>1. x \notin T.moved
      BY <1>1
    <3>2. CASE x # d
      BY <1>7, <3>1, <3>2 DEF Sound
    <3>3. CASE x = d
      <4>1. {p \in T.nht : p[2] = d} = Mapping(T, d)
        BY <3>1, <3>3 DEF Sound
      <4>2. {p \in U.nht : p[2] = d} = {<<h, d>>}
        BY <1>1, <4>1
      <4> QED BY <1>6, <1>9, <3>3, <4>2
    <3> QED BY <3>2, <3>3
  <2>3. \A x \in Dest :
           U.rt[x].known => {p \in U.nht : p[2] = x} \ U.stale # {}
    <3> TAKE x \in Dest
    <3>1. CASE x = d
      BY <1>9, <3>1
    <3>2. CASE x # d
      BY <1>5, <1>7, <3>2 DEF Sound
    <3> QED BY <3>1, <3>2
  <2> QED BY <1>4, <2>1, <2>2, <2>3 DEF Sound
<1>11. LeadsOver(T, U, h)
  BY <1>1, <1>3, <1>5 DEF LeadsOver, Usable
<1> QED BY <1>10, <1>11 DEF U

LEMMA LeadsAfterFind ==
    ASSUME NEW T, Sound(T), NEW d \in Dest, NEW U, NEW h,
           LeadsOver(FindOrCreate(T, d), U, h)
    PROVE  LeadsOver(T, U, h)
<1>1. KeepsRoutes(T, FindOrCreate(T, d))
  BY FindIsSound
<1> QED BY <1>1 DEF KeepsRoutes, LeadsOver

LEMMA CaptRreqIsSound ==
    ASSUME NEW T, Sound(T), NEW d \in Dest, NEW o \in Dest, NEW h \in Hop,
           NEW seq \in SeqNum, NEW metric \in 0..MaxMetric
    PROVE  /\ Sound(CaptRreq(T, d, o, h, seq, metric))
           /\ LeadsOver(T, CaptRreq(T, d, o, h, seq, metric), h)
<1> DEFINE F == FindOrCreate(T, d)
           G == FindOrCreate(F, o)
           U == CaptRreqEntry(G, o, h, seq, metric)
<1>1. Sound(F)
  BY FindIsSound
<1>2. Sound(G) /\ G.rt[o].live
  BY <1>1, FindIsSound
<1>3. Sound(U) /\ LeadsOver(G, U, h)
  BY <1>2, CaptRreqEntryIsSound
<1>4. LeadsOver(T, U, h)
  BY <1>1, <1>3, LeadsAfterFind
<1> QED BY <1>3, <1>4 DEF CaptRreq

LEMMA CaptRrepIsSound ==
    ASSUME NEW T, Sound(T), NEW d \in Dest, NEW h \in Hop,
           NEW seq \in SeqNum, NEW metric \in 0..MaxMetric
    PROVE  /\ Sound(CaptRrep(T, d, h, seq, metric))
           /\ LeadsOver(T, CaptRrep(T, d, h, seq, metric), h)
<1> DEFINE F == FindOrCreate(T, d)
<1>1. Sound(F)
  BY FindIsSound
<1>2. CASE CaptRrepUsed(F.rt[d], seq)
  <2>1. CaptRrep(T, d, h, seq, metric) = CaptRrepEntry(F, d, h, seq, metric)
    BY <1>2 DEF CaptRrep
  <2> QED BY <1>1, <1>2, <2>1, CaptRrepEntryIsSound, LeadsAfterFind
<1>3. CASE ~CaptRrepUsed(F.rt[d], seq)
  <2>1. CaptRrep(T, d, h, seq, metric) = F
    BY <1>3 DEF CaptRrep
  <2>2. LeadsOver(F, F, h)
    BY DEF LeadsOver
  <2> QED BY <1>1, <2>1, <2>2, LeadsAfterFind
<1> QED BY <1>2, <1>3

\* Invalidating routes touches nothing but their validity.
LEMMA InvalidateIsSound ==
    ASSUME NEW T, Sound(T), NEW D
    PROVE  /\ Sound(Invalidate(T, D)) /\ KeepsRoutes(T, Invalidate(T, D))
           /\ \A x \in D \cap Dest : ~Usable(Invalidate(T, D), x)
<1> DEFINE r == [d \in Dest |->
                   IF d \in D THEN [T.rt[d] EXCEPT !.valid = FALSE] ELSE T.rt[d]]
           U == Invalidate(T, D)
<1>1. T \in Table /\ \A d \in Dest : T.rt[d] \in Entry
  BY DEF Sound, Table
<1>2. U = [T EXCEPT !.rt = r]
  BY DEF Invalidate
<1>3. \A d \in Dest : /\ r[d] \in Entry
                      /\ r[d].live = T.rt[d].live /\ r[d].known = T.rt[d].known
                      /\ r[d].hop = T.rt[d].hop /\ (r[d].valid => T.rt[d].valid)
                      /\ (d \in D => ~r[d].valid)
  BY <1>1 DEF Entry
<1>4. r \in [Dest -> Entry]
  BY <1>3
<1> HIDE DEF r, U
<1>5. U \in Table /\ U.rt = r /\ U.nht = T.nht /\ U.stale = T.stale
      /\ U.moved = T.moved
  BY <1>1, <1>2, <1>4 DEF Table
<1>6. \A d \in Dest : Mapping(U, d) = Mapping(T, d)
  BY <1>3, <1>5 DEF Mapping
<1>7. Sound(U)
  BY <1>3, <1>5, <1>6 DEF Sound
<1>8. KeepsRoutes(T, U) /\ \A x \in D \cap Dest : ~Usable(U, x)
  BY <1>3, <1>5 DEF KeepsRoutes, Usable
<1> QED BY <1>7, <1>8 DEF U

LEMMA LeaseEndsIsSound ==
    ASSUME NEW T, Sound(T), NEW d \in Dest
    PROVE  /\ Sound([T EXCEPT !.due = @ \cup {d}])
           /\ KeepsRoutes(T, [T EXCEPT !.due = @ \cup {d}])
<1> DEFINE U == [T EXCEPT !.due = @ \cup {d}]
<1>1. U \in Table /\ U.rt = T.rt /\ U.nht = T.nht /\ U.stale = T.stale
      /\ U.moved = T.moved
  BY DEF Sound, Table
<1> HIDE DEF U
<1>2. \A x : Mapping(U, x) = Mapping(T, x)
  BY <1>1 DEF Mapping
<1>3. Sound(U)
  BY <1>1, <1>2 DEF Sound
<1>4. KeepsRoutes(T, U)
  BY <1>1, SameKeepsRoutes
<1> QED BY <1>3, <1>4 DEF U

-----------------------------------------------------------------------------
(* What a table learns. *)

\* Table U comes from table T, neither holds an entry that is due, and all it
\* can have learned is a next hop h and a sequence number s for o.
Learnt(T, U, o, h, s) ==
    /\ U.due = {}
    /\ \A x \in Dest :
          /\ T.rt[x].known => U.rt[x].known
          /\ U.rt[x].known => \/ T.rt[x].known /\ U.rt[x].hop = T.rt[x].hop
                              \/ x = o /\ U.rt[x].hop = h
          /\ U.rt[x].seq \in {T.rt[x].seq, 0} \/ (x = o /\ U.rt[x].seq = s)

LEMMA PurgeNothing ==
    ASSUME NEW T, T \in Table, T.due = {}
    PROVE  Purge(T).rt = T.rt /\ Purge(T).due = {}
<1>1. Purge(T).rt = [d \in Dest |-> T.rt[d]]
  BY DEF Purge
<1>2. T.rt = [d \in Dest |-> T.rt[d]]
  BY DEF Table
<1> QED BY <1>1, <1>2 DEF Purge

LEMMA RefreshLearnsNothing ==
    ASSUME NEW T, T \in Table, T.due = {}, NEW d
    PROVE  Refresh(T, d).rt = T.rt /\ Refresh(T, d).due = {}
<1> DEFINE U == [T EXCEPT !.due = @ \ {d}]
<1>1. U \in Table /\ U.due = {} /\ U.rt = T.rt
  BY DEF Table
<1>2. Refresh(T, d) = Purge(U)
  BY DEF Refresh
<1> HIDE DEF U
<1> QED BY <1>1, <1>2, PurgeNothing

LEMMA FindLearnsNothing ==
    ASSUME NEW T, T \in Table, T.due = {}, NEW d \in Dest,
           T.rt[d].known => T.rt[d].live
    PROVE  /\ FindOrCreate(T, d).due = {}
           /\ \A x \in Dest : \/ FindOrCreate(T, d).rt[x] = T.rt[x]
                              \/ /\ ~T.rt[x].known
                                 /\ FindOrCreate(T, d).rt[x] = FreshEntry
<1>1. CASE T.rt[d].live
  BY <1>1 DEF FindOrCreate
<1>2. CASE ~T.rt[d].live
  <2> DEFINE P == Purge(T)
             r == [P.rt EXCEPT ![d] = FreshEntry]
  <2>1. P.rt = T.rt /\ P.due = {}
    BY PurgeNothing
  <2>2. FindOrCreate(T, d) = [P EXCEPT !.rt = r]
    BY <1>2 DEF FindOrCreate
  <2>3. \A x \in Dest : r[x] = IF x = d THEN FreshEntry ELSE T.rt[x]
    BY <2>1 DEF Table
  <2>4. FindOrCreate(T, d).rt = r /\ FindOrCreate(T, d).due = {}
    BY <2>1, <2>2 DEF Purge
  <2> HIDE DEF r
  <2> QED BY <1>2, <2>3, <2>4
<1> QED BY <1>1, <1>2

LEMMA LearntAfterFind ==
    ASSUME NEW T, Sound(T), T.due = {}, NEW d \in Dest, NEW U,
           NEW o, NEW h, NEW s, Learnt(FindOrCreate(T, d), U, o, h, s)
    PROVE  Learnt(T, U, o, h, s)
<1> DEFINE F == FindOrCreate(T, d)
<1>1. \A x \in Dest : \/ F.rt[x] = T.rt[x]
                      \/ ~T.rt[x].known /\ F.rt[x] = FreshEntry
  BY FindLearnsNothing DEF Sound
<1>2. FreshEntry.seq = 0 /\ ~FreshEntry.known
  BY DEF FreshEntry
<1> HIDE DEF F
<1>3. Learnt(F, U, o, h, s)
  BY DEF F
<1> QED BY <1>1, <1>2, <1>3 DEF Learnt

LEMMA CaptRreqLearns ==
    ASSUME NEW T, Sound(T), T.due = {}, NEW d \in Dest, NEW o \in Dest,
           NEW h \in Hop, NEW seq \in SeqNum, NEW metric \in 0..MaxMetric
    PROVE  Learnt(T, CaptRreq(T, d, o, h, seq, metric), o, h, seq)
<1> DEFINE F == FindOrCreate(T, d)
           G == FindOrCreate(F, o)
           U == CaptRreqEntry(G, o, h, seq, metric)
<1>1. Sound(F) /\ F.due = {}
  BY FindIsSound, FindLearnsNothing DEF Sound
<1>2. Sound(G) /\ G.due = {}
  BY <1>1, FindIsSound, FindLearnsNothing DEF Sound
<1> HIDE DEF F, G
<1>3. Learnt(G, U, o, h, seq)
  <2>1. CASE CaptRreqResult(G.rt[o], seq, metric) = "old"
    BY <1>2, <2>1 DEF CaptRreqEntry, Learnt
  <2>2. CASE CaptRreqResult(G.rt[o], seq, metric) # "old"
    <3>1. /\ U.rt = [G.rt EXCEPT ![o] =
                       [live |-> TRUE, known |-> G.rt[o].known,
                        valid |-> G.rt[o].valid, hop |-> h, seq |-> seq,
                        metric |-> metric]]
          /\ U.due = {}
      BY <1>2, <2>2 DEF CaptRreqEntry
    <3>2. /\ U.rt[o].known = G.rt[o].known /\ U.rt[o].hop = h
          /\ U.rt[o].seq = seq
          /\ \A x \in Dest \ {o} : U.rt[x] = G.rt[x]
      BY <1>2, <3>1 DEF Sound, Table
    <3> QED BY <3>1, <3>2 DEF Learnt
  <2> QED BY <2>1, <2>2
<1>4. Learnt(F, U, o, h, seq)
  BY <1>1, <1>3, LearntAfterFind DEF G
<1>5. Learnt(T, U, o, h, seq)
  BY <1>4, LearntAfterFind DEF F
<1> QED BY <1>5 DEF CaptRreq, F, G

\* After a RREP, used or not, there is a next hop to its destination.
LEMMA CaptRrepLearns ==
    ASSUME NEW T, Sound(T), T.due = {}, NEW d \in Dest, NEW h \in Hop,
           NEW seq \in SeqNum, NEW metric \in 0..MaxMetric
    PROVE  /\ Learnt(T, CaptRrep(T, d, h, seq, metric), d, h, seq)
           /\ CaptRrep(T, d, h, seq, metric).rt[d].known
<1> DEFINE F == FindOrCreate(T, d)
           U == CaptRrep(T, d, h, seq, metric)
<1>1. Sound(F) /\ F.due = {}
  BY FindIsSound, FindLearnsNothing DEF Sound
<1>2. U = IF CaptRrepUsed(F.rt[d], seq) THEN CaptRrepEntry(F, d, h, seq, metric)
          ELSE F
  BY DEF CaptRrep
<1> HIDE DEF F, U
<1>3. Learnt(F, U, d, h, seq) /\ U.rt[d].known
  <2>1. CASE ~CaptRrepUsed(F.rt[d], seq)
    BY <1>1, <1>2, <2>1 DEF CaptRrepUsed, Learnt
  <2>2. CASE CaptRrepUsed(F.rt[d], seq)
    <3>1. /\ U.rt = [F.rt EXCEPT ![d] =
                       [live |-> TRUE, known |-> TRUE, valid |-> TRUE,
                        hop |-> h, seq |-> seq, metric |-> metric]]
          /\ U.due = {}
      BY <1>1, <1>2, <2>2 DEF CaptRrepEntry
    <3>2. /\ U.rt[d].known /\ U.rt[d].hop = h /\ U.rt[d].seq = seq
          /\ \A x \in Dest \ {d} : U.rt[x] = F.rt[x]
      BY <1>1, <3>1 DEF Sound, Table
    <3> QED BY <3>1, <3>2 DEF Learnt
  <2> QED BY <2>1, <2>2
<1>4. Learnt(T, U, d, h, seq)
  BY <1>3, LearntAfterFind DEF F
<1> QED BY <1>3, <1>4 DEF U

LEMMA InvalidateLearnsNothing ==
    ASSUME NEW T, T \in Table, T.due = {}, NEW D, NEW o, NEW h, NEW s
    PROVE  Learnt(T, Invalidate(T, D), o, h, s)
<1> DEFINE r == [d \in Dest |->
                   IF d \in D THEN [T.rt[d] EXCEPT !.valid = FALSE]
                   ELSE T.rt[d]]
           U == Invalidate(T, D)
<1>1. U = [T EXCEPT !.rt = r]
  BY DEF Invalidate
<1>2. \A d \in Dest : /\ r[d].known = T.rt[d].known /\ r[d].hop = T.rt[d].hop
                      /\ r[d].seq = T.rt[d].seq
  BY DEF Table, Entry
<1> HIDE DEF r
<1>3. U.rt = r /\ U.due = {}
  BY <1>1 DEF Table
<1> HIDE DEF U
<1>4. Learnt(T, U, o, h, s)
  BY <1>2, <1>3 DEF Learnt
<1> QED BY <1>4 DEF U
-----------------------------------------------------------------------------
(* The threads of one node.                                                *)

RtInv == RtTypeOK /\ Sound(db) /\ RoutesOverNeighbours

LEMMA TodoOfThread ==
    ASSUME RtTypeOK, NEW t \in MeshThread
    PROVE  /\ todo[t].op = "passed" => todo[t].hop \in Hop
           /\ todo[t].op = "reverse" =>
                 /\ todo[t].dest \in Dest /\ todo[t].hop \in Hop
                 /\ todo[t].metric \in 0..MaxMetric
           /\ todo[t].op = "mark" =>
                 /\ todo[t].dest \in Dest /\ todo[t].hop \in Hop
                 /\ todo[t].seq \in SeqNum
<1>1. todo[t] \in Todo
  BY DEF RtTypeOK
<1> QED BY <1>1 DEF Todo, Nothing

LEMMA InitRtInv == RtInit => RtInv
<1> SUFFICES ASSUME RtInit PROVE RtInv
  OBVIOUS
<1>1. db = EmptyTable /\ Sound(db)
  BY EmptyIsSound DEF RtInit
<1>2. RtTypeOK
  BY <1>1 DEF RtInit, RtTypeOK, Sound, Todo
<1>3. RoutesOverNeighbours
  <2>1. \A d \in Dest : ~db.rt[d].live
    BY <1>1 DEF EmptyTable, Absent
  <2> QED BY <2>1 DEF RoutesOverNeighbours, Usable
<1> QED BY <1>1, <1>2, <1>3 DEF RtInv

\* Neighbours, and those that a RERR will be sent for or that are lost.
Spoken == nt \cup rerr_task \cup lost

\* Routes may lead over another next hop than before only when it is spoken for.
SpokenStep ==
    /\ Sound(db') /\ Spoken \subseteq Spoken'
    /\ KeepsRoutes(db, db') \/ \E h \in Spoken' : LeadsOver(db, db', h)

LEMMA SpokenKeeps ==
    ASSUME RtInv, SpokenStep
    PROVE  Sound(db') /\ RoutesOverNeighbours'
<1> SUFFICES ASSUME NEW d \in Dest \ db'.moved, Usable(db', d)
             PROVE  db'.rt[d].hop \in Spoken'
  BY DEF SpokenStep, RoutesOverNeighbours, Spoken
<1>1. db.moved \subseteq db'.moved
  BY DEF SpokenStep, KeepsRoutes, LeadsOver
<1>2. CASE Usable(db, d) /\ db'.rt[d].hop = db.rt[d].hop
  <2>1. db.rt[d].hop \in Spoken
    BY <1>1, <1>2 DEF RtInv, RoutesOverNeighbours, Spoken
  <2> QED BY <1>2, <2>1 DEF SpokenStep
<1>3. CASE ~(Usable(db, d) /\ db'.rt[d].hop = db.rt[d].hop)
  BY <1>3 DEF SpokenStep, KeepsRoutes, LeadsOver
<1> QED BY <1>2, <1>3

\* The RERR for h leaves no route over h that is mapped.
LEMMA InvalidatesOver ==
    ASSUME RtInv, NEW h \in Hop, InvOverNexthop(h)
    PROVE  Sound(db') /\ RoutesOverNeighbours'
<1>1. PICK hit \in SUBSET {d \in Dest : db.rt[d].live} :
        db' = Invalidate(db, DestList(db, h) \cup hit)
  BY DEF InvOverNexthop
<1> DEFINE D == DestList(db, h) \cup hit
<1>2. /\ Sound(db') /\ KeepsRoutes(db, db')
      /\ \A x \in D \cap Dest : ~Usable(db', x)
  BY <1>1, InvalidateIsSound DEF RtInv
<1>3. rerr_task' = rerr_task \ {h} /\ lost' = lost \ {h} /\ nt' = nt
  BY DEF InvOverNexthop
<1>4. ASSUME NEW d \in Dest \ db'.moved, Usable(db', d)
      PROVE  db'.rt[d].hop \in nt' \cup rerr_task' \cup lost'
  <2>1. d \notin db.moved /\ Usable(db, d) /\ db'.rt[d].hop = db.rt[d].hop
    BY <1>2, <1>4 DEF KeepsRoutes
  <2>2. db.rt[d].hop \in nt \cup rerr_task \cup lost
    BY <2>1 DEF RtInv, RoutesOverNeighbours
  <2>3. db.rt[d].hop # h
    <3>1. SUFFICES ASSUME db.rt[d].hop = h PROVE d \in DestList(db, h)
      BY <1>2, <1>4
    <3>2. Mapping(db, d) = {<<h, d>>}
      BY <2>1, <3>1 DEF Mapping, Usable
    <3>3. <<h, d>> \in db.nht \ db.stale
      <4>1. {p \in db.nht : p[2] = d} = {<<h, d>>}
            /\ {p \in db.nht : p[2] = d} \cap db.stale = {}
        BY <2>1, <3>2 DEF RtInv, Sound
      <4> QED BY <4>1
    <3> QED BY <3>3 DEF DestList
  <2> QED BY <1>3, <2>1, <2>2, <2>3
<1> QED BY <1>2, <1>4 DEF RoutesOverNeighbours

LEMMA LateIsLost ==
    ASSUME NEW h, lost' = CapturedLate(h), nt' = nt, rerr_task' = rerr_task
    PROVE  Spoken \subseteq Spoken' /\ h \in Spoken'
BY DEF CapturedLate, Spoken

\* Every step leaves the table sound and its routes over who is spoken for.
LEMMA RtNextTable ==
    ASSUME RtInv, [RtNext]_rtVars
    PROVE  Sound(db') /\ RoutesOverNeighbours'
<1>0. Sound(db)
  BY DEF RtInv
<1>1. ASSUME db' = db, Spoken \subseteq Spoken' PROVE SpokenStep
  BY <1>0, <1>1 DEF SpokenStep, KeepsRoutes
<1>2. ASSUME NEW t \in MeshThread, MeshStep(t)
      PROVE  SpokenStep
  <2>1. ASSUME NEW d \in Dest, NEW o \in Dest, NEW h \in Hop,
               NEW seq \in SeqUsed, NEW metric \in MetricUsed,
               TakeRreq(t, d, o, h, seq, metric)
        PROVE  SpokenStep
    <3>1. Sound(db') /\ LeadsOver(db, db', h)
      BY <1>0, <2>1, CaptRreqIsSound, BoundAssumption DEF TakeRreq
    <3> QED BY <2>1, <3>1, LateIsLost DEF TakeRreq, SpokenStep
  <2>2. CASE ReverseRoute(t)
    <3>1. 0 \in SeqNum
      BY SeqModAssumption DEF SeqNum
    <3>2. Sound(db') /\ LeadsOver(db, db', todo[t].hop)
      BY <1>0, <2>2, <3>1, TodoOfThread, CaptRrepIsSound DEF ReverseRoute, RtInv
    <3> QED BY <2>2, <3>2, LateIsLost DEF ReverseRoute, SpokenStep
  <2>3. ASSUME NEW d \in Dest, NEW h \in Hop,
               NEW seq \in SeqUsed, NEW metric \in MetricUsed,
               TakeRrep(t, d, h, seq, metric)
        PROVE  SpokenStep
    <3>1. Sound(db') /\ LeadsOver(db, db', h)
      BY <1>0, <2>3, CaptRrepIsSound, BoundAssumption DEF TakeRrep
    <3> QED BY <2>3, <3>1, LateIsLost DEF TakeRrep, SpokenStep
  <2>4. ASSUME NEW d \in Dest, NEW seq \in SeqUsed, TakeRerr(t, d, seq)
        PROVE  SpokenStep
    BY <2>4, <1>1 DEF TakeRerr, Spoken
  <2>5. CASE MarkRouteInv(t)
    <3>1. Spoken' = Spoken
      BY <2>5 DEF MarkRouteInv, Spoken
    <3>2. CASE db' = db
      BY <1>1, <3>1, <3>2
    <3>3. CASE db' = Invalidate(db, {todo[t].dest})
      BY <1>0, <3>1, <3>3, InvalidateIsSound DEF SpokenStep
    <3> QED BY <2>5, <3>2, <3>3 DEF MarkRouteInv
  <2>6. ASSUME NEW h \in Hop, PassNeighbour(t, h) PROVE SpokenStep
    BY <2>6, <1>1 DEF PassNeighbour, Spoken
  <2> QED BY <1>2, <2>1, <2>2, <2>3, <2>4, <2>5, <2>6 DEF MeshStep
<1>3. ASSUME NEW h \in Hop,
             MeetNeighbour(h) \/ NeighbourTimeout(h) \/ SkipRerr(h)
      PROVE  SpokenStep
  BY <1>3, <1>1 DEF MeetNeighbour, NeighbourTimeout, SkipRerr, Spoken
<1>4. ASSUME NEW d \in Dest, UseRoute(d)
      PROVE  SpokenStep
  <2>1. db' = Refresh(db, d) /\ Spoken' = Spoken
    BY <1>4 DEF UseRoute, Spoken
  <2> QED BY <1>0, <2>1, RefreshIsSound DEF SpokenStep
<1>5. ASSUME NEW d \in Dest, LeaseEnds(d)
      PROVE  SpokenStep
  <2>1. db' = [db EXCEPT !.due = @ \cup {d}] /\ Spoken' = Spoken
    BY <1>5 DEF LeaseEnds, Spoken
  <2> QED BY <1>0, <2>1, LeaseEndsIsSound DEF SpokenStep
<1>6. ASSUME SendRerr PROVE SpokenStep
  BY <1>6, <1>1 DEF SendRerr, Spoken
<1>7. ASSUME Cleanup PROVE SpokenStep
  <2>1. db' = Purge(db) /\ Spoken' = Spoken
    BY <1>7 DEF Cleanup, Spoken
  <2> QED BY <1>0, <2>1, PurgeIsSound DEF SpokenStep
<1>8. ASSUME RoutingReset PROVE SpokenStep
  <2>1. Spoken' = Spoken
    BY <1>8 DEF RoutingReset, Spoken
  <2> QED BY <1>0, <1>8, <2>1, InvalidateIsSound DEF RoutingReset, SpokenStep
<1>9. ASSUME NeighbourReset PROVE SpokenStep
  BY <1>9, <1>1 DEF NeighbourReset, Spoken
<1>10. ASSUME UNCHANGED rtVars PROVE SpokenStep
  BY <1>10, <1>1 DEF rtVars, Spoken
<1> QED BY <1>2, <1>3, <1>4, <1>5, <1>6, <1>7, <1>8, <1>9, <1>10,
           SpokenKeeps, InvalidatesOver DEF RtNext

LEMMA RtNextTypeOK ==
    ASSUME RtInv, [RtNext]_rtVars
    PROVE  RtTypeOK'
<1>1. db' \in Table
  BY RtNextTable DEF Sound
<1>2. todo' \in [MeshThread -> Todo]
  <2>1. todo \in [MeshThread -> Todo] /\ db \in Table
    BY DEF RtInv, RtTypeOK
  <2>2. ASSUME todo' = todo PROVE todo' \in [MeshThread -> Todo]
    BY <2>1, <2>2
  <2>3. ASSUME NEW t \in MeshThread, NEW job \in Todo,
               todo' = [todo EXCEPT ![t] = job]
        PROVE  todo' \in [MeshThread -> Todo]
    BY <2>1, <2>3
  <2>4. Nothing \in Todo
    BY DEF Todo
  <2>5. ASSUME NEW t \in MeshThread, MeshStep(t)
        PROVE  todo' \in [MeshThread -> Todo]
    <3>1. ASSUME NEW d \in Dest, NEW o \in Dest, NEW h \in Hop,
                 NEW seq \in SeqUsed, NEW metric \in MetricUsed,
                 TakeRreq(t, d, o, h, seq, metric)
          PROVE  todo' \in [MeshThread -> Todo]
      <4> DEFINE old == CaptRreqResult(FindOrCreate(FindOrCreate(db, d), o).rt[o],
                                       seq, metric) = "old"
                 rest == [op |-> "reverse", dest |-> o, hop |-> h, metric |-> metric]
                 job == IF old THEN Nothing ELSE rest
      <4>1. rest \in Todo
        BY BoundAssumption DEF Todo
      <4>2. todo' = [todo EXCEPT ![t] = job]
        BY <3>1 DEF TakeRreq
      <4> HIDE DEF Todo, old, rest
      <4>3. job \in Todo
        BY <2>4, <4>1
      <4> HIDE DEF job
      <4> QED BY <2>3, <4>2, <4>3
    <3>2. ASSUME NEW d \in Dest, NEW h \in Hop,
                 NEW seq \in SeqUsed, NEW metric \in MetricUsed,
                 TakeRrep(t, d, h, seq, metric)
          PROVE  todo' \in [MeshThread -> Todo]
      BY <2>3, <2>4, <3>2 DEF TakeRrep
    <3>3. ASSUME NEW d \in Dest, NEW seq \in SeqUsed, TakeRerr(t, d, seq)
          PROVE  todo' \in [MeshThread -> Todo]
      <4> DEFINE job == [op |-> "mark", dest |-> d,
                         hop |-> db.rt[d].hop, seq |-> seq]
      <4>1. db.rt[d].hop \in Hop
        <5>1. db.rt[d].hop # NoHop
          BY <3>3 DEF TakeRerr, RtInv, Sound
        <5>2. db.rt[d] \in Entry
          BY <2>1 DEF Table
        <5> QED BY <5>1, <5>2 DEF Entry
      <4>2. job \in Todo
        BY <4>1, BoundAssumption DEF Todo
      <4>3. todo' = [todo EXCEPT ![t] = job]
        BY <3>3 DEF TakeRerr
      <4> HIDE DEF job
      <4> QED BY <2>3, <4>2, <4>3
    <3>4. CASE ReverseRoute(t) \/ MarkRouteInv(t)
      BY <2>3, <2>4, <3>4 DEF ReverseRoute, MarkRouteInv
    <3>5. ASSUME NEW h \in Hop, PassNeighbour(t, h)
          PROVE  todo' \in [MeshThread -> Todo]
      <4>1. [op |-> "passed", hop |-> h] \in Todo
        BY DEF Todo
      <4> HIDE DEF Todo
      <4> QED BY <2>3, <3>5, <4>1 DEF PassNeighbour
    <3> QED BY <2>5, <3>1, <3>2, <3>3, <3>4, <3>5 DEF MeshStep
  <2> QED BY <2>2, <2>5
       DEF RtNext, rtVars, MeetNeighbour, NeighbourTimeout, SkipRerr, InvOverNexthop,
           UseRoute, LeaseEnds, SendRerr, Cleanup, RoutingReset, NeighbourReset
<1>3. /\ nt' \in SUBSET Hop
      /\ rerr_task' \in SUBSET Hop
      /\ broken' \in Hop \cup {NoHop}
      /\ lost' \in SUBSET Hop
  <2>1. /\ nt \in SUBSET Hop
        /\ rerr_task \in SUBSET Hop
        /\ broken \in Hop \cup {NoHop}
        /\ lost \in SUBSET Hop
    BY DEF RtInv, RtTypeOK
  <2>2. CASE UNCHANGED <<nt, rerr_task, broken, lost>>
    BY <2>1, <2>2
  <2>3. ASSUME NEW h \in Hop,
               MeetNeighbour(h) \/ NeighbourTimeout(h) \/ InvOverNexthop(h)
                 \/ SkipRerr(h)
        PROVE  /\ nt' \in SUBSET Hop
               /\ rerr_task' \in SUBSET Hop
               /\ broken' \in Hop \cup {NoHop}
               /\ lost' \in SUBSET Hop
    BY <2>1, <2>3 DEF MeetNeighbour, NeighbourTimeout, InvOverNexthop, SkipRerr
  <2>4. CASE SendRerr
    BY <2>1, <2>4 DEF SendRerr
  <2>5. CASE NeighbourReset
    BY <2>1, <2>5 DEF NeighbourReset
  <2>6. ASSUME NEW h \in Hop, lost' = CapturedLate(h),
               UNCHANGED <<nt, rerr_task, broken>>
        PROVE  /\ nt' \in SUBSET Hop
               /\ rerr_task' \in SUBSET Hop
               /\ broken' \in Hop \cup {NoHop}
               /\ lost' \in SUBSET Hop
    BY <2>1, <2>6 DEF CapturedLate
  <2>7. ASSUME NEW t \in MeshThread, MeshStep(t)
        PROVE  /\ nt' \in SUBSET Hop
               /\ rerr_task' \in SUBSET Hop
               /\ broken' \in Hop \cup {NoHop}
               /\ lost' \in SUBSET Hop
    <3>1. ASSUME ReverseRoute(t)
          PROVE  /\ nt' \in SUBSET Hop
                 /\ rerr_task' \in SUBSET Hop
                 /\ broken' \in Hop \cup {NoHop}
                 /\ lost' \in SUBSET Hop
      <4>1. todo[t].hop \in Hop
        BY <3>1, TodoOfThread DEF RtInv, ReverseRoute
      <4> QED BY <2>6, <3>1, <4>1 DEF ReverseRoute
    <3>2. ASSUME NEW d \in Dest, NEW o \in Dest, NEW h \in Hop,
                 NEW seq, NEW metric, TakeRreq(t, d, o, h, seq, metric)
          PROVE  /\ nt' \in SUBSET Hop
                 /\ rerr_task' \in SUBSET Hop
                 /\ broken' \in Hop \cup {NoHop}
                 /\ lost' \in SUBSET Hop
      BY <2>6, <3>2 DEF TakeRreq
    <3>3. ASSUME NEW d, NEW h \in Hop, NEW seq, NEW metric,
                 TakeRrep(t, d, h, seq, metric)
          PROVE  /\ nt' \in SUBSET Hop
                 /\ rerr_task' \in SUBSET Hop
                 /\ broken' \in Hop \cup {NoHop}
                 /\ lost' \in SUBSET Hop
      BY <2>6, <3>3 DEF TakeRrep
    <3>4. CASE \/ MarkRouteInv(t)
               \/ \E h \in Hop : PassNeighbour(t, h)
               \/ \E d \in Dest, seq \in SeqUsed : TakeRerr(t, d, seq)
      BY <2>2, <3>4 DEF PassNeighbour, TakeRerr, MarkRouteInv
    <3> QED BY <2>7, <3>1, <3>2, <3>3, <3>4 DEF MeshStep
  <2>8. CASE \/ \E d \in Dest : UseRoute(d) \/ LeaseEnds(d)
             \/ Cleanup \/ RoutingReset \/ UNCHANGED rtVars
    BY <2>2, <2>8 DEF UseRoute, LeaseEnds, Cleanup, RoutingReset, rtVars
  <2> QED BY <2>3, <2>4, <2>5, <2>7, <2>8 DEF RtNext
<1> QED BY <1>1, <1>2, <1>3 DEF RtTypeOK

THEOREM RtInvariance == RtSpec => []RtInv
<1>1. RtInv /\ [RtNext]_rtVars => RtInv'
  BY RtNextTable, RtNextTypeOK DEF RtInv
<1> QED BY InitRtInv, <1>1, PTL DEF RtSpec

\* Types, for any number of destinations, neighbours and threads.
THEOREM RtTypeCorrect == RtSpec => []RtTypeOK
<1>1. RtInv => RtTypeOK
  BY DEF RtInv
<1> QED BY RtInvariance, <1>1, PTL

\* Where no RREQ moved the next hop, the next hop table is exactly the inverse
\* of the routing table and free of dangling pointers.
THEOREM NextHopTableIsInverse == RtSpec => []InverseUnlessMoved
<1>1. RtInv => InverseUnlessMoved
  BY DEF RtInv, Sound, InverseUnlessMoved, MappingsOf
<1> QED BY RtInvariance, <1>1, PTL

\* Every route stays in some destination list of the next hop table.
THEOREM EveryRouteIsMapped == RtSpec => []RouteIsMapped
<1>1. RtInv => RouteIsMapped
  BY DEF RtInv, Sound, RouteIsMapped, MappingsOf
<1> QED BY RtInvariance, <1>1, PTL

\* Whatever the mesh threads, the timer thread and the command line interleave, a
\* valid route whose next hop no RREQ moved leads over a neighbour, or over one
\* whose RERR is due, was dropped, or went out before a message was captured.
THEOREM RoutesLeadOverNeighbours == RtSpec => []RoutesOverNeighbours
<1>1. RtInv => RoutesOverNeighbours
  BY DEF RtInv
<1> QED BY RtInvariance, <1>1, PTL

-----------------------------------------------------------------------------
(* The mesh. *)

TablesOK == \A n \in Node : Sound(table[n]) /\ table[n].due = {}

SeqTables ==
    NoRestart =>
        \A n, d \in Node : n # d => table[n].rt[d].seq <= seq_num[d]

\* No number in message m is beyond the numbers q of the hosts.
SeqOfMsg(m, q) ==
    /\ m.type = "rreq" => m.seq <= q[m.orig] /\ m.dseq <= q[m.dest]
    /\ m.type = "rrep" => m.seq <= q[m.dest]

SeqMsgs == NoRestart => \A m \in msgs : SeqOfMsg(m, seq_num)

\* A daemon may restart, but no number passes MaxSeq.
SmallTables == \A n, d \in Node : table[n].rt[d].seq <= MaxSeq

SmallMsg(m) ==
    /\ m.type = "rreq" => m.seq <= MaxSeq /\ m.dseq <= MaxSeq
    /\ m.type = "rrep" => m.seq <= MaxSeq

SmallMsgs == \A m \in msgs : SmallMsg(m)

\* With the tables t, whoever sent the RREQ m knows its originator, whoever
\* sent the RREP m knows its destination and has addressed it to a node that
\* knows the originator.
PathOfMsg(m, t) ==
    /\ m.type = "rreq" => m.from = m.orig \/ t[m.from].rt[m.orig].known
    /\ m.type = "rrep" => /\ m.from = m.dest \/ t[m.from].rt[m.dest].known
                          /\ m.to = m.orig \/ t[m.to].rt[m.orig].known

\* A message that a step adds to msgs, with the numbers q and tables t after it.
NewMsgOK(m, q, t) ==
    /\ m \in Message /\ SmallMsg(m)
    /\ NoRestart => SeqOfMsg(m, q)
    /\ NothingForgotten => PathOfMsg(m, t)

PathMsgs == NothingForgotten => \A m \in msgs : PathOfMsg(m, table)

IInv ==
    /\ TypeOK /\ TablesOK
    /\ SeqTables /\ SeqMsgs
    /\ SmallTables /\ SmallMsgs
    /\ NextHopKnows /\ PathMsgs

-----------------------------------------------------------------------------
(* Messages. *)

LEMMA RreqFields ==
    ASSUME TypeOK, NEW m \in msgs, m.type = "rreq"
    PROVE  /\ m.orig \in Node /\ m.dest \in Node /\ m.from \in Node
           /\ m.seq \in SeqNum /\ m.dseq \in SeqNum /\ m.asked \in BOOLEAN
           /\ m.ttl \in 1..255 /\ m.metric \in 0..MaxMetric
BY DEF TypeOK, Message

LEMMA RrepFields ==
    ASSUME TypeOK, NEW m \in msgs, m.type = "rrep"
    PROVE  /\ m.orig \in Node /\ m.dest \in Node /\ m.from \in Node
           /\ m.to \in Node /\ m.seq \in SeqNum /\ m.metric \in 0..MaxMetric
BY DEF TypeOK, Message

LEMMA RerrFields ==
    ASSUME TypeOK, NEW m \in msgs, m.type = "rerr"
    PROVE  m.orig \in Node /\ m.from \in Node /\ m.list \in SUBSET (Node \X SeqNum)
BY DEF TypeOK, Message

LEMMA RreqType ==
    ASSUME NEW o \in Node, NEW d \in Node, NEW n \in Node, NEW seq \in SeqNum,
           NEW dseq \in SeqNum, NEW asked \in BOOLEAN, NEW ttl \in 1..255,
           NEW metric \in 0..MaxMetric
    PROVE  Rreq(o, d, n, seq, dseq, asked, ttl, metric) \in Message
BY DEF Rreq, Message

LEMMA RrepType ==
    ASSUME NEW d \in Node, NEW o \in Node, NEW n \in Node, NEW h \in Node,
           NEW seq \in SeqNum, NEW metric \in 0..MaxMetric
    PROVE  Rrep(d, o, n, h, seq, metric) \in Message
BY DEF Rrep, Message

LEMMA RerrType ==
    ASSUME NEW o \in Node, NEW n \in Node, NEW list \in SUBSET (Node \X SeqNum)
    PROVE  Rerr(o, n, list) \in Message
BY DEF Rerr, Message

LEMMA SmallSeq == 0..MaxSeq \subseteq SeqNum
BY NetAssumption, HalfRangeBounds, SeqModAssumption DEF SeqNum

\* hf_comp_u32 calls a small number older than a greater one.
LEMMA SmallerIsOlder ==
    ASSUME NEW i \in SeqNum, NEW j \in Nat, i < j, j <= HalfRange
    PROVE  ~(Comp(i, j) > 0)
<1>1. Diff(i, j) = i - j + SeqMod
  BY SeqModAssumption DEF Diff, SeqNum
<1>2. ~(Diff(i, j) < HalfRange)
  BY <1>1, HalfRangeBounds, SeqModAssumption DEF SeqNum
<1> QED BY <1>2, SeqModAssumption DEF Comp, SeqNum

-----------------------------------------------------------------------------
(* A step that changes the table of one node by what it learned. *)

LEMMA LearntTwice ==
    ASSUME NEW T, NEW U, NEW V, NEW o, NEW h, NEW s,
           Learnt(T, U, o, h, s), Learnt(U, V, o, h, 0)
    PROVE  Learnt(T, V, o, h, s)
BY DEF Learnt

LEMMA LearntRange ==
    ASSUME NEW T, NEW U, NEW o, NEW h, NEW s, Learnt(T, U, o, h, s),
           NEW V, V.rt = U.rt, V.due = {}
    PROVE  Learnt(T, V, o, h, s)
BY DEF Learnt

LEMMA TableStep ==
    ASSUME IInv, NEW n \in Node, NEW U, Sound(U),
           NEW o \in Node, NEW h \in Node, NEW s \in SeqNum,
           Learnt(table[n], U, o, h, s),
           table' = [table EXCEPT ![n] = U],
           seq_num' \in [Node -> 0..MaxSeq],
           \A d \in Node : seq_num[d] <= seq_num'[d],
           budget'.restart = budget.restart,
           budget'.lease = budget.lease,
           s <= MaxSeq, NoRestart => s <= seq_num[o],
           NothingForgotten => h = o \/ Known(h, o)
    PROVE  /\ table' \in [Node -> Table]
           /\ TablesOK' /\ SeqTables' /\ SmallTables' /\ NextHopKnows'
           /\ NoRestart' <=> NoRestart
           /\ NothingForgotten' <=> NothingForgotten
           /\ \A x, d \in Node : Known(x, d) => Known(x, d)'
<1>1. /\ table \in [Node -> Table] /\ seq_num \in [Node -> 0..MaxSeq]
  BY DEF IInv, TypeOK
<1>2. table'[n] = U /\ \A x \in Node \ {n} : table'[x] = table[x]
  BY <1>1
<1>3. table' \in [Node -> Table]
  BY <1>1 DEF Sound
<1>4. TablesOK'
  BY <1>2 DEF TablesOK, IInv, Learnt
<1>5. NoRestart' <=> NoRestart
  BY DEF NoRestart
<1>6. NothingForgotten' <=> NothingForgotten
  BY <1>5 DEF NothingForgotten
<1>7. SeqTables'
  <2> SUFFICES ASSUME NoRestart, NEW x \in Node, NEW d \in Node, x # d
               PROVE  table'[x].rt[d].seq <= seq_num'[d]
    BY <1>5 DEF SeqTables
  <2>1. table[x].rt[d].seq <= seq_num[d] /\ table[x].rt[d].seq \in SeqNum
    <3>1. table[x].rt[d].seq <= seq_num[d]
      BY DEF IInv, SeqTables
    <3>2. table[x].rt \in [Node -> Entry]
      BY <1>1 DEF Table, Node
    <3> QED BY <3>1, <3>2 DEF Entry
  <2>2. seq_num[d] \in 0..MaxSeq /\ seq_num'[d] \in 0..MaxSeq
        /\ seq_num[d] <= seq_num'[d] /\ MaxSeq \in Nat
    BY <1>1, NetAssumption
  <2>3. CASE x # n
    BY <1>2, <2>1, <2>2, <2>3, SeqModAssumption DEF SeqNum
  <2>4. CASE x = n
    <3>1. \/ table'[x].rt[d].seq \in {table[x].rt[d].seq, 0}
          \/ d = o /\ table'[x].rt[d].seq = s
      BY <1>2, <2>4 DEF Learnt, Node
    <3> QED BY <2>1, <2>2, <3>1, SeqModAssumption DEF SeqNum
  <2> QED BY <2>3, <2>4
<1>8. \A x, d \in Node : Known(x, d) => Known(x, d)'
  BY <1>2 DEF Known, Learnt, Node
<1>9. NextHopKnows'
  <2> SUFFICES ASSUME NothingForgotten, NEW x \in Node, NEW d \in Node,
                      Known(x, d)'
               PROVE  table'[x].rt[d].hop = d \/ Known(table[x].rt[d].hop, d)'
    BY <1>6 DEF NextHopKnows
  <2>1. CASE Known(x, d) /\ table'[x].rt[d].hop = table[x].rt[d].hop
    <3>1. table[x].rt[d].hop = d \/ Known(table[x].rt[d].hop, d)
      BY <2>1 DEF IInv, NextHopKnows
    <3>2. table[x].rt[d].hop \in Node
      BY <1>1, <2>1, NetAssumption
         DEF IInv, TablesOK, Sound, Table, Entry, Known, Node
    <3> QED BY <1>8, <2>1, <3>1, <3>2
  <2>2. CASE x = n /\ d = o /\ table'[x].rt[d].hop = h
    BY <1>8, <2>2
  <2> QED BY <1>2, <2>1, <2>2 DEF Known, Learnt, Node
<1>10. SmallTables'
  <2> SUFFICES ASSUME NEW x \in Node, NEW d \in Node
               PROVE  table'[x].rt[d].seq <= MaxSeq
    BY DEF SmallTables
  <2>1. table[x].rt[d].seq <= MaxSeq /\ 0 <= MaxSeq
    BY NetAssumption DEF IInv, SmallTables
  <2> QED BY <1>2, <2>1 DEF Learnt, Node
<1> QED BY <1>3, <1>4, <1>5, <1>6, <1>7, <1>8, <1>9, <1>10

\* The messages that were sent before stay as good as they were.
LEMMA MessageStep ==
    ASSUME IInv,
           \A m \in msgs' \ msgs : NewMsgOK(m, seq_num', table'),
           seq_num' \in [Node -> 0..MaxSeq],
           \A d \in Node : seq_num[d] <= seq_num'[d],
           NoRestart' => NoRestart,
           NothingForgotten' => NothingForgotten,
           \A x, d \in Node : Known(x, d) => Known(x, d)'
    PROVE  msgs' \subseteq Message /\ SeqMsgs' /\ SmallMsgs' /\ PathMsgs'
<1> USE DEF NewMsgOK
<1>1. msgs \subseteq Message /\ TypeOK /\ seq_num \in [Node -> 0..MaxSeq]
  BY DEF IInv, TypeOK
<1>2. SeqMsgs'
  <2> SUFFICES ASSUME NoRestart, NEW m \in msgs PROVE SeqOfMsg(m, seq_num')
    BY DEF SeqMsgs
  <2>1. SeqOfMsg(m, seq_num)
    BY DEF IInv, SeqMsgs
  <2>2. \A d \in Node : /\ seq_num[d] \in 0..MaxSeq /\ seq_num'[d] \in 0..MaxSeq
                        /\ seq_num[d] <= seq_num'[d]
    BY <1>1
  <2>3. CASE m.type = "rreq"
    BY <1>1, <2>1, <2>2, <2>3, RreqFields, NetAssumption, SeqModAssumption
       DEF SeqOfMsg, SeqNum
  <2>4. CASE m.type = "rrep"
    BY <1>1, <2>1, <2>2, <2>4, RrepFields, NetAssumption, SeqModAssumption
       DEF SeqOfMsg, SeqNum
  <2> QED BY <2>3, <2>4 DEF SeqOfMsg
<1>3. PathMsgs'
  <2> SUFFICES ASSUME NothingForgotten, NEW m \in msgs
               PROVE  PathOfMsg(m, table')
    BY DEF PathMsgs
  <2>1. PathOfMsg(m, table)
    BY DEF IInv, PathMsgs
  <2>2. \A x, d \in Node : table[x].rt[d].known => table'[x].rt[d].known
    BY DEF Known
  <2>3. CASE m.type = "rreq"
    BY <1>1, <2>1, <2>2, <2>3, RreqFields DEF PathOfMsg
  <2>4. CASE m.type = "rrep"
    BY <1>1, <2>1, <2>2, <2>4, RrepFields DEF PathOfMsg
  <2> QED BY <2>3, <2>4 DEF PathOfMsg
<1>4. SmallMsgs'
  BY DEF IInv, SmallMsgs, SmallMsg
<1> QED BY <1>1, <1>2, <1>3, <1>4

\* Both together: what an action has to provide.
LEMMA Step ==
    ASSUME IInv, NEW n \in Node, NEW U, Sound(U),
           NEW o \in Node, NEW h \in Node, NEW s \in SeqNum,
           Learnt(table[n], U, o, h, s),
           table' = [table EXCEPT ![n] = U],
           seq_num' \in [Node -> 0..MaxSeq],
           \A d \in Node : seq_num[d] <= seq_num'[d],
           budget' \in [loss : 0..MaxLosses, restart : 0..MaxRestarts,
                        lease : 0..MaxLeases],
           budget'.restart = budget.restart,
           budget'.lease = budget.lease,
           s <= MaxSeq, NoRestart => s <= seq_num[o],
           NothingForgotten => h = o \/ Known(h, o),
           neighbours' \in [Node -> SUBSET Node],
           \A m \in msgs' \ msgs : NewMsgOK(m, seq_num', table')
    PROVE  IInv'
<1>1. /\ table' \in [Node -> Table]
      /\ TablesOK' /\ SeqTables' /\ SmallTables' /\ NextHopKnows'
      /\ NoRestart' <=> NoRestart
      /\ NothingForgotten' <=> NothingForgotten
      /\ \A x, d \in Node : Known(x, d) => Known(x, d)'
  BY TableStep
<1>2. msgs' \subseteq Message /\ SeqMsgs' /\ SmallMsgs' /\ PathMsgs'
  BY <1>1, MessageStep
<1>3. TypeOK'
  BY <1>1, <1>2 DEF TypeOK
<1> QED BY <1>1, <1>2, <1>3 DEF IInv

-----------------------------------------------------------------------------
(* The actions. *)

LEMMA SoundTables ==
    ASSUME IInv, NEW n \in Node
    PROVE  /\ Sound(table[n]) /\ table[n].due = {} /\ table[n] \in Table
           /\ table[n].rt \in [Node -> Entry]
BY DEF IInv, TablesOK, Sound, Table, Node

\* The scenario stays one of the scenarios.
WorldIn == world \in Scenarios

LEMMA WorldBounds ==
    ASSUME WorldIn
    PROVE  /\ \A n \in Node : world.last[n] \in 0..MaxSeq
           /\ world.ttl \subseteq 1..255
           /\ \A r \in world.request : r[1] \in Node /\ r[2] \in Node /\ r[1] # r[2]
<1>1. world \in Scenario
  BY ScenarioAssumption DEF WorldIn
<1> QED BY <1>1 DEF Scenario

\* The messages a step adds when no table changes.
LEMMA SendOnly ==
    ASSUME IInv, NEW n \in Node, UNCHANGED table,
           seq_num' \in [Node -> 0..MaxSeq],
           \A d \in Node : seq_num[d] <= seq_num'[d],
           neighbours' \in [Node -> SUBSET Node], UNCHANGED budget,
           \A m \in msgs' \ msgs : NewMsgOK(m, seq_num', table)
    PROVE  IInv'
<1>1. TypeOK
  BY DEF IInv
<1>2. Sound(table[n]) /\ table[n].due = {}
  BY SoundTables
<1>3. Learnt(table[n], table[n], n, n, 0)
  BY <1>2 DEF Learnt
<1>4. table' = [table EXCEPT ![n] = table[n]]
  BY <1>1 DEF TypeOK
<1>5. 0 \in SeqNum /\ 0 <= seq_num[n] /\ 0 <= MaxSeq
  BY <1>1, SeqModAssumption, NetAssumption DEF TypeOK, SeqNum
<1>6. budget' \in [loss : 0..MaxLosses, restart : 0..MaxRestarts,
                   lease : 0..MaxLeases]
  BY <1>1 DEF TypeOK
<1> QED BY <1>2, <1>3, <1>4, <1>5, <1>6, Step

LEMMA SendRreqStep ==
    ASSUME IInv, WorldIn, NEW r \in world.request, NEW ttl \in world.ttl,
           SendRreq(r[1], r[2], ttl)
    PROVE  IInv'
<1> DEFINE o == r[1]
           d == r[2]
           m == Rreq(o, d, o, seq_num[o] + 1, Seq(o, d), Known(o, d), ttl, 0)
<1>1. o \in Node /\ d \in Node /\ o # d /\ ttl \in 1..255 /\ MaxSeq \in Nat
      /\ world.last[o] \in 0..MaxSeq
  BY NetAssumption, WorldBounds
<1> HIDE DEF o, d
<1>2. TypeOK /\ seq_num \in [Node -> 0..MaxSeq]
  BY DEF IInv, TypeOK
<1>3. /\ seq_num[o] < MaxSeq /\ UNCHANGED <<table, neighbours, budget>>
      /\ seq_num' = [seq_num EXCEPT ![o] = @ + 1]
      /\ msgs' = msgs \cup {m}
  BY <1>1, <1>2 DEF SendRreq, o, d
<1>4. /\ seq_num' \in [Node -> 0..MaxSeq] /\ seq_num'[o] = seq_num[o] + 1
      /\ \A x \in Node : seq_num[x] <= seq_num'[x]
  BY <1>1, <1>2, <1>3
<1>5. Known(o, d) \in BOOLEAN /\ table[o].rt[d].seq \in SeqNum
  BY <1>1, SoundTables DEF Known, Entry
<1>6. Seq(o, d) \in SeqNum /\ (NoRestart => Seq(o, d) <= seq_num[d])
  <2>1. NoRestart => table[o].rt[d].seq <= seq_num[d]
    BY <1>1 DEF IInv, SeqTables
  <2> QED BY <1>1, <1>2, <1>5, <2>1, SeqModAssumption DEF Seq, SeqNum
<1>7. m \in Message
  <2>1. seq_num[o] + 1 \in SeqNum
    BY <1>1, <1>2, <1>3, SmallSeq
  <2>2. 0 \in 0..MaxMetric
    BY TableAssumption
  <2> QED BY <1>1, <1>5, <1>6, <2>1, <2>2, RreqType
<1>8. NoRestart => SeqOfMsg(m, seq_num')
  <2>1. m.type = "rreq" /\ m.orig = o /\ m.seq = seq_num[o] + 1
        /\ m.dest = d /\ m.dseq = Seq(o, d)
    BY DEF Rreq
  <2>2. NoRestart => Seq(o, d) <= seq_num'[d]
    BY <1>1, <1>2, <1>4, <1>6, SeqModAssumption DEF SeqNum
  <2> HIDE DEF m
  <2> QED BY <1>1, <1>2, <1>4, <2>1, <2>2 DEF SeqOfMsg
<1>9. PathOfMsg(m, table) /\ SmallMsg(m)
  <2>1. seq_num[o] + 1 <= MaxSeq /\ Seq(o, d) <= MaxSeq
    BY <1>1, <1>2, <1>3 DEF IInv, SmallTables, Seq
  <2> QED BY <2>1 DEF PathOfMsg, SmallMsg, Rreq
<1>10. neighbours' \in [Node -> SUBSET Node]
  BY <1>2, <1>3 DEF TypeOK
<1> HIDE DEF m
<1>11. \A k \in msgs' \ msgs : NewMsgOK(k, seq_num', table)
  BY <1>3, <1>7, <1>8, <1>9 DEF NewMsgOK
<1>12. UNCHANGED table /\ UNCHANGED budget
  BY <1>3
<1> QED BY <1>1, <1>4, <1>10, <1>11, <1>12, SendOnly

LEMMA RepeatRreqStep ==
    ASSUME IInv, WorldIn, NEW k \in msgs, NEW ttl \in world.ttl, RepeatRreq(k, ttl)
    PROVE  IInv'
<1> DEFINE o == k.orig
           m == Rreq(o, k.dest, o, seq_num[o] + 1, k.dseq, k.asked, ttl, 0)
<1>1. TypeOK /\ seq_num \in [Node -> 0..MaxSeq] /\ MaxSeq \in Nat
  BY NetAssumption DEF IInv, TypeOK
<1>2. /\ k.type = "rreq"
      /\ seq_num[o] < world.last[o] /\ UNCHANGED <<table, neighbours, budget>>
      /\ seq_num' = [seq_num EXCEPT ![o] = @ + 1]
      /\ msgs' = msgs \cup {m}
  BY DEF RepeatRreq
<1>3. /\ o \in Node /\ k.dest \in Node /\ k.dseq \in SeqNum
      /\ k.asked \in BOOLEAN /\ ttl \in 1..255 /\ seq_num[o] < MaxSeq
  <2>1. /\ o \in Node /\ k.dest \in Node /\ k.dseq \in SeqNum
        /\ k.asked \in BOOLEAN
    BY <1>1, <1>2, RreqFields
  <2>2. ttl \in 1..255 /\ world.last[o] \in 0..MaxSeq
    BY <2>1, WorldBounds
  <2> QED BY <1>1, <1>2, <2>1, <2>2
<1>4. /\ seq_num' \in [Node -> 0..MaxSeq] /\ seq_num'[o] = seq_num[o] + 1
      /\ \A x \in Node : seq_num[x] <= seq_num'[x]
  <2> HIDE DEF o
  <2> QED BY <1>1, <1>2, <1>3
<1>5. m \in Message
  <2>1. seq_num[o] + 1 \in SeqNum
    BY <1>1, <1>2, <1>3, SmallSeq
  <2>2. 0 \in 0..MaxMetric
    BY TableAssumption
  <2> QED BY <1>3, <2>1, <2>2, RreqType
<1>6. NoRestart => SeqOfMsg(m, seq_num')
  <2>1. m.type = "rreq" /\ m.orig = o /\ m.seq = seq_num[o] + 1
        /\ m.dest = k.dest /\ m.dseq = k.dseq
    BY DEF Rreq
  <2>2. NoRestart => k.dseq <= seq_num[k.dest]
    BY <1>2 DEF IInv, SeqMsgs, SeqOfMsg
  <2>3. NoRestart => k.dseq <= seq_num'[k.dest]
    BY <1>1, <1>3, <1>4, <2>2, SeqModAssumption DEF SeqNum
  <2> HIDE DEF m, o
  <2> QED BY <1>1, <1>3, <1>4, <2>1, <2>3 DEF SeqOfMsg
<1>7. PathOfMsg(m, table) /\ SmallMsg(m)
  <2>1. seq_num[o] + 1 <= MaxSeq /\ k.dseq <= MaxSeq
    BY <1>1, <1>2, <1>3 DEF IInv, SmallMsgs, SmallMsg
  <2> QED BY <2>1 DEF PathOfMsg, SmallMsg, Rreq
<1>8. neighbours' \in [Node -> SUBSET Node]
  BY <1>1, <1>2 DEF TypeOK
<1> HIDE DEF m, o
<1>9. \A x \in msgs' \ msgs : NewMsgOK(x, seq_num', table)
  BY <1>2, <1>5, <1>6, <1>7 DEF NewMsgOK
<1>10. UNCHANGED table /\ UNCHANGED budget
  BY <1>2
<1> QED BY <1>3, <1>4, <1>8, <1>9, <1>10, SendOnly

LEMMA HearHelloStep ==
    ASSUME IInv, NEW n \in Node, NEW h \in Node, HearHello(n, h)
    PROVE  IInv'
<1>1. TypeOK
  BY DEF IInv
<1>2. seq_num' \in [Node -> 0..MaxSeq]
      /\ \A d \in Node : seq_num[d] <= seq_num'[d]
  BY <1>1, NetAssumption DEF HearHello, TypeOK
<1>3. neighbours' \in [Node -> SUBSET Node]
  BY <1>1 DEF HearHello, TypeOK
<1>4. msgs' = msgs \cup {} /\ UNCHANGED <<table, budget>>
  BY DEF HearHello
<1> QED BY <1>2, <1>3, <1>4, SendOnly

LEMMA LoseUnreportedStep ==
    ASSUME IInv, NEW n \in Node, NEW h \in Node,
           LoseNeighbourUnreported(n, h)
    PROVE  IInv'
<1>1. TypeOK
  BY DEF IInv
<1>2. /\ budget.loss > 0 /\ budget' = [budget EXCEPT !.loss = @ - 1]
      /\ neighbours' = [neighbours EXCEPT ![n] = @ \ {h}]
      /\ UNCHANGED <<table, seq_num, msgs>>
  BY DEF LoseNeighbourUnreported
<1>3. /\ budget' \in [loss : 0..MaxLosses, restart : 0..MaxRestarts,
                      lease : 0..MaxLeases]
      /\ budget'.restart = budget.restart /\ budget'.lease = budget.lease
      /\ neighbours' \in [Node -> SUBSET Node]
  BY <1>1, <1>2, NetAssumption DEF TypeOK
<1>4. TypeOK' /\ TablesOK'
  BY <1>1, <1>2, <1>3 DEF TypeOK, TablesOK, IInv
<1>5. /\ SeqTables' /\ SeqMsgs' /\ NextHopKnows' /\ PathMsgs'
      /\ SmallTables' /\ SmallMsgs'
  BY <1>2, <1>3 DEF IInv, SeqTables, SeqMsgs, NextHopKnows, PathMsgs,
                    NoRestart, NothingForgotten, Known, SmallTables, SmallMsgs
<1> QED BY <1>4, <1>5 DEF IInv

LEMMA DataUndeliverableStep ==
    ASSUME IInv, NEW n \in Node, NEW h \in Node, NEW d \in Node,
           DataUndeliverable(n, h, d)
    PROVE  IInv'
<1> DEFINE m == Rerr(n, n, {<<d, UINT32_MAX>>})
<1>1. TypeOK
  BY DEF IInv
<1>2. /\ seq_num' \in [Node -> 0..MaxSeq]
      /\ \A x \in Node : seq_num[x] <= seq_num'[x]
      /\ neighbours' \in [Node -> SUBSET Node]
  BY <1>1, NetAssumption DEF DataUndeliverable, TypeOK
<1>3. msgs' = msgs \cup {m} /\ UNCHANGED <<table, budget>>
  BY DEF DataUndeliverable
<1>4. m \in Message
  <2>1. UINT32_MAX \in SeqNum
    BY SeqModAssumption DEF UINT32_MAX, SeqNum
  <2> QED BY <2>1, RerrType
<1>5. SeqOfMsg(m, seq_num') /\ PathOfMsg(m, table) /\ SmallMsg(m)
  BY DEF SeqOfMsg, PathOfMsg, SmallMsg, Rerr
<1> HIDE DEF m
<1>6. \A x \in msgs' \ msgs : NewMsgOK(x, seq_num', table)
  BY <1>3, <1>4, <1>5 DEF NewMsgOK
<1>7. UNCHANGED table /\ UNCHANGED budget
  BY <1>3
<1> QED BY <1>2, <1>6, <1>7, SendOnly

\* The routes of n to the destinations in D become invalid.
LEMMA InvalidateStep ==
    ASSUME IInv, NEW n \in Node, NEW D,
           table' = [table EXCEPT ![n] = Invalidate(@, D)],
           UNCHANGED seq_num,
           neighbours' \in [Node -> SUBSET Node],
           budget' \in [loss : 0..MaxLosses, restart : 0..MaxRestarts,
                        lease : 0..MaxLeases],
           budget'.restart = budget.restart,
           budget'.lease = budget.lease,
           \A m \in msgs' \ msgs : m \in Message /\ m.type = "rerr"
    PROVE  IInv'
<1> DEFINE U == Invalidate(table[n], D)
<1>1. TypeOK
  BY DEF IInv
<1>2. Sound(table[n]) /\ table[n].due = {} /\ table[n] \in Table
  BY SoundTables
<1>3. Sound(U) /\ Learnt(table[n], U, n, n, 0)
  BY <1>2, InvalidateIsSound, InvalidateLearnsNothing
<1>4. table' = [table EXCEPT ![n] = U]
  OBVIOUS
<1>5. 0 \in SeqNum /\ 0 <= seq_num[n] /\ 0 <= MaxSeq
      /\ seq_num' \in [Node -> 0..MaxSeq]
      /\ \A d \in Node : seq_num[d] <= seq_num'[d]
  BY <1>1, NetAssumption, SeqModAssumption DEF TypeOK, SeqNum
<1>6. \A m \in msgs' \ msgs : NewMsgOK(m, seq_num', table')
  BY DEF NewMsgOK, SeqOfMsg, PathOfMsg, SmallMsg
<1> HIDE DEF U
<1> QED BY <1>3, <1>4, <1>5, <1>6, Step

LEMMA LoseNeighbourStep ==
    ASSUME IInv, NEW n \in Node, NEW h \in Node, LoseNeighbour(n, h)
    PROVE  IInv'
<1> DEFINE gone == DestList(table[n], h)
           list == {<<d, table[n].rt[d].seq>> : d \in gone}
<1>1. TypeOK
  BY DEF IInv
<1>2. /\ budget.loss > 0 /\ budget' = [budget EXCEPT !.loss = @ - 1]
      /\ neighbours' = [neighbours EXCEPT ![n] = @ \ {h}]
      /\ table' = [table EXCEPT ![n] = Invalidate(@, gone)]
      /\ msgs' = IF gone = {} THEN msgs ELSE msgs \cup {Rerr(n, n, list)}
      /\ UNCHANGED seq_num
  BY DEF LoseNeighbour
<1>3. list \in SUBSET (Node \X SeqNum)
  <2>1. gone \subseteq Node
    BY DEF DestList, Node
  <2>2. \A d \in Node : table[n].rt[d].seq \in SeqNum
    BY SoundTables DEF Entry
  <2> QED BY <2>1, <2>2
<1>4. Rerr(n, n, list) \in Message /\ Rerr(n, n, list).type = "rerr"
  BY <1>3, RerrType DEF Rerr
<1>5. \A m \in msgs' \ msgs : m \in Message /\ m.type = "rerr"
  BY <1>2, <1>4
<1>6. neighbours' \in [Node -> SUBSET Node]
  BY <1>1, <1>2 DEF TypeOK
<1>7. /\ budget' \in [loss : 0..MaxLosses, restart : 0..MaxRestarts,
                      lease : 0..MaxLeases]
      /\ budget'.restart = budget.restart /\ budget'.lease = budget.lease
  BY <1>1, <1>2, NetAssumption DEF TypeOK
<1> QED BY <1>2, <1>5, <1>6, <1>7, InvalidateStep

LEMMA HandleRerrStep ==
    ASSUME IInv, NEW n \in Node, NEW m \in msgs, HandleRerr(n, m)
    PROVE  IInv'
<1> DEFINE inv == {e[1] : e \in {a \in Affected(n, m) :
                                    MarkRouteInvApplies(table[n], a[1], a[2])}}
<1>1. TypeOK
  BY DEF IInv
<1>2. /\ m.type = "rerr"
      /\ table' = [table EXCEPT ![n] = Invalidate(@, inv)]
      /\ msgs' = IF inv = {} THEN msgs
                 ELSE msgs \cup {Rerr(m.orig, n, m.list)}
      /\ UNCHANGED <<seq_num, neighbours, budget>>
  BY DEF HandleRerr
<1>3. Rerr(m.orig, n, m.list) \in Message
      /\ Rerr(m.orig, n, m.list).type = "rerr"
  BY <1>1, <1>2, RerrFields, RerrType DEF Rerr
<1>4. \A k \in msgs' \ msgs : k \in Message /\ k.type = "rerr"
  BY <1>2, <1>3
<1>5. /\ neighbours' \in [Node -> SUBSET Node]
      /\ budget' \in [loss : 0..MaxLosses, restart : 0..MaxRestarts,
                      lease : 0..MaxLeases]
      /\ budget'.restart = budget.restart /\ budget'.lease = budget.lease
      /\ UNCHANGED seq_num
  BY <1>1, <1>2 DEF TypeOK
<1> HIDE DEF inv
<1> QED BY <1>2, <1>4, <1>5, InvalidateStep

LEMMA RouteExpiresStep ==
    ASSUME IInv, NEW n \in Node, NEW d \in Node, RouteExpires(n, d)
    PROVE  IInv'
<1> DEFINE T == [table[n] EXCEPT !.due = {d}]
           U == Purge(T)
<1>1. TypeOK
  BY DEF IInv
<1>2. /\ budget.lease > 0 /\ budget' = [budget EXCEPT !.lease = @ - 1]
      /\ table' = [table EXCEPT ![n] = U]
      /\ UNCHANGED <<seq_num, neighbours, msgs>>
  BY DEF RouteExpires
<1>3. /\ budget' \in [loss : 0..MaxLosses, restart : 0..MaxRestarts,
                      lease : 0..MaxLeases]
      /\ budget'.restart = budget.restart /\ budget'.lease # MaxLeases
  BY <1>1, <1>2, NetAssumption DEF TypeOK
<1>4. (NoRestart' <=> NoRestart) /\ ~NothingForgotten'
  BY <1>3 DEF NoRestart, NothingForgotten
<1>5. Sound(U) /\ U.due = {}
      /\ \A x \in Node : U.rt[x].seq \in {table[n].rt[x].seq, 0}
  <2>1. Sound(table[n]) /\ table[n].due = {} /\ d \in Dest
    BY SoundTables DEF Node
  <2>2. T = [table[n] EXCEPT !.due = @ \cup {d}]
    BY <2>1
  <2>3. Sound(T)
    BY <2>1, <2>2, LeaseEndsIsSound
  <2>4. T.rt = table[n].rt
    BY <2>1 DEF Sound, Table
  <2>5. U.rt = [x \in Dest |-> IF x \in T.due THEN Absent ELSE T.rt[x]]
        /\ U.due = {}
    BY DEF Purge
  <2>6. Absent.seq = 0
    BY DEF Absent
  <2> HIDE DEF T, U
  <2>7. Sound(U)
    BY <2>3, PurgeIsSound DEF U
  <2> QED BY <2>4, <2>5, <2>6, <2>7 DEF Node
<1> HIDE DEF U
<1>6. table' \in [Node -> Table] /\ table'[n] = U
      /\ \A x \in Node \ {n} : table'[x] = table[x]
  BY <1>1, <1>2, <1>5 DEF TypeOK, Sound
<1>7. TypeOK' /\ TablesOK'
  BY <1>1, <1>2, <1>3, <1>5, <1>6 DEF TypeOK, TablesOK, IInv
<1>8. SeqTables'
  <2> SUFFICES ASSUME NoRestart, NEW x \in Node, NEW y \in Node, x # y
               PROVE  table'[x].rt[y].seq <= seq_num[y]
    BY <1>2, <1>4 DEF SeqTables
  <2>1. table[x].rt[y].seq <= seq_num[y] /\ 0 <= seq_num[y]
    BY <1>1 DEF IInv, SeqTables, TypeOK
  <2> QED BY <1>5, <1>6, <2>1
<1>9. SeqMsgs' /\ PathMsgs' /\ NextHopKnows' /\ SmallMsgs'
  BY <1>2, <1>4 DEF IInv, SeqMsgs, PathMsgs, NextHopKnows, SmallMsgs
<1>10. SmallTables'
  <2> SUFFICES ASSUME NEW x \in Node, NEW y \in Node
               PROVE  table'[x].rt[y].seq <= MaxSeq
    BY DEF SmallTables
  <2>1. table[x].rt[y].seq <= MaxSeq /\ 0 <= MaxSeq
    BY NetAssumption DEF IInv, SmallTables
  <2> QED BY <1>5, <1>6, <2>1
<1> QED BY <1>7, <1>8, <1>9, <1>10 DEF IInv

LEMMA RestartStep ==
    ASSUME IInv, NEW n \in Node, Restart(n)
    PROVE  IInv'
<1>1. TypeOK
  BY DEF IInv
<1>2. /\ budget.restart > 0 /\ budget' = [budget EXCEPT !.restart = @ - 1]
      /\ table' = [table EXCEPT ![n] = EmptyTable]
      /\ seq_num' = [seq_num EXCEPT ![n] = 0]
      /\ neighbours' = [neighbours EXCEPT ![n] = {}]
      /\ UNCHANGED msgs
  BY DEF Restart
<1>3. /\ budget' \in [loss : 0..MaxLosses, restart : 0..MaxRestarts,
                      lease : 0..MaxLeases]
      /\ budget'.restart # MaxRestarts
  BY <1>1, <1>2, NetAssumption DEF TypeOK
<1>4. ~NoRestart' /\ ~NothingForgotten'
  BY <1>3 DEF NoRestart, NothingForgotten
<1>5. Sound(EmptyTable) /\ EmptyTable.due = {} /\ EmptyTable \in Table
  BY EmptyIsSound DEF Sound, EmptyTable
<1>6. table' \in [Node -> Table] /\ TablesOK'
  BY <1>1, <1>2, <1>5 DEF TypeOK, TablesOK, IInv
<1>7. seq_num' \in [Node -> 0..MaxSeq]
      /\ neighbours' \in [Node -> SUBSET Node]
  BY <1>1, <1>2, NetAssumption DEF TypeOK
<1>8. TypeOK'
  BY <1>1, <1>2, <1>3, <1>6, <1>7 DEF TypeOK
<1>9. SmallTables' /\ SmallMsgs'
  <2>1. \A d \in Node : EmptyTable.rt[d].seq = 0
    BY DEF EmptyTable, Absent, Node
  <2>2. 0 <= MaxSeq
    BY NetAssumption
  <2> HIDE DEF EmptyTable
  <2> QED BY <1>1, <1>2, <2>1, <2>2 DEF IInv, TypeOK, SmallTables, SmallMsgs
<1> QED BY <1>4, <1>6, <1>8, <1>9
        DEF IInv, SeqTables, SeqMsgs, PathMsgs, NextHopKnows

LEMMA HandleRrepStep ==
    ASSUME IInv, NEW n \in Node, NEW m \in msgs, HandleRrep(n, m)
    PROVE  IInv'
<1> DEFINE metric == Metric(m.metric)
           used == CaptRrepUsed(FindOrCreate(table[n], m.dest).rt[m.dest], m.seq)
           T == CaptRrep(table[n], m.dest, m.from, m.seq, metric)
           back == used /\ n # m.orig /\ Usable(T, m.orig)
           U == IF back THEN Refresh(T, m.orig) ELSE T
           k == Rrep(m.dest, m.orig, n, T.rt[m.orig].hop, m.seq, metric)
<1>1. TypeOK /\ Hop = Node
  BY NetAssumption DEF IInv
<1>2. /\ m.type = "rrep" /\ metric <= MaxMetric
      /\ table' = [table EXCEPT ![n] = U]
      /\ msgs' = IF back THEN msgs \cup {k} ELSE msgs
      /\ UNCHANGED <<seq_num, neighbours, budget>>
  BY DEF HandleRrep
<1>3. /\ m.orig \in Node /\ m.dest \in Node /\ m.from \in Node
      /\ m.seq \in SeqNum /\ m.metric \in 0..MaxMetric
  BY <1>1, <1>2, RrepFields
<1>4. metric \in 0..MaxMetric
  BY <1>2, <1>3, TableAssumption DEF Metric
<1> HIDE DEF metric
<1>5. /\ Sound(T) /\ Learnt(table[n], T, m.dest, m.from, m.seq)
      /\ T.rt[m.dest].known
  BY <1>1, <1>3, <1>4, SoundTables, CaptRrepIsSound, CaptRrepLearns DEF Node
<1> HIDE DEF T
<1>6. /\ T \in Table /\ T.due = {} /\ T.rt \in [Node -> Entry]
      /\ \A x \in Node : T.rt[x].known => T.rt[x].hop # NoHop
  BY <1>5 DEF Sound, Learnt, Table, Node
<1>7. U.rt = T.rt /\ U.due = {} /\ Sound(U)
  BY <1>3, <1>5, <1>6, RefreshLearnsNothing, RefreshIsSound DEF Node
<1>8. Learnt(table[n], U, m.dest, m.from, m.seq)
  BY <1>5, <1>7, LearntRange
<1>9. /\ NoRestart => m.seq <= seq_num[m.dest]
      /\ NothingForgotten => m.from = m.dest \/ Known(m.from, m.dest)
      /\ m.seq <= MaxSeq
  BY <1>2 DEF IInv, SeqMsgs, SeqOfMsg, PathMsgs, PathOfMsg, SmallMsgs, SmallMsg, Known
<1>10. /\ seq_num' \in [Node -> 0..MaxSeq]
       /\ \A x \in Node : seq_num[x] <= seq_num'[x]
       /\ neighbours' \in [Node -> SUBSET Node]
       /\ budget' \in [loss : 0..MaxLosses, restart : 0..MaxRestarts,
                       lease : 0..MaxLeases]
       /\ budget'.restart = budget.restart /\ budget'.lease = budget.lease
  BY <1>1, <1>2, NetAssumption DEF TypeOK
<1> HIDE DEF U
<1>11. NextHopKnows' /\ (NothingForgotten' <=> NothingForgotten)
       /\ table'[n] = U
  <2>1. table'[n] = U
    BY <1>1, <1>2 DEF TypeOK
  <2> QED BY <1>2, <1>3, <1>7, <1>8, <1>9, <1>10, <2>1, TableStep
<1>12. back => NewMsgOK(k, seq_num', table')
  <2> SUFFICES ASSUME back PROVE NewMsgOK(k, seq_num', table')
    OBVIOUS
  <2> DEFINE h == T.rt[m.orig].hop
  <2>1. T.rt[m.orig].known /\ h \in Node
    BY <1>1, <1>3, <1>6 DEF Usable, Entry
  <2>2. k \in Message
    BY <1>3, <1>4, <2>1, RrepType
  <2>3. NoRestart => SeqOfMsg(k, seq_num')
    BY <1>2, <1>9 DEF SeqOfMsg, Rrep
  <2>4. NothingForgotten => PathOfMsg(k, table')
    <3> SUFFICES ASSUME NothingForgotten PROVE PathOfMsg(k, table')
      OBVIOUS
    <3>1. k.type = "rrep" /\ k.from = n /\ k.dest = m.dest /\ k.orig = m.orig
          /\ k.to = h
      BY DEF Rrep
    <3>2. table'[n].rt[m.dest].known
      BY <1>5, <1>7, <1>11
    <3>3. table'[n].rt[m.orig].known /\ table'[n].rt[m.orig].hop = h
      BY <1>7, <1>11, <2>1
    <3>4. h = m.orig \/ table'[h].rt[m.orig].known
      BY <1>3, <1>11, <3>3 DEF NextHopKnows, Known
    <3> HIDE DEF k, h
    <3> QED BY <3>1, <3>2, <3>4 DEF PathOfMsg
  <2>5. SmallMsg(k)
    BY <1>9 DEF SmallMsg, Rrep
  <2> QED BY <2>2, <2>3, <2>4, <2>5 DEF NewMsgOK
<1> HIDE DEF k, back
<1>13. \A x \in msgs' \ msgs : NewMsgOK(x, seq_num', table')
  BY <1>2, <1>12
<1> QED BY <1>2, <1>3, <1>7, <1>8, <1>9, <1>10, <1>13, Step

\* The number a destination answers with is not smaller than its own.
LEMMA AnswerSeqGrows ==
    ASSUME NEW own \in 0..MaxSeq, NEW m, m.dseq \in SeqNum, NEW result
    PROVE  AnswerSeq(own, m, result) \in Nat /\ own <= AnswerSeq(own, m, result)
<1> DEFINE bumped == IF result = "metric_hit" THEN own + 1 ELSE own
<1>1. /\ bumped \in Nat /\ own <= bumped /\ bumped <= HalfRange
      /\ m.dseq \in Nat /\ own \in Nat
  BY NetAssumption, HalfRangeBounds, SeqModAssumption DEF SeqNum
<1> HIDE DEF bumped
<1>2. Comp(m.dseq, bumped) > 0 => bumped <= m.dseq
  BY <1>1, SmallerIsOlder
<1>3. AnswerSeq(own, m, result)
         = IF m.asked /\ Comp(m.dseq, bumped) > 0 THEN m.dseq ELSE bumped
  BY DEF AnswerSeq, bumped
<1> QED BY <1>1, <1>2, <1>3

LEMMA HandleRreqStep ==
    ASSUME IInv, WorldIn, NEW n \in Node, NEW m \in msgs, HandleRreq(n, m)
    PROVE  IInv'
<1> DEFINE metric == Metric(m.metric)
           F == FindOrCreate(FindOrCreate(table[n], m.dest), m.orig)
           result == CaptRreqResult(F.rt[m.orig], m.seq, metric)
           T == CaptRreq(table[n], m.dest, m.orig, m.from, m.seq, metric)
           U == CaptRrep(T, m.orig, m.from, 0, metric)
           answer == AnswerSeq(seq_num[n], m, result)
           k == Rrep(n, m.orig, n, m.from, answer, 0)
           V == IF result = "old" THEN T ELSE U
<1>1. TypeOK /\ Hop = Node /\ MaxSeq \in Nat /\ world.last[n] \in 0..MaxSeq
  BY NetAssumption, WorldBounds DEF IInv
<1>2. /\ m.type = "rreq" /\ metric <= MaxMetric
      /\ result = "old" =>
            table' = [table EXCEPT ![n] = T] /\ UNCHANGED <<seq_num, msgs>>
      /\ result # "old" => table' = [table EXCEPT ![n] = U]
      /\ result # "old" /\ n = m.dest =>
            /\ answer <= world.last[n] /\ seq_num' = [seq_num EXCEPT ![n] = answer]
            /\ msgs' = msgs \cup {k}
      /\ result # "old" /\ n # m.dest =>
            /\ msgs' = msgs \cup Answer(n, m, m.ttl - 1, metric, U)
            /\ UNCHANGED seq_num
      /\ UNCHANGED <<neighbours, budget>>
  BY DEF HandleRreq
<1>3. /\ m.orig \in Node /\ m.dest \in Node /\ m.from \in Node
      /\ m.seq \in SeqNum /\ m.dseq \in SeqNum /\ m.asked \in BOOLEAN
      /\ m.ttl \in 1..255 /\ m.metric \in 0..MaxMetric
  BY <1>1, <1>2, RreqFields
<1>4. metric \in 0..MaxMetric /\ 0 \in SeqNum
  BY <1>2, <1>3, TableAssumption, SeqModAssumption DEF Metric, SeqNum
<1> HIDE DEF metric
<1>5. Sound(T) /\ Learnt(table[n], T, m.orig, m.from, m.seq) /\ T.due = {}
  <2>1. Sound(T) /\ Learnt(table[n], T, m.orig, m.from, m.seq)
    BY <1>1, <1>3, <1>4, SoundTables, CaptRreqIsSound, CaptRreqLearns DEF Node
  <2> HIDE DEF T
  <2> QED BY <2>1 DEF Learnt
<1>6. Sound(U) /\ Learnt(T, U, m.orig, m.from, 0) /\ U.rt[m.orig].known
  <2> HIDE DEF T
  <2> QED BY <1>1, <1>3, <1>4, <1>5, CaptRrepIsSound, CaptRrepLearns DEF Node
<1> HIDE DEF result, T, U, answer
<1>7. /\ Sound(V) /\ Learnt(table[n], V, m.orig, m.from, m.seq)
      /\ table' = [table EXCEPT ![n] = V]
  <2>1. Learnt(table[n], U, m.orig, m.from, m.seq)
    BY <1>5, <1>6, LearntTwice
  <2> QED BY <1>2, <1>5, <1>6, <2>1
<1>8. /\ NoRestart => m.seq <= seq_num[m.orig] /\ m.dseq <= seq_num[m.dest]
      /\ NothingForgotten => m.from = m.orig \/ Known(m.from, m.orig)
      /\ m.seq <= MaxSeq /\ m.dseq <= MaxSeq
  BY <1>2 DEF IInv, SeqMsgs, SeqOfMsg, PathMsgs, PathOfMsg, SmallMsgs, SmallMsg, Known
<1>9. /\ seq_num' \in [Node -> 0..MaxSeq]
      /\ \A x \in Node : seq_num[x] <= seq_num'[x]
      /\ result # "old" /\ n = m.dest =>
            seq_num'[n] = answer /\ answer \in SeqNum /\ answer <= MaxSeq
  <2>0. seq_num \in [Node -> 0..MaxSeq]
    BY <1>1 DEF TypeOK
  <2>1. CASE result # "old" /\ n = m.dest
    <3>1. answer \in Nat /\ seq_num[n] <= answer
      BY <1>3, <2>0, AnswerSeqGrows DEF answer
    <3>2. answer \in 0..MaxSeq /\ answer \in SeqNum
      BY <1>1, <1>2, <2>1, <3>1, SmallSeq
    <3> QED BY <1>1, <1>2, <2>0, <2>1, <3>1, <3>2
  <2>2. CASE ~(result # "old" /\ n = m.dest)
    <3>1. UNCHANGED seq_num
      BY <1>2, <2>2
    <3> QED BY <1>1, <2>0, <2>2, <3>1
  <2> QED BY <2>1, <2>2
<1>10. /\ neighbours' \in [Node -> SUBSET Node]
       /\ budget' \in [loss : 0..MaxLosses, restart : 0..MaxRestarts,
                       lease : 0..MaxLeases]
       /\ budget'.restart = budget.restart /\ budget'.lease = budget.lease
  BY <1>1, <1>2 DEF TypeOK
<1> HIDE DEF V
<1>11. /\ SeqTables' /\ SmallTables' /\ (NoRestart' <=> NoRestart)
       /\ \A x, d \in Node : Known(x, d) => Known(x, d)'
       /\ table'[n] = V
  <2>1. table'[n] = V
    BY <1>1, <1>7 DEF TypeOK
  <2> QED BY <1>3, <1>7, <1>8, <1>9, <1>10, <2>1, TableStep
<1>12. ASSUME result # "old", n = m.dest
       PROVE  NewMsgOK(k, seq_num', table')
  <2>1. k \in Message
    BY <1>3, <1>9, <1>12, TableAssumption, RrepType
  <2>2. SeqOfMsg(k, seq_num')
    BY <1>1, <1>9, <1>12 DEF SeqOfMsg, Rrep
  <2>3. NothingForgotten => PathOfMsg(k, table')
    BY <1>3, <1>8, <1>11 DEF PathOfMsg, Rrep, Known
  <2>4. SmallMsg(k)
    BY <1>9, <1>12 DEF SmallMsg, Rrep
  <2> QED BY <2>1, <2>2, <2>3, <2>4 DEF NewMsgOK
<1> HIDE DEF k
<1>13. ASSUME result # "old", n # m.dest,
              NEW x \in Answer(n, m, m.ttl - 1, metric, U)
       PROVE  NewMsgOK(x, seq_num', table')
  <2> DEFINE e == U.rt[m.dest]
             rrep == Rrep(m.dest, m.orig, n, m.from, e.seq, e.metric)
             rreq == Rreq(m.orig, m.dest, n, m.seq, m.dseq, m.asked,
                          m.ttl - 1, metric)
  <2>1. table'[n] = U /\ UNCHANGED seq_num
    BY <1>2, <1>11, <1>13 DEF V
  <2>2. e \in Entry
    BY <1>3, <1>6 DEF Sound, Table, Node
  <2>3. \/ e.known /\ x = rrep
        \/ m.ttl - 1 # 0 /\ x = rreq
    BY <1>13 DEF Answer, MayRepair
  <2>4. CASE e.known /\ x = rrep
    <3>1. rrep \in Message
      BY <1>3, <2>2, RrepType DEF Entry
    <3>2. NoRestart => SeqOfMsg(rrep, seq_num')
      <4>1. NoRestart => e.seq <= seq_num'[m.dest]
        BY <1>3, <1>11, <1>13, <2>1 DEF SeqTables
      <4> QED BY <4>1 DEF SeqOfMsg, Rrep
    <3>3. NothingForgotten => PathOfMsg(rrep, table')
      BY <1>3, <1>8, <1>11, <2>1, <2>4 DEF PathOfMsg, Rrep, Known
    <3>4. SmallMsg(rrep)
      <4>1. e.seq <= MaxSeq
        BY <1>3, <1>11, <2>1 DEF SmallTables
      <4> QED BY <4>1 DEF SmallMsg, Rrep
    <3> QED BY <2>4, <3>1, <3>2, <3>3, <3>4 DEF NewMsgOK
  <2>5. CASE m.ttl - 1 # 0 /\ x = rreq
    <3>1. rreq \in Message
      <4>1. m.ttl - 1 \in 1..255
        BY <1>3, <2>5
      <4> QED BY <1>3, <1>4, <4>1, RreqType
    <3>2. NoRestart => SeqOfMsg(rreq, seq_num')
      BY <1>8, <2>1 DEF SeqOfMsg, Rreq
    <3>3. NothingForgotten => PathOfMsg(rreq, table')
      BY <1>6, <2>1 DEF PathOfMsg, Rreq
    <3>4. SmallMsg(rreq)
      BY <1>8 DEF SmallMsg, Rreq
    <3> QED BY <2>5, <3>1, <3>2, <3>3, <3>4 DEF NewMsgOK
  <2> QED BY <2>3, <2>4, <2>5
<1>14. \A x \in msgs' \ msgs : NewMsgOK(x, seq_num', table')
  BY <1>2, <1>12, <1>13
<1> QED BY <1>3, <1>7, <1>8, <1>9, <1>10, <1>14, Step

-----------------------------------------------------------------------------
(* The theorems. *)

LEMMA InitIInv == Init => IInv
<1> SUFFICES ASSUME Init PROVE IInv
  OBVIOUS
<1> USE DEF Init
<1>1. EmptyTable \in Table /\ EmptyTable.due = {} /\ Sound(EmptyTable)
      /\ \A d \in Node : EmptyTable.rt[d] = Absent
  BY EmptyIsSound DEF Sound, EmptyTable, Node
<1>2. Absent.seq = 0 /\ ~Absent.known
  BY DEF Absent
<1>3. TypeOK
  BY <1>1, NetAssumption DEF TypeOK
<1>4. TablesOK
  BY <1>1 DEF TablesOK
<1>5. SeqTables /\ NextHopKnows
  BY <1>1, <1>2 DEF SeqTables, NextHopKnows, Known
<1>6. SeqMsgs /\ PathMsgs /\ SmallMsgs /\ SmallTables
  BY <1>1, <1>2, NetAssumption DEF SeqMsgs, PathMsgs, SmallMsgs, SmallTables
<1> QED BY <1>3, <1>4, <1>5, <1>6 DEF IInv

LEMMA NextIInv == IInv /\ WorldIn /\ [Next]_vars => IInv' /\ WorldIn'
<1> SUFFICES ASSUME IInv, WorldIn, [Next]_vars PROVE IInv' /\ WorldIn'
  OBVIOUS
<1>0. WorldIn'
  <2>1. world' = world
    BY DEF Next, vars
  <2> QED BY <2>1 DEF WorldIn
<1>1. ASSUME UNCHANGED vars PROVE IInv'
  BY <1>1 DEF vars, IInv, TypeOK, TablesOK, SeqTables, SeqMsgs, NextHopKnows,
              PathMsgs, SmallTables, SmallMsgs, NoRestart, NothingForgotten, Known
<1>2. ASSUME NEW r \in world.request, NEW ttl \in world.ttl,
             SendRreq(r[1], r[2], ttl)
      PROVE  IInv'
  BY <1>2, SendRreqStep
<1>3. ASSUME NEW m \in msgs, NEW ttl \in world.ttl, RepeatRreq(m, ttl)
      PROVE  IInv'
  BY <1>3, RepeatRreqStep
<1>4. ASSUME NEW n \in Node, NEW m \in msgs,
             HandleRreq(n, m) \/ HandleRrep(n, m) \/ HandleRerr(n, m)
      PROVE  IInv'
  BY <1>4, HandleRreqStep, HandleRrepStep, HandleRerrStep
<1>5. ASSUME NEW n \in Node, Restart(n) PROVE IInv'
  BY <1>5, RestartStep
<1>6. ASSUME NEW n \in Node, NEW h \in Node,
             \/ LoseNeighbour(n, h) \/ LoseNeighbourUnreported(n, h)
             \/ HearHello(n, h)
      PROVE  IInv'
  BY <1>6, LoseNeighbourStep, LoseUnreportedStep, HearHelloStep
<1>7. ASSUME NEW n \in Node, NEW h \in Node, NEW d \in Node,
             DataUndeliverable(n, h, d)
      PROVE  IInv'
  BY <1>7, DataUndeliverableStep
<1>8. ASSUME NEW n \in Node, NEW d \in Node, RouteExpires(n, d) PROVE IInv'
  BY <1>8, RouteExpiresStep
<1> QED BY <1>0, <1>1, <1>2, <1>3, <1>4, <1>5, <1>6, <1>7, <1>8
       DEF Next, NetStep, Receive

\* No step of a node and no loss, delay or duplication of a message leads out
\* of the inductive invariant.
THEOREM Invariance == Spec => [](IInv /\ WorldIn)
<1>1. Init => WorldIn
  BY DEF Init, WorldIn
<1> QED BY <1>1, InitIInv, NextIInv, PTL DEF Spec

\* Tables, sequence numbers and messages stay in their ranges.
THEOREM TypeCorrect == Spec => []TypeOK
<1>1. IInv => TypeOK
  BY DEF IInv
<1> QED BY <1>1, Invariance, PTL

\* aodv_handle_rreq, aodv_handle_rrep: in a network of any size, no table and
\* no message names a sequence number that the host has not reached, until a
\* daemon restarts.
THEOREM SequenceBound == Spec => []SeqBound
<1>1. IInv => SeqBound
  BY DEF IInv, SeqTables, SeqMsgs, SeqOfMsg, SeqBound
<1> QED BY <1>1, Invariance, PTL

\* aodv_db_rt_capt_rreq, aodv_db_rt_capt_rrep: in a network of any size, a
\* next hop is the destination or has a next hop itself, until something is
\* forgotten.
THEOREM RoutesLeadToKnowers == Spec => []NextHopKnows
<1>1. IInv => NextHopKnows
  BY DEF IInv
<1> QED BY <1>1, Invariance, PTL

\* aodv_handle_rrep: in a network of any size, a RREP is addressed to a node
\* that can pass it on, until something is forgotten.
THEOREM RepliesFindReverse == Spec => []RrepFindsReverse
<1>1. IInv => RrepFindsReverse
  BY DEF IInv, PathMsgs, PathOfMsg, RrepFindsReverse, Known
<1> QED BY <1>1, Invariance, PTL

-----------------------------------------------------------------------------
(* The answers of destinations and of intermediate nodes. *)

\* Of two numbers that were reached, the one that j is not newer than is as
\* new as j.
LEMMA SmallNotOlder ==
    ASSUME NEW i \in 0..MaxSeq, NEW j \in 0..MaxSeq, ~(Comp(j, i) > 0)
    PROVE  Comp(i, j) >= 0
<1>1. /\ i \in Nat /\ j \in Nat /\ i < HalfRange /\ j < HalfRange
      /\ i \in SeqNum /\ j \in SeqNum
  BY NetAssumption, HalfRangeBounds, SmallSeq
<1>2. CASE i = j
  BY <1>2, CompSame
<1>3. CASE i < j
  BY <1>1, <1>3, CompIsOrder, CompRange
<1>4. CASE i > j
  BY <1>1, <1>4, CompIsOrder, CompRange
<1> QED BY <1>1, <1>2, <1>3, <1>4

\* No RREP that n sends in answer to m is older than m asks for.
LEMMA FreshStep ==
    ASSUME IInv, IInv', WorldIn, NEW n \in Node, NEW m \in msgs, HandleRreq(n, m),
           m.asked, NEW k \in msgs' \ msgs, k.type = "rrep"
    PROVE  Comp(k.seq, m.dseq) >= 0
<1> DEFINE metric == Metric(m.metric)
           F == FindOrCreate(FindOrCreate(table[n], m.dest), m.orig)
           result == CaptRreqResult(F.rt[m.orig], m.seq, metric)
           T == CaptRreq(table[n], m.dest, m.orig, m.from, m.seq, metric)
           U == CaptRrep(T, m.orig, m.from, 0, metric)
           own == seq_num[n]
           answer == AnswerSeq(own, m, result)
<1>1. TypeOK /\ MaxSeq \in Nat /\ seq_num \in [Node -> 0..MaxSeq]
      /\ world.last[n] \in 0..MaxSeq
  BY NetAssumption, WorldBounds DEF IInv, TypeOK
<1>2. /\ m.type = "rreq"
      /\ result = "old" => UNCHANGED msgs
      /\ result # "old" => table' = [table EXCEPT ![n] = U]
      /\ result # "old" /\ n = m.dest =>
            /\ answer <= world.last[n]
            /\ msgs' = msgs \cup {Rrep(n, m.orig, n, m.from, answer, 0)}
      /\ result # "old" /\ n # m.dest =>
            msgs' = msgs \cup Answer(n, m, m.ttl - 1, metric, U)
  BY DEF HandleRreq
<1> HIDE DEF metric, U, result
<1>3. m.dest \in Node /\ m.dseq \in 0..MaxSeq
  <2>1. m.dest \in Node /\ m.dseq \in SeqNum
    BY <1>1, <1>2, RreqFields
  <2>2. m.dseq <= MaxSeq
    BY <1>2 DEF IInv, SmallMsgs, SmallMsg
  <2> QED BY <1>1, <2>1, <2>2, SeqModAssumption DEF SeqNum
<1>4. CASE result # "old" /\ n = m.dest
  <2> DEFINE bumped == IF result = "metric_hit" THEN own + 1 ELSE own
  <2>1. k.seq = answer
    BY <1>2, <1>4 DEF Rrep
  <2>2. bumped \in Nat
    BY <1>1
  <2> HIDE DEF bumped
  <2>3. answer = IF m.asked /\ Comp(m.dseq, bumped) > 0 THEN m.dseq ELSE bumped
    BY DEF AnswerSeq, bumped
  <2> HIDE DEF answer
  <2>4. CASE answer = m.dseq
    BY <2>1, <2>4, CompSame
  <2>5. CASE answer = bumped /\ ~(Comp(m.dseq, bumped) > 0)
    <3>1. bumped \in 0..MaxSeq
      BY <1>1, <1>2, <1>4, <2>2, <2>5
    <3> QED BY <1>3, <2>1, <2>5, <3>1, SmallNotOlder
  <2> QED BY <2>3, <2>4, <2>5
<1>5. CASE result # "old" /\ n # m.dest
  <2> DEFINE s == U.rt[m.dest].seq
  <2>1. table'[n] = U
    BY <1>1, <1>2, <1>5 DEF TypeOK
  <2>2. s \in 0..MaxSeq
    <3>1. s <= MaxSeq
      BY <1>3, <2>1 DEF IInv, SmallTables
    <3>2. table'[n].rt \in [Node -> Entry]
      BY DEF IInv, TypeOK, Table, Node
    <3> QED BY <1>1, <1>3, <2>1, <3>1, <3>2, SeqModAssumption DEF Entry, SeqNum
  <2>3. k.seq = s /\ ~(Comp(m.dseq, s) > 0)
    BY <1>2, <1>5 DEF Answer, MayRepair, Rrep, Rreq
  <2> HIDE DEF s
  <2> QED BY <1>3, <2>2, <2>3, SmallNotOlder
<1> QED BY <1>2, <1>4, <1>5

\* aodv_handle_rreq: in a network of any size, an answer to a RREQ that names a
\* sequence number is never older than that number, whoever answers and
\* whatever a restart has made the node forget.
THEOREM FreshAnswers == Spec => AnswersAreFresh
<1>1. IInv /\ IInv' /\ WorldIn =>
          \A n \in Node, m \in msgs :
              HandleRreq(n, m) /\ m.asked =>
                  \A k \in msgs' \ msgs :
                      k.type = "rrep" => Comp(k.seq, m.dseq) >= 0
  BY FreshStep
<1>2. IInv /\ WorldIn /\ [Next]_vars => IInv'
  BY NextIInv
<1> QED BY <1>1, <1>2, Invariance, PTL DEF Spec, AnswersAreFresh
=============================================================================
