---------------------------- MODULE AodvTimeslot ----------------------------
(***************************************************************************)
(* timeslot.c: the leases of the objects of a des-aodv table as a doubly   *)
(* linked list, earliest end at the tail, with a hash from objects to list *)
(* elements.  Routing table, neighbour table, packet buffer, data sequence *)
(* numbers and the RREQ and RERR logs all end their entries through it.    *)
(* An object has at most one element, so that an element is named by its   *)
(* object.  Every action is one call under the lock of the table.          *)
(***************************************************************************)
EXTENDS Integers, FiniteSets

CONSTANTS
    Object,
    NULL,
    Lifetime, \* bound: purge_timeout, and the lifetimes of the varpurge calls
    MaxTime   \* bound: the time at which the clock stops

ASSUME TimeslotAssumption ==
    /\ NULL \notin Object
    /\ IsFiniteSet(Object)
    /\ Lifetime \subseteq Nat /\ MaxTime \in Nat

VARIABLES
    ts,     \* the timeslot: el, head, tail, size, hash
    purged, \* the objects the last step handed to object_purger
    now     \* gettimeofday

tsVars == <<ts, purged, now>>

Free == [prev |-> NULL, next |-> NULL, purge_time |-> 0]

\* timeslot_create
TsInit ==
    /\ ts = [el |-> [o \in Object |-> Free], head |-> NULL, tail |-> NULL,
             size |-> 0, hash |-> {}]
    /\ purged = {}
    /\ now = 0

-----------------------------------------------------------------------------
(* The list. *)

\* Mutant: the tail stays where it was.
UnlinkKeepTail(S, o) ==
    LET e == S.el[o] IN
    [el   |-> [x \in Object |->
                 IF x = o THEN Free
                 ELSE [S.el[x] EXCEPT !.next = IF x = e.prev THEN e.next ELSE @,
                                      !.prev = IF x = e.next THEN e.prev ELSE @]],
     head |-> IF S.head = o THEN e.prev ELSE S.head,
     tail |-> S.tail,
     size |-> S.size - 1,
     hash |-> S.hash \ {o}]

\* timeslot_deleteobject, the element is found.
Unlink(S, o) ==
    LET e == S.el[o] IN
    [el   |-> [x \in Object |->
                 IF x = o THEN Free
                 ELSE [S.el[x] EXCEPT !.next = IF x = e.prev THEN e.next ELSE @,
                                      !.prev = IF x = e.next THEN e.prev ELSE @]],
     head |-> IF S.head = o THEN e.prev ELSE S.head,
     tail |-> IF S.tail = o THEN e.next ELSE S.tail,
     size |-> S.size - 1,
     hash |-> S.hash \ {o}]

Delete(S, o) == IF o \in S.hash THEN Unlink(S, o) ELSE S

\* Mutant: the new element always becomes the head.
PositionAtHead(S, t) == S.head

\* Search from the head: the last element that ends no later than t, or else
\* the tail.
Position(S, t) ==
    LET walk[x \in Object] ==
            IF S.el[x].prev # NULL /\ t < S.el[x].purge_time
            THEN walk[S.el[x].prev] ELSE x
    IN  walk[S.head]

\* Link o, with a lease until t, after x or before it.
InsertAfter(S, x, o, t) ==
    [el   |-> [y \in Object |->
                 IF y = o
                 THEN [prev |-> x, next |-> S.el[x].next, purge_time |-> t]
                 ELSE [S.el[y] EXCEPT !.next = IF y = x THEN o ELSE @,
                                      !.prev = IF y = S.el[x].next THEN o
                                               ELSE @]],
     head |-> IF S.head = x THEN o ELSE S.head,
     tail |-> S.tail,
     size |-> S.size + 1,
     hash |-> S.hash \cup {o}]

InsertBefore(S, x, o, t) ==
    [el   |-> [y \in Object |->
                 IF y = o
                 THEN [prev |-> S.el[x].prev, next |-> x, purge_time |-> t]
                 ELSE [S.el[y] EXCEPT !.prev = IF y = x THEN o ELSE @,
                                      !.next = IF y = S.el[x].prev THEN o
                                               ELSE @]],
     head |-> S.head,
     tail |-> IF S.tail = x THEN o ELSE S.tail,
     size |-> S.size + 1,
     hash |-> S.hash \cup {o}]

Insert(S, o, t) ==
    LET x == Position(S, t) IN
    IF S.el[x].purge_time <= t THEN InsertAfter(S, x, o, t)
    ELSE InsertBefore(S, x, o, t)

\* The first element of a list.
Single(S, o, t) ==
    [el   |-> [S.el EXCEPT ![o] = [prev |-> NULL, next |-> NULL,
                                   purge_time |-> t]],
     head |-> o, tail |-> o, size |-> 1, hash |-> S.hash \cup {o}]

\* The elements timeslot_purgeobjects unlinks: from the tail on, until one is
\* not due or the head is reached.
Due(S, t) ==
    LET from[x \in Object \cup {NULL}] ==
            IF x = NULL \/ S.el[x].purge_time > t THEN {}
            ELSE IF x = S.head THEN {x} ELSE {x} \cup from[S.el[x].next]
    IN  from[S.tail]

\* The element that is the tail afterwards.
NewTail(S, t) ==
    LET from[x \in Object \cup {NULL}] ==
            IF x = NULL \/ S.el[x].purge_time > t THEN x
            ELSE IF x = S.head THEN NULL ELSE from[S.el[x].next]
    IN  from[S.tail]

\* timeslot_purgeobjects
Purge(S, t) ==
    LET due == Due(S, t) IN
    [el   |-> [x \in Object |->
                 IF x \in due THEN Free
                 ELSE IF due # {} /\ x = NewTail(S, t)
                 THEN [S.el[x] EXCEPT !.prev = NULL] ELSE S.el[x]],
     head |-> IF S.head \in due THEN NULL ELSE S.head,
     tail |-> NewTail(S, t),
     size |-> S.size - Cardinality(due),
     hash |-> S.hash \ due]

-----------------------------------------------------------------------------
(* The operations. *)

\* timeslot_addobject and timeslot_addobject_varpurge.  The caller has read
\* stamp from the clock before it waited for the lock; the purge reads it anew.
AddObject(o, stamp, lifetime) ==
    LET D == Delete(ts, o)
        S == Insert(D, o, stamp + lifetime)
    IN
    /\ IF D.size = 0
       THEN ts' = Single(D, o, stamp + lifetime) /\ purged' = {}
       ELSE ts' = Purge(S, now) /\ purged' = Due(S, now)
    /\ UNCHANGED now

DeleteObject(o) ==
    /\ ts' = Delete(ts, o)
    /\ purged' = {}
    /\ UNCHANGED now

\* The cleanup of a table, with the time its caller has read.
PurgeObjects(stamp) ==
    /\ ts' = Purge(ts, stamp)
    /\ purged' = Due(ts, stamp)
    /\ UNCHANGED now

Tick ==
    /\ now < MaxTime
    /\ now' = now + 1
    /\ purged' = {}
    /\ UNCHANGED ts

TsNext ==
    \/ \E o \in Object, stamp \in 0..now, lifetime \in Lifetime :
          AddObject(o, stamp, lifetime)
    \/ \E o \in Object : DeleteObject(o)
    \/ \E stamp \in 0..now : PurgeObjects(stamp)
    \/ Tick

TsSpec == TsInit /\ [][TsNext]_tsVars

-----------------------------------------------------------------------------
(* Properties. *)

Pointer == Object \cup {NULL}

TsTypeOK ==
    /\ ts \in [el : [Object -> [prev : Pointer, next : Pointer,
                                purge_time : Nat]],
               head : Pointer, tail : Pointer, size : 0..Cardinality(Object),
               hash : SUBSET Object]
    /\ purged \in SUBSET Object
    /\ now \in 0..MaxTime

\* After any series of insertions, renewals, withdrawals and purges, the list
\* links exactly the hashed elements: head and tail are its ends, prev is the
\* inverse of next, no link leads to a freed element, and leases end in order.
Linked ==
    /\ ts.size = Cardinality(ts.hash)
    /\ ts.head = NULL <=> ts.hash = {}
    /\ ts.tail = NULL <=> ts.hash = {}
    /\ \A x \in ts.hash :
          LET e == ts.el[x] IN
          /\ e.next = NULL <=> x = ts.head
          /\ e.prev = NULL <=> x = ts.tail
          /\ e.next # NULL => /\ e.next \in ts.hash
                              /\ ts.el[e.next].prev = x
                              /\ e.purge_time <= ts.el[e.next].purge_time
          /\ e.prev # NULL => e.prev \in ts.hash /\ ts.el[e.prev].next = x

\* The list implements a set of leases: the walk of timeslot_purgeobjects,
\* which stops at the first element that is not due, misses none and takes
\* none too early.
Leases == INSTANCE AodvLeases
    WITH lease <- [o \in ts.hash |-> ts.el[o].purge_time]

ImplementsLeases == Leases!Spec
=============================================================================
