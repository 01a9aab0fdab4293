----------------------------- MODULE AodvLeases -----------------------------
(***************************************************************************)
(* What a timeslot of des-aodv promises: a set of objects with a lease.    *)
(* Whenever an object is added to others, or the timeslot is cleaned up,   *)
(* exactly the objects whose lease has ended are handed to the purger.     *)
(***************************************************************************)
EXTENDS Integers

CONSTANTS
    Object,   \* the objects a timeslot keeps
    Lifetime, \* bound: the lifetimes of leases
    MaxTime   \* bound: the time at which the clock stops

VARIABLES
    lease,  \* the end of the lease of each object that has one
    purged, \* the objects the last step handed to the purger
    now     \* the clock

vars == <<lease, purged, now>>

Init == lease = [o \in {} |-> 0] /\ purged = {} /\ now = 0

Ended(l, t) == {o \in DOMAIN l : l[o] <= t}

\* Hand what has ended at time t to the purger; the rest of l stays.
PurgeEnded(l, t) ==
    /\ lease' = [o \in DOMAIN l \ Ended(l, t) |-> l[o]]
    /\ purged' = Ended(l, t)

\* A lease that begins at stamp, maybe some time ago: the thread that read the
\* clock had to wait for the lock.  An object that is alone is not purged.
Grant(o, stamp, lifetime) ==
    LET granted == [p \in DOMAIN lease \cup {o} |->
                       IF p = o THEN stamp + lifetime ELSE lease[p]]
    IN
    /\ IF DOMAIN granted = {o} THEN lease' = granted /\ purged' = {}
       ELSE PurgeEnded(granted, now)
    /\ UNCHANGED now

Withdraw(o) ==
    /\ lease' = [p \in DOMAIN lease \ {o} |-> lease[p]]
    /\ purged' = {}
    /\ UNCHANGED now

Cleanup(stamp) == PurgeEnded(lease, stamp) /\ UNCHANGED now

Tick ==
    /\ now < MaxTime
    /\ now' = now + 1
    /\ purged' = {}
    /\ UNCHANGED lease

Next ==
    \/ \E o \in Object, stamp \in 0..now, lifetime \in Lifetime :
          Grant(o, stamp, lifetime)
    \/ \E o \in Object : Withdraw(o)
    \/ \E stamp \in 0..now : Cleanup(stamp)
    \/ Tick

Spec == Init /\ [][Next]_vars
=============================================================================
