# TLA+ models of the DES-Testbed routing daemons

The repository holds a family of routing daemons for the DES-Testbed, a
wireless mesh. Each daemon is one multi-threaded process per mesh node, built
on the DESSERT framework (libdessert, not part of the repository): the
framework calls handlers from several threads, runs periodic tasks from a timer
thread, and sends and receives packets on mesh interfaces and on a TAP
interface towards the host. This directory models `src/des-aodv/trunk` (AODV,
RFC 3561) in most detail, and the cores of `des-batman`, `des-olsr`, `des-lsr`
(branch sfriesel), `des-dsr`, `des-ara` and `des-gossip-adv`.

Contents: [inventory](#inventory), [modules](#modules-and-the-code),
[runs](#what-each-run-checks), [fairness](#fairness), [proofs](#proofs),
[disagreements](#where-the-code-and-its-comments-disagree), [what is left
out](#what-is-not-modelled), [plan](#plan).

## Inventory

### des-aodv (trunk)

Entry points are callbacks: `aodv_sys2rp` (a packet of the host, many threads),
the mesh receive pipeline (`aodv_handle_hello`, `_rreq`, `_rrep`, `_rerr`,
`aodv_forward`, many threads), and periodic tasks (`aodv_periodic_send_hello`,
`aodv_periodic_scexecute`, `aodv_periodic_cleanup_database`; timer thread).
They share two locks: `db_rwlock` around every single call of the database, and
`series_list_lock` around the list of RREQ series. Nothing is held between two
calls, so most hazards lie between two critical sections of one handler.

| component | state | operations | what makes it correct |
| --- | --- | --- | --- |
| RREQ series (`aodv_pipeline.c`) | heap objects in `series_list`: key, stop, retries, ttl | new, send, repeat, reschedule, delete (by owner or by whoever learns a route) | one owner at a time; freed once, not used afterwards; one series per destination; it ends |
| schedule table (`aodv_st.c`) | sorted list and hash of (time, destination, type, parameter) | add, pop, drop | a schedule is never lost and never points to a deleted series |
| RREQ / RERR log (`rreq_log.c`, `rerr_log.c`) | time stamps of the last second | put, count | the rate stays near its limit |
| packet buffer (`packet_buffer.c`) | FIFO per destination, timeslot | push, pop, purge | a buffered packet has a discovery or is flushed |
| routing table (`aodv_rt.c`) | entry per destination (next hop, sequence number, metric, flags, precursors), next hop table (next hop to destination list), timeslot | capture RREQ, capture RREP, get route (renews the lease), mark invalid, invalidate over next hop, purge, reset | the next hop table is the inverse of the routes; a valid route leads over a neighbour, or a RERR for it is due; no pointer to a freed entry |
| timeslot (`timeslot.c`) | list sorted by purge time, with a hash | add, remove, purge | objects leave exactly when their lease ends |
| neighbours and hellos (`nt.c`, `pdr.c`) | bidirectional neighbours with a lease; received hello counts | capture hello, time out, count | a neighbour that falls silent causes a RERR |
| sequence numbers, metrics (`helper.c`, `aodv_metric.c`) | `seq_num_global` | wrap-around comparison, metric update | the comparison is consistent; nobody invents a number |
| discovery and errors (`aodv_pipeline.c`, `aodv_periodic.c`) | messages on the air | RREQ flood, RREP back, RERR | routes lead to hosts that know the way; answers are fresh; broken links are reported |
| forwarding (`aodv_forward.c`, `ds.c`) | last data sequence number per source | forward, report undeliverable, suppress duplicates | a packet is delivered or its sender learns why not |
| gossip (`aodv_gossip.c`) | hold queue of RREQs | rebroadcast with a probability, hold and count copies | a RREQ that dies out is rebroadcast |
| CLI and start (`aodv_cli.c`, `aodv.c`) | switches and limits | set, print, reset the table | - |

Interaction: `aodv_sys2rp` misses a route, buffers the packet and starts a
series; the series sends RREQs and reschedules itself through the schedule
table until a mesh thread captures a route to its destination, ends the series
and flushes the buffer, or the retries are used up. Handlers read and write the
routing table; the neighbour table's time-out schedules the RERR task, which
invalidates the routes over the lost neighbour and reports them.

What is hard: threads that end and reschedule the same series; handlers of two
database calls; messages lost, duplicated, delayed and reordered; echoes of a
flood; a restart that forgets the sequence number; wrap-around.

### The other daemons

| daemon | state | operations | what makes it correct |
| --- | --- | --- | --- |
| des-batman | per originator: the interfaces and next hops its OGMs came over, each with a window of sequence numbers; bidirectional neighbours; the newest OGM relayed | handle an OGM (compare, capture, relay), send an OGM, purge | the route that is read without a check exists, whatever OGMs and timeouts empty |
| des-olsr | link, neighbour, 2-hop neighbour (two hash tables), topology and routing sets, each with a timeslot; `pending_rtc` | handle HELLO and TC, choose multipoint relays, rebuild routes, purge | the two 2-hop tables are inverse; the topology is that of the newest TC; relays cover; routes are best paths; every change is followed by a rebuild |
| des-lsr (sfriesel) | nodes with edges, routes and gap lists of sequence numbers; neighbours | receive a TC, forward, send, Dijkstra | a packet is taken once although numbers wrap; routes are shortest paths |
| des-dsr | route cache, request table, seen requests, send buffer, maintenance buffer, blacklist; each under a lock of its own | discover, propagate, reply, forward along a source route, acknowledge, retransmit, report a link | paths exist and have no loop; a waiting packet has a discovery; none vanishes; no assertion fails |
| des-ara | next hops with pheromone, credit and ttl; window of seen numbers per source; packet trap with a retry timer; packets that wait for an acknowledgement | FANT and BANT, forward, trap, retry, return a looping packet, flood a route fail, evaporate | a packet is taken once; next hops lead on; a trap is emptied |
| des-gossip-adv | link set, neighbour set, 2-hop set, relays and selectors (NHDP), under `all_sets_lock`; rings of seen numbers by source; trapped packets, each with a timer | send and handle HELLOs, choose relays, clean up, flush; send, suppress, trap, forward | the sets agree and settle again; relays cover; a packet is taken once, reaches everybody when the relays have settled, and is forwarded unless enough copies were heard |

- **des-lsr/trunk**: an older daemon with one lock, which `send_tc` does not
  release when there is no neighbour, and a list whose elements are read after
  they were freed.
- **des-namtab**: a variant of des-batman with a backup routing table.
- **des-gossip-adv-tools**: simulation, plotting.
- **des-hello**: answers pings, no protocol state.
- `branches`, `tags`, `debian`, `android`: older copies and packaging.

What is hard in them: batman, olsr and lsr have a receiving thread per
interface and compare in one critical section what they act upon in the next;
dsr has six tables with six locks, so that a handler works with a path that
another thread may have removed; gossip-adv chooses relays without the lock of
the sets it reads; all of them suppress duplicates by numbers that wrap; and
every table ages, in any order.

## Modules and the code

    AodvSeries <- AodvTimers_proofs        one node: series, schedule, buffer
    AodvLeases <- AodvTimeslot <- AodvTimers_proofs
                                           the lists that end entries (refinement)
    AodvSeq <- AodvTable <- AodvRt  <- Aodv_proofs    one node: table, threads
                         <- AodvNet <- Aodv_proofs    a mesh of nodes
    SlidingWindow <- OgmTable <- Batman <- Batman_proofs
                                           a mesh of des-batman nodes
    SlidingWindow <- Olsr <- Olsr_proofs   one des-olsr node
    LsrSeq <- Lsr <- Lsr_proofs            a mesh of des-lsr nodes
    Dsr <- Dsr_proofs                      a mesh of des-dsr nodes
    Ara <- Ara_proofs                      a mesh of des-ara nodes
    Nhdp <- Gossip <- Gossip_proofs        a mesh of des-gossip-adv nodes
    MC<module>                             their instances for TLC

**AodvSeries** (`aodv_pipeline.c:36-265`, `aodv_forward.c` `aodv_sys2rp`,
`aodv_st.c`, `rreq_log.c`). `heap` holds the series objects, `series_list`
those that are linked, `schedule` the AODV_SC_REPEAT_RREQ entries. Each thread
has a position `pc`, the series `own` it owns and the destination `dst` it
works for. One action is one critical section, so that threads interleave as in
the process. `Postpone`, `PassRateLimit`, `SendRreq`, `Reschedule`,
`FreeStopped` and `GiveUp` are the parts of `aodv_send_rreq_real`;
`DeleteSeriesEther` and `FlushPacket` are `aodv_send_packets_from_buffer`.
`gave_up` is a history variable. The time at which something is due is
arbitrary.

**AodvSeq** (`helper.c`) is `hf_comp_u32` on numbers modulo `SeqMod` (2^32 in
the code) and `hf_comp_metric`.

**AodvTable** (`aodv_rt.c`, `timeslot.c`) has the operations of the routing
database as operators from tables to tables, one per call under `db_rwlock`.
The purge that `timeslot_addobject` performs on every insertion is part of each
of them. `stale` marks the pairs of the next hop table whose pointer refers to
a freed entry; `moved` is history: destinations whose next hop a RREQ changed.

**AodvRt** runs these operations under the handlers of several mesh threads,
the timer thread and the command line of one node. A handler that needs more
than one call leaves the rest in `todo` or `broken`: the check that a RREQ or
RREP comes from a neighbour (`aodv_drop_errors`, `PassNeighbour`) and the
capture of the message; in `aodv_handle_rreq` also its capture as a RREP; in
`aodv_handle_rerr` the next hop that is read and the route that is marked
invalid; in the RERR task the routes that are invalidated and the list that is
read. A write through a dangling pointer may hit any live entry. `lost` is
history: neighbours that were forgotten without a RERR, by its rate limit or by
the command line (`NeighbourReset`), or whose message was captured after it.

**AodvNet** composes a table, a sequence number and a neighbour set per node
with the network. `world` is the scenario that a behaviour chooses: links,
requests, TTLs, and bounds. `msgs` only grows: a message may be received never,
once or often, in any order, which is loss, delay, duplication and reordering
in one variable. Handlers are atomic here, as their interleaving inside a node
is the subject of AodvRt. A daemon can restart with everything forgotten, a
lease can end, a neighbour can be lost with or without a RERR (the rate limit)
and heard again. RREPs are unicast (`to`); a node has one mesh interface.

**AodvTimeslot** (`timeslot.c`) is the structure behind every expiring table: a
doubly linked list with `head`, `tail`, `size` and a hash, and the code's
insertion, unlinking and purge on it. A caller's time stamp may be any time up
to now, as it was read before the lock was taken. **AodvLeases** is what it
promises: a function from objects to the ends of their leases. The mapping
takes `lease` to the hashed objects and their purge times. AodvTable relies on
this promise: its `due` is the set of entries whose lease has ended.

**SlidingWindow** (`batman_sw.c`, `sw.c`, `helper.c`): the comparison of
wrapping 16-bit numbers and a window of them. **OgmTable** (`batman_rt.c`): the
entry of one originator, which counts its OGMs per interface and next hop, and
the choice of the best of them, interface by interface in the order of the
hash, compared with windows that may not have been shifted yet, as the code
does.

**Batman** (`batman_pipeline.c`, `batman_periodic.c`, `broadcast_log.c`): a
step is a critical section of `batman_handle_ogm`: the sequence number is read
(`thread` keeps it), then compared and captured, then the OGM is relayed. `air`
holds the OGMs that may still be heard. Originators restart and set the reset
flag; entries time out. `Budgets` bounds the OGMs, the faults and by how many
newer ones an OGM may be overtaken; a behaviour chooses one.

**LsrSeq** (`lsr_node.c`) is the duplicate check alone: the number of a packet
has 16 bits and is widened by a guess, and what is missing below the newest is
kept in a few gaps whose bounds have 16 bits again. It has a specification of
its own, a sender and a network, so that it is checked over many packets.
**Lsr** (`lsr_tc.c`, `lsr_nt.c`, `lsr_pipeline.c`, `lsr_periodic.c`) uses it in
a mesh: TCs are taken apart in several critical sections while the periodic
rebuilds the routes. Some of the nodes may have run for a while when a
behaviour begins, with their last TCs still in the air (`Start`). `Dijkstra` is
the loop of `lsr_tc_dijkstra` with its queue, its 32-bit weights and its order
among equals.

**Olsr** (`olsr_pipeline.c`, `2hop_neighbor_set.c`, `route_calculation.c`,
`topology_set.c`, ...): one node; what others send is open. `hop2` and `hop1`
are the two hash tables of 2-hop neighbours. A TC is checked in one critical
section and stored in the next (`HandleTc`, `StoreTc`), a rebuild is
`StartBuild`, `Build`, `EndBuild`; `got`, `crossed`, `changed` and the `num` of
a stored TC, by which its originator counts what it sent, are history.

**Dsr** (`dsr.c`, `helper.c`, `rreqtable.c`, `routecache.c`,
`maintenance_buffer.c`, `sendbuffer.c`, `blacklist.c`): the build des-dsr-hc. A
handler whose work spans several tables leaves the rest of it in `jobs`, one
per thread. `msgs` only grows, as in AodvNet. An element of `maint` waits for
an acknowledgement of the network layer, is resent and, in the end, its link is
reported. The send buffer is a set: the order of its packets shows only in the
identifications that `Flush` gives them, which are any of the right range. A
failed assertion ends the daemon (`Abort`), which may start again.
The networks and settings of a run are the set `Scenarios`, of which a
behaviour chooses one.

**Ara** (`ara_packethandlers.c`, `ara_newrt.c`, `ara_loopprotect.c`,
`ara_packettrap.c`, `ara_ack.c`): set up as `des-ara.conf` does. The random
choice of a next hop is any next hop; a pheromone is kept only by its end
(`Evaporate`). Each reception is the chain of callbacks that `ara_main.c`
registers, split by what becomes of the packet: `Overhear`, `ReceiveAnt`,
`Return` (a loop), `EndOfData`, `Relay`, `Flood` (no route), `TrapReturned`.
`TimerFires` and `Retry` are the timer thread, packet by packet. Frames, and
`last` of a loop protection entry, carry numbers that never wrap; every
comparison is made with what the code has of them, `Wire`, by its own one-sided
`ara_seq_overflow`. `cut`, `fate`, `took`, `again` and the `late` of an entry
are history.

**Nhdp** (`gossiping_nhdp.c`): each node's link, neighbour and 2-hop sets as
functions and relations, with one mesh interface (a node with several drops
HELLOs of the others). `Hello` is what the address blocks say, `HandleHello`
the whole callback in the order of its updates; an expired link
(`LinkExpires`), the removal of what expired (`Cleanup`) and the CLI's flush are
steps of their own. `_reselect_mprs` runs on the timer thread without the lock,
so that it is two steps (`StartChoosing`, `Choose`). Any HELLO of a known
neighbour frees that neighbour's list of addresses and fills it again
(`gossiping_nhdp.c:383-394`), a flush frees everything, and the choice reads
these lists one by one: `torn` marks a choice into which one of them came, and
its outcome is open. The function ends
without a return value: `ChooseLastTime` is the outcome that ends its periodic.
**Gossip** (`gossiping_core.c`, `gossiping_packettrap.c`) adds the packets:
`log` holds the rings of seen numbers, `trap` the trapped packets, `job` what a
receiving thread has still to do between two critical sections; frames are a
bag. `Scenarios` chooses mesh, variant, threads and what the nodes know. `good`,
`taken`, `heard` and `sent` are history.

Definitions that begin with a comment `Mutant:` are deliberate errors. No
specification uses them: they show that the properties notice such an error.

## What each run checks

| run | instance | states | shows |
| --- | --- | --- | --- |
| series | 1 destination, 2 objects, 2 host + 2 mesh + 1 timer thread, fair | 348,333 | no use after free, one owner, one series per destination, the schedule holds what runs; buffered packets have a discovery; the rate overshoots by one per thread; a series nobody answers gives up (liveness) |
| rt_table | 2 destinations, 2 neighbours, 1 mesh thread + timer + command line | 1,924,695 | the next hop table is the inverse of the routes unless a RREQ moved a next hop; a valid route leads over a neighbour or its RERR is due, with four exceptions |
| timeslot_leases | 4 objects, lifetimes 1 and 3, 7 instants | 887 | the list stays linked and sorted, and implements AodvLeases |
| net | triangle with TTLs 1 and 3, 1 RREQ and 2 of: a lost neighbour, an ended lease, a restart; chain and star, 3 RREQs of two hosts and 1 of these | 300,146 | next hops know on; RREPs find a reverse route; no number gets ahead of its host; answers are fresh, also those of a host that restarted and is asked for a larger number than its own |
| batman_routes | 3 nodes, 2 channels, windows of 2, 3 OGMs that wrap, or 2 with a restart or timeout, late or not | 979,573 | the best route of an entry exists whenever it is read |
| olsr_tables | 2 interfaces, 2 neighbours, 1 further node, HELLOs, TCs and timeouts in three mixtures | 874,413 | the 2-hop tables mirror each other; the topology is the newest; routes are best; relays cover |
| olsr_update | the same | violation | an update asked for during a rebuild is forgotten |
| lsr_routes | 13 packets with numbers modulo 8; and a ring of 4 nodes, all new or one new among old ones, a flood and a hello | 424,070 | no packet twice, the newest follows; of ways of one and of three hops the route takes the shorter |
| dsr | line, triangle and kite, 1-2 packets, 1-2 threads, ring search, retransmission, restart, forgotten requests | 437,995 | paths exist and have no loop; a waiting packet has a discovery; no packet vanishes; an abort is explained |
| dsr_abort | triangle, 2 packets, 2 threads | violation | threads alone make an assertion fail |
| ara | line of 3, 1 packet, 1 fault of any kind, 12 numbers of which a node begins with the first or the last, fair | 336,840 | a packet is taken once, until a number comes in after one from behind a wrap; next hops lead on until one is given up; a trapped packet is delivered or discarded (liveness) |
| gossip | 80 scenarios: HELLOs in a line, a pair and over a one-way link with up to 2 faults; 64 sets of 2-hop neighbours behind 3 candidates; packets of 9 variants on line, triangle and one-way links, 1-2 threads, fair | 113,785 | the sets agree and settle again; relays cover unless there are three candidates or a HELLO or a flush came into the choice; packets are taken once, heard often enough or forwarded, and reach everybody |

The type invariants of AodvSeries, AodvRt and AodvNet are among the properties
of their runs, and proved; those of AodvTimeslot, Olsr, Ara and Batman are
proved. The others say what the variables are; the runs spend their time on
other properties.

### Bounds, and why they are enough

- *Series.* A series changes hands between a host thread or the timer thread
  and a mesh thread that ends it; two of each start, send and end at the same
  time. The second heap address lets a leaked or stopped object and a running
  one coexist. With two destinations the safety properties hold as well (the
  theorems say so for any number), but `SeriesEnds` does not: the RREQs of one
  destination can take every slot of the shared rate limit, and a postponed
  series counts no retry.
- `MaxPackets = 1`: packets to one destination are handled alike, a second adds
  a round to the flush loop.
- `RREQ_RETRIES = 2` with `TTL_START = 1`, `TTL_INCREMENT = 2`, `TTL_THRESHOLD
  = 3`: the ring search grows, jumps to `TTL_MAX` and gives up.
- rt_table: messages carry the number 1, an entry has 0 (new, or captured with
  force) or 1, so that each comparison comes out all three ways; the properties
  are about what is valid and over whom, and are proved for numbers of any
  width. One mesh thread has two handlers' worth of steps between which the
  timer thread and the command line act; `NextHopTableIsInverse` and
  `RoutesLeadOverNeighbours` hold for any number of threads.
- `SeqMod = 16` in net is large enough that `MaxSeq < HalfRange`, which is an
  assumption; UINT32_MAX, which `aodv_forward` sends, is in the range.
- The triangle of net and dsr has two routes of different length to one host.
  In the chain and the star of net `c` asks for a route itself and `a` asks
  twice: a restarted `c` is asked for a number that it has forgotten, directly
  or over a relay, and adopts it (RFC 3561, 6.6.1). `MaxSeq = 2`.
  The kite of dsr has a detour that a forgotten request could close into a
  loop.
- *Batman.* Three nodes are the fewest with a relay; the second channel between
  two of them gives a node two receiving threads. The first OGM has the number
  14 of 16, so that the next wraps to 0, which is also what a restarted
  originator sends. `WindowSize = 2` (20 in the daemon): three OGMs
  push the first out of the window, two windows may be equally long, and a
  restart or a timeout may empty either. `RoutesUsable` is proved for every
  window.
- *Olsr.* Two neighbours compete to be the relay for one node; `Budgets` mixes
  HELLOs, TCs and timeouts so that each pair of them interleaves. Numbers start
  at 15 of 16.
- *Lsr.* In the ring a-b-c-d a node `a` that joins three old ones has a route of
  one hop to d once it has heard it, and of three over b before; it has two of
  two hops to c. `a` rebuilds, `b` sends; `Infinite = 6` stands for the largest
  number of 32 bits, so that the weight of what is not reached wraps.
- *LsrSeq.* 13 packets pass the 8 numbers of a packet more than once, with a
  threshold of 3 and two gaps, so that gaps are split, overwritten and dropped;
  up to 3 packets are lost and each is delayed by up to 3. The properties
  assume that what `Threshold` promises of the delay is kept.
- *Gossip.* Three candidates for two 2-hop neighbours are the fewest with which
  a choice of forced relays and one more can leave a 2-hop neighbour out.
  `LogSize = 2` lets a third packet push the first out of its ring; `K = M = 1`:
  one hop is flooded, and one copy silences a node. `faults` counts lost HELLOs
  and frames, expired links, cleanups, flushes and a last choice; a HELLO is
  delivered or lost before its sender's next.
- *Ara.* A line of three is the shortest with a relay. One fault is a frame
  lost or doubled, a pheromone evaporated or an acknowledgement missed; `Retry`
  finds a route or none, as the timer may fire before or after the BANT.
  `Seqs = 12` and `Window = 3` stand for 65536 and 64: the run has numbers that
  wrap around (a node begins with 0, or with 11 for one that has been counting
  and whose tables are empty), copies of 11 that come in after 0 and are taken
  again, and copies that have left the window. `RetryMax = 1`: trapped once, then
  discarded.
- `MaxSeq`, `MaxLosses`, `MaxRestarts`, `MaxLeases`, `MaxOgms`, `MaxFloods`,
  `MaxHellos`, `MaxSends` and the like bound what would go on for ever. The
  theorems need none of these to be small.
- Symmetry is used in rt_table and timeslot_leases only: their constants are
  interchangeable, and neither checks liveness (`ImplementsLeases` speaks of
  single steps).
- Deadlock is checked in the runs of AODV. In the other runs it is not: their
  OGMs, TCs, packets and faults are bounded and the daemons are then quiet.

## Fairness

Three runs need it. `FairSpec` of AodvSeries: a handler that has begun runs on
until it returns; the periodic task pops each due schedule in the end, because
`aodv_periodic_scexecute` is registered once and runs until nothing is due, and
the table is sorted by time; and logged RREQs grow older than a second. Nothing
makes the host send or the network answer. `SeriesEnds` also rests on the two
retries being counted: a postponed series does not count one, so that without
the log's draining it would wait for ever.

`FairSpec` of Ara: a frame in the air is received in the end unless it is lost,
and the timer thread runs, as `dessert_periodic_add_delayed` schedules one call
of `ara_routefail_untrap_packets` per trap. `PacketsEnd` promises nothing once
a fault happened. Both are weak fairness.

`FairSpec` of Gossip: HELLOs are handled and the periodic choice of relays ends
(weak), as the threads run; `SendHello` is strongly fair, since its periodic is
due again and again while the same thread's other periodics interrupt it, and
they return. Packets are finitely many, so that one weak fairness for all their
steps lets each of them happen. After the last fault `Recovers` needs these and
no more, unless HELLOs come into the unlocked choice of relays for ever: nothing
in the code prevents this, and the property exempts it.

## Proofs

`tlapm` checks eight modules of proofs, for every value of the constants that
meets the named assumptions.

What a recursive function computes is argued without an induction rule: the
function is first shown to exist (the set of all functions that obey the
recursion up to some point has no least point at which it is empty), then the
least argument at which a claim fails is taken to a contradiction. `LeastNat`,
from the well-foundedness of the numbers, stands behind each of these; it is
repeated in the modules that need it.

**AodvTimers_proofs**, the RREQ series. Assumptions: `AddressAssumption` (NULL is no address),
`ThreadAssumption` (threads are finite and of one kind), `ConfigAssumption`
(limits are numbers). `IInv` is `TypeOK` with
- `OwnerInv`: a thread owns a series exactly while it is inside
  `aodv_send_rreq_real`, and that series is allocated;
- `DstInv`: a thread that is not idle works for a destination;
- `ListInv`: `series_list` holds exactly the allocated series that are not
  marked to stop, each with a destination;
- `SingleOwner`, `ScheduleIsRunning` and `OneSeriesPerDest` themselves.

The properties are not inductive alone: that `DeleteSeriesUnlocked` frees only
what nobody else holds needs that the schedule holds the *listed* series of its
key and that no owner is in the table at the same time. `RateBounded` has an
invariant of its own: the count plus the threads that passed the check and have
not sent is at most `RREQ_RATELIMIT + Cardinality(Thread)`; its steps count
finite sets. `OnlyGivenUpOrphans` adds that a thread at "giveup" has used up
its retries. `NeverForgetPackets` is inductive once `IInv` is known.

**AodvTimers_proofs**, the timeslot. Assumption: `TimeslotAssumption`; any set
of objects, lifetimes and instants. `IsList` is the invariant: a rank numbers
the hashed elements so that `prev` and `next` are the neighbours in rank, `tail`
has the lowest and `head` the highest, `size` is their number, and purge times
grow with the rank. Inserting makes room in the rank and unlinking leaves it as
it is; the search for a place (`Position`), the elements that are due (`Due`)
and the tail that is left (`NewTail`) are walks, whose ends are found by least
counterexample. `TimeslotLinked` follows, and `TimeslotImplementsLeases`: the
elements that a purge takes from the tail are those whose lease has ended, all
of them, because purge times are sorted.

**Aodv_proofs**, the table. `NeverBothNewer` and `CompIsOrder` for the
comparison at every width. `Sound(T)`: the table has its type; an unmoved
destination is mapped exactly under its next hop by a live pointer; every known
route is mapped by a live pointer. Each operation preserves it, makes no
unmoved route valid or gives it another next hop unless by the message that is
captured (`KeepsRoutes`, `LeadsOver`), and learns only what the message said;
these lemmas are the interface for the two proofs below.

**Aodv_proofs**, AodvRt. `RtInv == RtTypeOK /\ Sound(db)`; one case per action,
each by the lemma of its operation. From it `NextHopTableIsInverse` and
`EveryRouteIsMapped`. `RoutesLeadOverNeighbours` is inductive once `RtInv` is
known: a capture makes a route valid over the sender, which is a neighbour, or
has a RERR due, or becomes `lost` (`LateIsLost`), and the RERR task finds every
unmoved route over its neighbour, because the next hop table is the inverse
(`InvalidatesOver`). The number of threads is any.

**Aodv_proofs**, AodvNet. Assumptions: `NetAssumption` (hosts are interfaces,
`MaxSeq < HalfRange`) and `ScenarioAssumption` (requests and links join
different nodes; `WorldIn` carries it along). `IInv` is `TypeOK`, `TablesOK`
(every table is sound, nothing is due between handlers), `SeqTables` and
`SeqMsgs` (numbers in tables and in messages are at most their host's),
`SmallTables` and `SmallMsgs` (at most `MaxSeq`, which restarts do not change),
and `NextHopKnows` with `PathMsgs`: the sender of a RREQ is its originator or
knows a next hop to it; the sender of a RREP likewise for its destination; its
receiver likewise for the originator. The last is what makes `NextHopKnows`
inductive: a route is installed over the sender of a message, so the message
has to carry the fact. Both are conditional on nothing having been forgotten,
as a purge or a restart takes a next hop away. The theorems hold for networks
of any size and shape and any number of RREQs, losses and duplicates.
`FreshAnswers` is an action property: below half the range `hf_comp_u32` is the
order of the integers, so that what a RREQ's number is not newer than is at
least as new, which holds of either kind of answer. It does not need that
nothing was forgotten.

**Dsr_proofs.** Assumption: `DsrAssumption` (packets join two different nodes,
no link joins a node to itself). Network, settings, threads and bounds are any.
The invariant is built in layers, each inductive once those below it are known.
- `RoutesInv`: the types that matter, and every route is one (`Path`): what a
  node caches, what a RREQ has collected, what a packet and a REPL carry, and
  what a thread still has to do with them. A RREQ's route grows by one link at
  its end, to a node that it did not visit and that is not its target, whatever
  the tables of seen requests have forgotten. `PathsLeadThere` follows.
- `AbortInv`: until a link is given up, an entry times out or a daemon restarts
  (`Faulty`), who sent a RREQ has an entry for it, every REPL is for such a
  node, and between the three steps of a REPL its path stays. So the assertions
  hold (`AbortsHaveReasons`).
- `PlacesInv`: a packet is at its host, with a thread about to buffer it, in a
  send buffer, or sent, and in one of these at a time.
- `BufferedHasDiscovery` itself (`WaitingIsLookedAfter`). It needs `PlacesInv`
  for the packets that were given up.
- `KeptInv`, for as long as no daemon is started again. `IdsInv`: an
  identification of an ACK request stands for one message of its node, in the
  maintenance buffer and on the air. `AcksInv`: if an ACK is on the air, its
  sender or somebody further along the route has the packet, or it is
  delivered, or lost with a link. This is what `NoPacketVanishes` turns on: an
  ACK may come at any time and removes what waits for it, so that what it
  promises has to be true for ever after.

**Ara_proofs.** Assumption: `AraAssumption` (limits are numbers, the window is
not empty and fits the numbers twice, links and requests join different hosts).
`IInv` has the types, `TookKnown` (what a node took it still remembers, by a bit
or as older than the window, unless the entry is `late`) and, until a next hop
is given up, `FramesLead` and
`WaitsLead`: the sender of a frame, and the next hop that has not acknowledged
one, has the route that its receiver may learn from it. Without these
`NextHopKnows` is not inductive. `NewIsAhead` is about the 16 bits: a number
that is less than half of them away, and not from before a wrap that the entry
is behind, is new just when it is ahead; `NoteRemembers`, that nothing is
forgotten then. Hence `NeverTakenTwice`, which says that a packet is taken twice
only at an entry that is `late`, `NextHopsLeadOn`, and `TypeCorrect`, which no
run checks.

**Lsr_proofs**, the numbers. Assumptions: `LsrSeqAssumption` and
`DelayAssumption`; numbers of any width, any threshold and any number of gaps,
as long as a packet is delayed by no more than the threshold and fewer than
`SeqSpan - Threshold - 1` are lost in a row. Gaps keep the low bits of their
bounds only, so that after a wrap they may hold numbers by mistake. `IInv` says
what remains true: of the numbers that can still arrive (`Alive`), a gap holds
only such as were not taken (`GapsAreMissing`), and no two gaps hold the same
(`GapsAreDisjoint`). `Unwrap` is the arithmetic: two numbers less than the span
apart are told by their low bits. Hence `NeverTakenTwice` and `NewestIsNewest`.

**Lsr_proofs**, the routes. Assumption: `LsrAssumption`; a finite mesh of any
shape, whose nodes begin with what `Start` gives them. `MeshOK` says that every
node that is in a neighbour table or at an edge is in `node_set`, once, so that
the queue holds whom a route may lead to. In the loop of `lsr_tc_dijkstra`,
`Running` holds until a node without a route is polled: labels are the lengths
of the routes found (`LabelsAreLengths`), edges of polled nodes were followed
(`EdgesFollowed`), and polled nodes are no farther than the others
(`PolledSettled`). From then on the distance wraps and no node in the queue has
a route: a node may lose the route that was found, but none gets another
(`Frozen`, `RoutesFinal`). `Measures` shows that `Distance`, by which the
property is stated, counts the hops of a shortest path. `SpecRoutesShortest` is
`RoutesShortest`, with the exception that the property makes for nodes that
cannot be reached.

**Olsr_proofs.** Assumption: `OlsrAssumption`; any addresses, budgets and
qualities, both metrics.
- `SpecTypeOK`, from `StateTyped`: no route has more hops than there are nodes.
- `SpecTwoHopSetsMirror`: `Mirror` with `PairOnce` (a neighbour and a
  2-hop neighbour have one entry), so that deleting one side deletes the other.
- `SpecTopologyNewest`: `NewestTaken` says that what is stored is the newest of
  what was taken, by the order of sending (`num`), however often the 16 bits
  wrapped since. It speaks of the behaviours in which every TC that is taken is
  less than half the range of numbers away from the newest one taken of its
  originator before (`TcsNear`): beyond that the comparison takes an old TC for a
  new one. A behaviour may be of any length and send any number of TCs.
- `SpecRoutesBest`: the loop of `olsr_db_rc_dijkstra` keeps that labels are the
  values of routes (`RouteOk`, `CandOk`), that settled nodes are at least as good
  as candidates (`Settled`), that neighbours of settled nodes were relaxed
  (`Explored`) and how many turns are left (`Counted`). Hence no path beats a
  route that was found (`PathsBeaten`, by the first node of the path that is
  not settled). Quality is a product that never grows, hop count a sum, and the
  proof needs no more of either.
- `SpecMprsCover`: the choice of relays ends only when nobody that can be
  reached is left (`Reaching`): each turn takes a candidate away, and who is no
  longer unreached was reached by a relay that was taken.

**Batman_proofs.** Assumptions: `OgmAssumption` and `BatmanAssumption`; any
mesh, window, settings, restarts and timeouts. `EntryOk` says that an entry's
windows hold numbers that were sent, that each interface in its list has a best
next hop with a window, and that the best interface is in the list. The window
of the next hop that sent the OGM is not empty afterwards (`WindowKeeps`),
because its number is there or a newer one is; so the interface of the OGM
stays. `VisitStands` is the invariant of the choice of the best interface: the
one chosen so far was not visited yet or has a next hop. Both need that the
numbers that meet in a window lie closer together than half the range less the
window, as otherwise their order is no order and an OGM can empty the table
(TLC finds this with three of eight numbers). `RoutesUsableWhileNear` assumes
that whenever an OGM is captured (`OgmsNear`), whatever the length of the run
and however often numbers wrap; the code's purge of routes over which nothing
came is what makes it so. The types (`TypeCorrect`) need no such condition:
`StateTyped` is `TypeOK` with the threads and an entry's list of interfaces,
and the choice of the best interface stays among these (`OutputTyped`).

**Gossip_proofs.** Assumptions: `NhdpAssumption` and `GossipAssumption` say what
a scenario is (a finite set of nodes, links that join two of them, no node
behind itself at the start, a plan of packets, finitely many threads) and that
the log has room for a number. Scenarios, variants, `m` and the number of
faults are any. The two halves have an invariant each.
- `NhdpInv`: types, `SetsAgree` itself and `WireOK`: who is called MPR in a HELLO
  is called symmetric in it. Without `WireOK` a late HELLO could make a selector
  of a node that is not symmetric. `SetsAlwaysAgree` follows.
  `TwoCandidatesCover` needs its types only: a candidate that is not forced has
  another beside it for each of its 2-hop neighbours; of two candidates that
  other one is the one that was chosen. It says nothing of a choice that a HELLO
  or a flush came into (`torn`).
- `PacketInv`, one conjunct per property. `RingsOK`: as long as a source has one
  ring, the ring ends with the last packets taken from it, in order, so that a
  packet is forgotten exactly when `LOG_SIZE` others came (`OnceUntilForgotten`).
  `CountsOK`: what an entry of the trap counts, plus the threads that have a copy
  at hand, is at most what was heard. This is what makes `SilentOK` inductive:
  a copy is counted once, by whichever thread, and is heard before (`SilenceIsEarned`).
  Of what an action does to one packet, `CountsStep` and `SilentStep` say what
  it has to leave alone; `NodeChange` lifts that to the mesh.

Only model-checked:
- `SeriesEnds`, `PacketsEnd`, `Recovers` and `FloodReaches`: liveness under
  fairness is beyond the prover.
- The type invariants of Lsr, Dsr and Gossip. That of Gossip says besides
  that frames in the air are a bag and that every ring has room, which the
  proofs do not need. That of Dsr bounds routes by the number of nodes and the
  TTL by powers of two; its part that the proofs need is in `RoutesInv`.

The disagreements below are counterexamples of TLC. No module declares a
RECURSIVE operator; recursion is written as functions.

## Where the code and its comments disagree

Each of these is a run that fails, with the line it contradicts.

1. `olsr_update`. "schedule update of rt everytime a hello is received"
   (`olsr_pipeline.c:204`): `olsr_periodic_build_routingtable` unlocks after
   the rebuild and only then clears `pending_rtc`, so that what was stored and
   asked for in between is forgotten until the next message.
2. `dsr_abort`. `assert(res == DSR_ROUTECACHE_SUCCESS)` (`sendbuffer.c:68`):
   between the caching of a REPL and the flush of the send buffer
   (`dsr.c:575-580`) another thread's RERR or link error removes the path, and
   the daemon aborts. (`AbortsExplained`: threads that only receive REPLs do
   not get there.)

Observations without a run of their own. In des-aodv:

- After the last retry `aodv_send_rreq_real` deletes the series it owns itself;
  it is in no schedule, so that it is only marked to be freed by its owner, who
  returns: the memory is lost, against "a series is either owned by ..."
  (`aodv_pipeline.c:38`). `OrphansGaveUp`, proved, says that nothing else is.
- `aodv_db_rt_capt_rreq` changes the next hop of an entry and not `nht`, the
  "Mapping next_hop -> destination list" (`aodv_rt.h:70`). If the following
  capture as a RREP is refused as old, losing the new neighbour does not
  invalidate the route; after a purge the old neighbour's list keeps a pointer
  to freed memory. `InverseUnlessMoved`, proved, says that this is the only
  way.
- "we don't need ttl for loop detection" (`aodv_pipeline.c:250`): the capture
  as a RREP with the number 0 resets the originator's number, so that with four
  hosts the echo of a RREQ is new again, is rebroadcast and turns the reverse
  route around.
- "do local repair if ... we have a valid route to dest"
  (`aodv_pipeline.c:401`): only the known flag is tested, not the invalid one.
- "this route is affected and must be invalidated!" (`aodv_pipeline.c:468`):
  the RERR of `aodv_forward` carries UINT32_MAX, which is older than any small
  number.
- `aodv_pipeline.c:206` postpones when `rreq_count > RREQ_RATELIMIT`, so one
  RREQ more than the limit leaves per second, and one more per racing thread;
  the RERR limit is tested with `>=`. `RateLimitSlack` is the bound the code
  does keep.
- `aodv_handle_rerr` reads the next hop in one critical section and invalidates
  in another (`aodv_pipeline.c:464-472`): a route learnt in between from
  another neighbour is the one invalidated (`TakeRerr` and `MarkRouteInv` of
  AodvRt).
- Three things leave a valid route over a node that is no neighbour: the RERR
  task finds its rate limit reached and does nothing (`aodv_periodic.c:179`); the CLI
  resets the neighbours, without a RERR; and a mesh thread checks the neighbour
  of its message (`aodv_pipeline.c:291`), the timer thread sends the RERR, and
  then the message is captured. `RoutesOverNeighbours` says that, besides moved
  next hops, there is no other way.
- `create_new_ts_element` allocates the purge time apart from the element
  (`timeslot.c:37`) and no one frees it: each renewal of a lease leaks it.
- An invalid route back to the originator stays invalid when a newer RREQ
  arrives (`aodv_rt.c:183`, `:229`), and a RREP with an equal number replaces a
  usable route even if its metric is worse, against `aodv_pipeline.c:527-529`.
- `pdr.c:219` counts a doubled hello twice; the ETX of `pdr.c:333` divides by
  zero for a neighbour without hellos; `aodv_gossip.c:105` shadows the new
  element of the hold queue, and `:147` compares the wrong way round.

In des-batman: "HINT: Process only OGM with greater seq_num to avoid routing
loops." (`batman_pipeline.c:151`), but the last number is read in one critical
section (`:137`) and the OGM captured in a later one. Of two OGMs on two
threads the older may be captured last, and two nodes route to the originator
over each other. Cycles of best next hops do not need that: with a window of
three, TLC found windows of equal length in two neighbours, each of which then
prefers the other though no OGM was overtaken (four hosts, three OGMs; in the
code the order of the hash decides between equal windows). No property here
promises that there are none. `batman_db_rt_change_window_size` follows a null
pointer (`batman_rt.c:522-544`); OGMs of a restarted originator are not
relayed, as the log of relayed numbers is not reset; `rl_check` and `rl_add`
are separate critical sections.

In des-olsr: `best_link` is never given up while another link keeps the
neighbour (`olsr_pipeline.c:150-160`); deleting an entry forgets its TC number,
so that an older TC may come back; `purge_2h_neighbor` destroys the timeslot it
is called from (`2hop_neighbor_set.c:68`); a purged relay is not replaced
before the next HELLO.

In des-lsr (sfriesel): the aging periodics are never registered; `lsr_node_age`
and `lsr_nt_age` compare the wrong way round; Dijkstra polls nodes it has not
reached, whose distance wraps to 0 (`lsr_tc.c:152`), which hurts only once the
node knows of one that it cannot reach; the first packet of an unknown node is
not remembered. In the trunk, `send_tc` returns with the lock held
(`des-lsr_routinglogic.c:94`) and deletes list elements before it reads their
link.

In des-dsr: one passive acknowledgement removes every packet of its link,
delayed ones that were never sent included; a message removed with its link is
not reported to its own originator; the maintenance buffer is taken to be
sorted, which added and resent elements are not; a packet buffered just before
`run_rreqtable` gives up stays until it expires; a restarted node numbers its
requests from the start, which others have seen.

In des-ara: `ara_rt_update` overwrites `ARA_RT_NEW` (`ara_newrt.c:716`), so
that "all trapped packet for this destination should be sent" (`:722`) happens
on the timer only; `ara_getroute` looks for `ARA_ROUTEFAIL` in `ap->flags`,
where the bit means ARA_FLOOD, and never unsets it; a route fail that reaches
an intermediate node again is dropped as a duplicate, so that the source never
hears of it; an overheard loop notification makes its destination deliver the
packet again (`TakenOnce` excepts what was returned); `ara_seq_overflow` looks
over a wrap in one direction only (`ara.h:189`), so that a copy of 65535 that
comes in after 0 is new, and then 0 again (`ara_loopprotect.c:131-133`; `late`
in the model, which `TakenOnce` exempts, and `again` is not empty in the run);
a flooded route fail that came by unicast keeps this node's own address as its
destination when it is sent on (`ara_packethandlers.c:436-440`), so that the
neighbours only overhear it; `ara_rt_modify_credit`
charges the last next hop without comparing it; the trap's hash uses the size
of a pointer as the length of its key; a source that restarts numbers from 0,
which others drop until its entry ages.

In des-gossip-adv: `nhdp_send_hello` compares with `num_address_blocks` before
anything is assigned to it when all blocks fit one extension
(`gossiping_nhdp.c:1464`, `:1496-1512`), so that it may split the blocks where
a receiver cannot put them together; in the model such a HELLO is dropped, as
one that was lost. A HELLO frees and fills the list of addresses that the timer
thread reads in `_reselect_mprs` without the lock, so that a relay may be left
out with one or two candidates as well (`torn`). `_do_n2set_updates` removes
withdrawn 2-hop neighbours in a branch that is never reached, so that they stay
until their time ends; entries of the neighbour set are never removed by the
cleanup, and a node that was heard once, even one way, is never again a strict
2-hop neighbour; `_filter_mpr_candidates` compares the first candidate with
itself, so that exactly one candidate is added to the forced ones and some
2-hop neighbour may be left uncovered (from three candidates on:
`UncoveredNeedsThree`); `_reselect_mprs` takes no lock and returns nothing
(`gossiping_nhdp.c:1901`); the checks of `_check_constraints`, whose call is
commented out, would fail for a link that timed out; the `cli_set_nhdp_*`
commands return with `all_sets_lock` held when their argument is missing;
`_num_neighbors` returns with it held; the entry of variant 10 for the host's
own packet never counts a copy, so that it is always sent twice; a flush of the
packet trap frees packets whose timers remain.

## What is not modelled

In des-aodv: the RWARN messages and the discoveries they trigger (they start
the same series); the LOCAL_USED flag, precursors, hop count and output
interface (they decide no route in the modelled handlers); the metrics that are
measured (inputs of AodvRt, absent from AodvNet); the order and length of the
packet buffer (in AodvSeries and AodvNet leases end at arbitrary times, which
includes every order); `timeslot_destroy` and the reports; the hello exchange,
delivery ratios, gossip (the default is GOSSIP_NONE), duplicate suppression of
data, periodic discovery, start-up and the CLI apart from the table reset.
AodvNet leaves out a loss of a neighbour whose list holds a dangling pointer:
the outcome is undefined and belongs to AodvRt. The stop of a node at the `last`
of its scenario, at most `MaxSeq`, is a bound of the model.

In des-batman: the data path and its loop check, broadcasts, changes of the
window size, and the table of routes through this node. In des-olsr: relaying
over MPR selectors, ETX windows, broadcasts, the data path. In des-lsr: the
data path, and the aging that never runs. In des-dsr: passive acknowledgements,
which the shipped configurations turn on as well, several paths, the link
cache, ETX, SMR and MDSR, broadcasts. In des-ara: PANTs, pheromone values
(floating point), classification, broadcasts, the other modes of forwarding and
acknowledging, restarts and the aging of the table of duplicates, and traps
that share a key by the length of a pointer.

In des-gossip-adv: the neighbour table of `gossiping_neighbors.c` and the
variants that count neighbours (2, 4, 5, 8, 9), variant 13, delivery ratios and
link quality, willingness other than the default, several mesh interfaces, the
wrap of sequence numbers and a restart, the reset of trap and log (undefined
while packets are trapped), logging and the CLI apart from the flush.

Some steps of the models are longer than a critical section of the code:
- Gossip: `Receive` counts a duplicate (`gossiping_packettrap.c:126-132`) in the
  step that finds it in the ring (`:106-117`). In between, the timer may take the
  packet out of the trap, and the count is then lost; in the model that is the
  copy that comes after the timer. Another thread may put it in, and the copy is
  counted; in the model it is the copy that comes after that. (Only if the ring
  forgets the number in this very moment, the later copy would be a new one.)
- Gossip: `TrapTimer` reads the count, sends and removes the entry
  (`:233-343`). A copy counted between the read and the removal changes nothing
  but an entry that goes; with variant 10 the entry stays, and the copy is, in
  the model, one that comes after. A packet that is taken again in between is
  counted in the code and trapped anew in the model; by then it was forwarded,
  or enough copies were heard.
- A node that frees an entry while the timer thread reads it may crash; the
  choice's outcome is open in the model, but the daemon goes on.
- Dsr: `Forward` acknowledges (`dsr.c:702`) and puts the message into the
  maintenance buffer (`helper.c:141`) in one step. Who receives the ACK earlier
  removes its own message; the property that turns on it, `PacketsKept`, would in
  between find the packet in the hands of the thread, which the model does not
  show.
- Dsr: `Flush` reads a path (`sendbuffer.c:64`) and empties the buffer (`:77-96`).
  A path that is removed in between is used in the code; in the model it is
  removed after the packets left. A packet that another thread buffers in this
  time as well goes over the removed path; in the model it stays, with the
  discovery that thread starts for it.
- Lsr: `SendTc` draws a number (`lsr_periodic.c:25`) and reads the neighbours
  (`:37`). Nobody but this timer thread reads the number, so that drawing it
  commutes with every step of the others.
- Batman: `ReceiveOgm` checks that the link is bidirectional
  (`batman_pipeline.c:127-129`) and reads the last number (`:136-147`). Only a
  thread of the same interface reads this link, so that a timeout of it in
  between may as well come after. The time-out of the log of relayed OGMs is left
  out: when it is over, the OGMs that it held have left the air, and a newer one
  passes either way.
- AodvNet: a handler is one step.

Some properties except a race that does occur, and say so where they are
defined: `InverseUnlessMoved` and `RoutesOverNeighbours` the next hops that a
RREQ moved; `TopologyNewest` two TCs that crossed between two critical sections
(`crossed`); `MprsCover` what is purged between two HELLOs; `RoutesShortest`
requires a route to everyone only as long as nobody is out of reach;
`UncoveredNeedsThree` and `Recovers` the choices that are `torn`;
`TakenAgainExplained` two rings for one source. `SeriesEnds` is checked for one
destination and does not hold for two that share the rate limit; `PacketsKept`
promises nothing across a restart.

Not modelled at all: des-lsr/trunk, whose runs end at undefined steps (freed
list elements, a lock that stays held); des-namtab, which shares its windows
and entries with des-batman; des-hello; command line and
start-up; simulation, evaluation and plotting scripts; packaging, old branches
and tags.

## Plan

Done, in order of importance: series and their owners (AodvSeries), the routing
table and its threads (AodvSeq, AodvTable, AodvRt), discovery over a mesh
(AodvNet), with their proofs; the timeslot as a refinement (AodvTimeslot); the
cores of the other daemons (Batman, Olsr, Lsr, Dsr, Ara, Nhdp and Gossip).

The proofs of Dsr, Ara, Lsr, Gossip, the timeslot, Olsr and Batman followed.

Next, proofs: the type invariants of Gossip, Dsr and Lsr.

Then, with models of their own: the FIFO of AODV's packet buffer on top of
AodvLeases, AODV's data path with the numbers of `ds.c`, the gossip daemon's
neighbour table and variant 13, namtab's backup routes.
