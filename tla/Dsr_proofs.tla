----------------------------- MODULE Dsr_proofs -----------------------------
(***************************************************************************)
(* Proofs about a mesh of des-dsr nodes, for any network, threads, packets *)
(* and settings.  The parts of the invariant build on each other: every    *)
(* route is one (RoutesInv), no daemon aborts without a reason (AbortInv), *)
(* a packet is in one stage of its way at a time (PlacesInv), and each     *)
(* identification of an ACK request stands for one message, so that who    *)
(* acknowledges a packet has passed it on (KeptInv).                       *)
(***************************************************************************)
EXTENDS Dsr, SequenceTheorems, FiniteSetTheorems, TLAPS

(* Routes.  Operators on messages and jobs take the scenario w, which no   *)
(* step changes, as a parameter.                                           *)

Path(w, r) ==
    /\ r \in Seq(Node) /\ r # <<>> /\ IsInjective(r)
    /\ \A i \in 1 .. Len(r) - 1 : <<r[i], r[i + 1]>> \in w.link

PathTo(w, r, u, v) == Path(w, r) /\ Head(r) = u /\ Last(r) = v

\* A RREQ did not pass its target.
RreqOK(w, m) ==
    m.type = "rreq" /\ Path(w, m.route) /\ m.target \in Node \ ToSet(m.route)

RoutedOK(w, m) ==
    /\ m.type = "routed" /\ m.kind \in {"data", "repl", "rerr"}
    /\ m.route \in Seq(Node) /\ m.to \in Int /\ m.ack \in Nat
    /\ m.kind = "data" => m.load \in w.packets /\ PathTo(w, m.route, m.load[1], m.load[2])
    /\ m.kind = "repl" => Path(w, m.load)

AckOK(m) == m.type = "ack" /\ m.id \in Nat

MsgOK(w, m) == RreqOK(w, m) \/ RoutedOK(w, m) \/ AckOK(m)

\* The arguments of a job; M holds the messages.
JobOK(w, M, j) ==
    j # Idle =>
    /\ j.at \in Node
    /\ \/ j.do = "buffer" /\ j.arg \in w.packets /\ j.arg[1] = j.at
       \/ j.do = "discover" /\ j.arg \in Node \ {j.at}
       \/ /\ j.do = "propagate" /\ j.arg \in M /\ RreqOK(w, j.arg)
          /\ j.at \notin ToSet(j.arg.route) \cup {j.arg.target}
          /\ <<Last(j.arg.route), j.at>> \in w.link
       \/ /\ j.do \in {"reset", "flush"} /\ j.arg \in M /\ RoutedOK(w, j.arg)
          /\ j.arg.kind = "repl" /\ Head(j.arg.load) = j.at

Ids == [rreq : Int, ack : Nat \ {0}]

CacheOK(w, c) ==
    /\ c \in [Node -> [Node -> Seq(Node)]]
    /\ \A n, d \in Node : c[n][d] # <<>> => PathTo(w, c[n][d], n, d)

Tries == {k \in Int : k >= NoEntry}

ReqsOK(q) ==
    q \in [Node -> [Node -> Tries]] /\ \A n, d \in Node : q[n][d] > 0 => n # d

SendbufOK(w, b) ==
    /\ b \in [Node -> SUBSET Packet]
    /\ \A n \in Node : /\ IsFiniteSet(b[n])
                       /\ \A p \in b[n] : p \in w.packets /\ p[1] = n

MaintOK(w, x) ==
    DOMAIN x = Node /\ \A n \in Node : \A e \in x[n] : RoutedOK(w, e.msg)

MsgsOK(w, M) == \A m \in M : MsgOK(w, m)

JobsOK(w, M, J) == DOMAIN J = w.threads /\ \A t \in w.threads : JobOK(w, M, J[t])

RoutesInv ==
    /\ world \in Scenarios
    /\ CacheOK(world, cache) /\ ReqsOK(reqs) /\ nextId \in [Node -> Ids]
    /\ SendbufOK(world, sendbuf) /\ MaintOK(world, maint)
    /\ MsgsOK(world, msgs) /\ JobsOK(world, msgs, jobs)

-----------------------------------------------------------------------------
(* Reasons to abort. *)

Faulty == broken \/ budget.restart < world.restart \/ budget.forget < world.forget

\* With the RREQ tables q, node n has sent a RREQ for d.
Asked(q, n, d) == q[n][d] # NoEntry

\* A RREQ and a REPL are known to who asked, until it forgets.
AskedFor(q, m) ==
    /\ m.type = "rreq" => Asked(q, Head(m.route), m.target)
    /\ m.type = "routed" => /\ m.kind # "rerr"
                            /\ m.kind = "repl" => Asked(q, Head(m.load), Target(m))

\* Between the three steps of a REPL its path stays.
HasPath(c, j) == j # Idle /\ j.do \in {"reset", "flush"} => c[j.at][Target(j.arg)] # <<>>

BudgetInv ==
    /\ budget \in [forget : Nat, restart : Nat]
    /\ budget.restart <= world.restart /\ budget.forget <= world.forget

AskedInv ==
    /\ aborted = {}
    /\ \A m \in msgs : AskedFor(reqs, m)
    /\ \A n \in Node : \A e \in maint[n] : AskedFor(reqs, e.msg)
    /\ \A t \in world.threads : HasPath(cache, jobs[t])

AbortInv == BudgetInv /\ (~Faulty => AskedInv)

-----------------------------------------------------------------------------
(* Where a packet is. *)

Carries(m, p) == m.type = "routed" /\ m.kind = "data" /\ m.load = p

Sent(M, x, p) ==
    \/ \E m \in M : Carries(m, p)
    \/ \E n \in Node : \E e \in x[n] : Carries(e.msg, p)

Buffering(j, p) == j # Idle /\ j.do = "buffer" /\ j.arg = p

\* A packet waits in one place only, and when it was sent it waits no more.
PlaceOK(p) ==
    /\ fate[p] = "host" =>
          /\ ~Sent(msgs, maint, p) /\ \A n \in Node : p \notin sendbuf[n]
          /\ \A t \in world.threads : ~Buffering(jobs[t], p)
    /\ \A n \in Node : p \in sendbuf[n] =>
          /\ ~Sent(msgs, maint, p)
          /\ \A t \in world.threads : ~Buffering(jobs[t], p)
    /\ \A t \in world.threads : Buffering(jobs[t], p) =>
          /\ ~Sent(msgs, maint, p)
          /\ \A u \in world.threads : Buffering(jobs[u], p) => t = u

PlacesInv ==
    DOMAIN fate = world.packets /\ \A p \in world.packets : PlaceOK(p)

-----------------------------------------------------------------------------
(* Who answers for a packet. *)

\* An identification stands for one message of its node.
IdsInv ==
    /\ \A n \in Node : \A e \in maint[n] :
          /\ Sender(e.msg) = n /\ 0 < e.msg.ack /\ e.msg.ack < nextId[n].ack
          /\ \A f \in maint[n] : f.msg.ack = e.msg.ack => f.msg = e.msg
    /\ \A m \in msgs :
          /\ m.type = "routed" /\ m.ack # 0 =>
                /\ Sender(m) \in Node /\ m.ack < nextId[Sender(m)].ack
                /\ \A e \in maint[Sender(m)] : e.msg.ack = m.ack => e.msg = m
          /\ m.type = "ack" => m.to \in Node /\ m.id < nextId[m.to].ack

\* Packet p is done with, or a node nearer to its destination than the i-th of
\* the route has it.
Further(f, x, p, i) ==
    \/ f[p] \in {"delivered", "lost"}
    \/ \E n \in Node : \E e \in x[n] : Carries(e.msg, p) /\ e.msg.to > i

\* Whoever acknowledged a packet has passed the responsibility on.
AcksInv ==
    \A a \in msgs : a.type = "ack" =>
        \A e \in maint[a.to] : \A p \in world.packets :
            e.msg.ack = a.id /\ Carries(e.msg, p) => Further(fate, maint, p, e.msg.to)

-----------------------------------------------------------------------------
(* Messages, jobs and routes. *)

LEMMA RreqFields ==
    ASSUME NEW id, NEW route, NEW target, NEW ttl, NEW m, m = Rreq(id, route, target, ttl)
    PROVE  m.type = "rreq" /\ m.route = route /\ m.target = target
BY DEF Rreq

LEMMA RoutedFields ==
    ASSUME NEW kind, NEW load, NEW route, NEW to, NEW ack, NEW m,
           m = Routed(kind, load, route, to, ack)
    PROVE  /\ m.type = "routed" /\ m.kind = kind /\ m.load = load /\ m.route = route
           /\ m.to = to /\ m.ack = ack
BY DEF Routed

LEMMA AckFields ==
    ASSUME NEW n, NEW h, NEW id, NEW m, m = Ack(n, h, id)
    PROVE  m.type = "ack" /\ m.from = n /\ m.to = h /\ m.id = id
BY DEF Ack

LEMMA ElementFields ==
    ASSUME NEW m, NEW count, NEW own, NEW e, e = Element(m, count, own)
    PROVE  e.msg = m /\ e.count = count /\ e.own = own
BY DEF Element

LEMMA JobFields ==
    ASSUME NEW n, NEW what, what # "idle", NEW arg, NEW j, j = Job(n, what, arg)
    PROVE  j.at = n /\ j.do = what /\ j.arg = arg /\ j # Idle
BY DEF Job, Idle

\* Whoever acknowledges a message acknowledges it to its sender.
LEMMA AcksAre ==
    ASSUME NEW n, NEW m, NEW a \in Acks(n, m)
    PROVE  /\ a.type = "ack" /\ a.to = Sender(m) /\ a.id = m.ack
           /\ m.ack # 0 /\ NextHop(m) = n
<1>1. m.ack # 0 /\ NextHop(m) = n /\ a = Ack(n, Sender(m), m.ack)
  BY DEF Acks
<1> QED BY <1>1, AckFields

LEMMA WorldTypes ==
    ASSUME world \in Scenarios
    PROVE  /\ world.packets \subseteq Packet
           /\ \A p \in world.packets : p[1] \in Node /\ p[2] \in Node /\ p[1] # p[2]
           /\ world.link \subseteq Node \X Node
           /\ world.retries \in Nat /\ world.ack \in Nat /\ world.forget \in Nat
           /\ world.restart \in Nat
BY DsrAssumption DEF Scenario

LEMMA PathStart ==
    ASSUME NEW w, NEW n \in Node, NEW d \in Node, n # d, NEW r, r = <<n>>
    PROVE  Path(w, r) /\ d \notin ToSet(r) /\ Head(r) = n
BY DEF Path, IsInjective, ToSet

LEMMA AppendNodes ==
    ASSUME NEW r \in Seq(Node), NEW n \in Node, NEW x \in ToSet(Append(r, n))
    PROVE  x \in ToSet(r) \/ x = n
<1>1. Len(r) \in Nat /\ DOMAIN r = 1 .. Len(r)
  BY LenProperties
<1>2. /\ Len(Append(r, n)) = Len(r) + 1
      /\ \A i \in 1 .. Len(r) : Append(r, n)[i] = r[i]
      /\ Append(r, n)[Len(r) + 1] = n /\ DOMAIN Append(r, n) = 1 .. Len(r) + 1
  BY <1>1, AppendProperties, LenProperties
<1> QED BY <1>1, <1>2 DEF ToSet

LEMMA PathAppend ==
    ASSUME NEW w, NEW r, Path(w, r), NEW n \in Node, n \notin ToSet(r),
           <<Last(r), n>> \in w.link, NEW s, s = Append(r, n)
    PROVE  Path(w, s) /\ Head(s) = Head(r) /\ Last(s) = n
<1>1. r \in Seq(Node) /\ r # <<>> /\ Len(r) \in Nat /\ Len(r) > 0
      /\ DOMAIN r = 1 .. Len(r)
  BY EmptySeq, LenProperties DEF Path
<1>2. /\ s \in Seq(Node) /\ s # <<>> /\ Len(s) = Len(r) + 1
      /\ \A i \in 1 .. Len(r) : s[i] = r[i]
      /\ s[Len(r) + 1] = n /\ DOMAIN s = 1 .. Len(r) + 1
  BY <1>1, AppendProperties, LenProperties
<1>3. Last(s) = n /\ Head(s) = Head(r)
  BY <1>1, <1>2 DEF Last
<1>5. IsInjective(s)
  <2>1. ASSUME NEW i \in 1 .. Len(r) + 1, NEW k \in 1 .. Len(r) + 1, s[i] = s[k]
        PROVE  i = k
    <3>1. \A x \in 1 .. Len(r) : r[x] # n
      BY <1>1 DEF ToSet
    <3>2. i \in 1 .. Len(r) \/ i = Len(r) + 1
      BY <1>1
    <3>3. k \in 1 .. Len(r) \/ k = Len(r) + 1
      BY <1>1
    <3>4. i \in 1 .. Len(r) /\ k \in 1 .. Len(r) => i = k
      BY <1>1, <1>2, <2>1 DEF Path, IsInjective
    <3> QED BY <1>2, <2>1, <3>1, <3>2, <3>3, <3>4
  <2> QED BY <1>2, <2>1 DEF IsInjective
<1>6. ASSUME NEW i \in 1 .. Len(r) PROVE <<s[i], s[i + 1]>> \in w.link
  <2> DEFINE k == Len(r)
  <2>1. k \in Nat /\ i \in 1 .. k
    BY <1>1
  <2>2. CASE i = k
    <3>1. s[i] = r[k] /\ s[i + 1] = n /\ Last(r) = r[k]
      BY <1>2, <2>2 DEF Last
    <3> QED BY <3>1
  <2>3. CASE i # k
    <3> HIDE DEF k
    <3>1. i \in 1 .. k - 1 /\ i + 1 \in 1 .. k
      BY <2>1, <2>3
    <3> USE DEF k
    <3>2. s[i] = r[i] /\ s[i + 1] = r[i + 1]
      BY <1>2, <3>1
    <3> QED BY <3>1, <3>2 DEF Path
  <2> QED BY <2>2, <2>3
<1>7. Len(s) - 1 = Len(r)
  <2> DEFINE k == Len(r)
             l == Len(s)
  <2>1. k \in Nat /\ l = k + 1
    BY <1>1, <1>2
  <2> HIDE DEF k, l
  <2>2. l - 1 = k
    BY <2>1
  <2> QED BY <2>2 DEF k, l
<1>8. \A i \in 1 .. Len(s) - 1 : <<s[i], s[i + 1]>> \in w.link
  BY <1>6, <1>7
<1> QED BY <1>2, <1>3, <1>5, <1>8 DEF Path

LEMMA ReverseType ==
    ASSUME NEW r \in Seq(Node)
    PROVE  Reverse(r) \in Seq(Node)
<1> DEFINE k == Len(r)
<1>1. k \in Nat /\ \A i \in 1 .. k : r[i] \in Node
  BY LenProperties, ElementOfSeq
<1> HIDE DEF k
<1>2. \A i \in 1 .. k : k - i + 1 \in 1 .. k
  BY <1>1
<1>3. [i \in 1 .. k |-> r[k - i + 1]] \in Seq(Node)
  BY <1>1, <1>2
<1> QED BY <1>3 DEF Reverse, k

LEMMA PathNodes ==
    ASSUME NEW w, NEW r, Path(w, r)
    PROVE  Head(r) \in Node /\ Last(r) \in Node /\ r[1] = Head(r)
<1>1. r \in Seq(Node) /\ r # <<>> /\ Len(r) \in Nat /\ Len(r) > 0
  BY EmptySeq, LenProperties DEF Path
<1> QED BY <1>1, ElementOfSeq DEF Last

-----------------------------------------------------------------------------
(* Routes stay routes. *)

MsgsStep == msgs \subseteq msgs' /\ \A m \in msgs' : m \in msgs \/ MsgOK(world, m)

JobsStep ==
    /\ DOMAIN jobs' = world.threads
    /\ \A t \in world.threads : jobs'[t] = jobs[t] \/ JobOK(world, msgs', jobs'[t])

MaintStep ==
    /\ DOMAIN maint' = Node
    /\ \A n \in Node : \A e \in maint'[n] :
          (\E f \in maint[n] : f.msg = e.msg) \/ RoutedOK(world, e.msg)

LEMMA JobOKStays ==
    ASSUME NEW w, NEW M, NEW N, M \subseteq N, NEW j, JobOK(w, M, j)
    PROVE  JobOK(w, N, j)
BY DEF JobOK

LEMMA RoutesStep ==
    ASSUME RoutesInv, world' = world, CacheOK(world, cache'), ReqsOK(reqs'),
           nextId' \in [Node -> Ids], SendbufOK(world, sendbuf'),
           MaintStep, MsgsStep, JobsStep
    PROVE  RoutesInv'
<1>1. MaintOK(world, maint')
  BY DEF RoutesInv, MaintOK, MaintStep
<1>2. MsgsOK(world, msgs')
  BY DEF RoutesInv, MsgsOK, MsgsStep
<1>3. JobsOK(world, msgs', jobs')
  BY JobOKStays DEF RoutesInv, JobsOK, JobsStep, MsgsStep
<1> QED BY <1>1, <1>2, <1>3 DEF RoutesInv

LEMMA Same ==
    ASSUME RoutesInv
    PROVE  /\ msgs' = msgs => MsgsStep
           /\ maint' = maint => MaintStep
           /\ jobs' = jobs => JobsStep
BY DEF RoutesInv, MsgsStep, MaintStep, JobsStep, MaintOK, JobsOK

LEMMA NextAck ==
    ASSUME RoutesInv, NEW n \in Node, NEW k \in Nat,
           nextId' = [nextId EXCEPT ![n].ack = @ + k]
    PROVE  /\ nextId' \in [Node -> Ids] /\ nextId[n].ack \in Nat \ {0}
           /\ nextId'[n].ack = nextId[n].ack + k
           /\ \A m \in Node : m # n => nextId'[m] = nextId[m]
<1>1. nextId \in [Node -> Ids] /\ nextId[n] \in Ids
  BY DEF RoutesInv
<1> DEFINE i == [nextId[n] EXCEPT !.ack = nextId[n].ack + k]
<1>2. i \in Ids /\ nextId[n].ack \in Nat \ {0} /\ i.ack = nextId[n].ack + k
  BY <1>1 DEF Ids
<1>3. nextId' = [nextId EXCEPT ![n] = i]
  OBVIOUS
<1> HIDE DEF i
<1> QED BY <1>1, <1>2, <1>3

LEMMA NextRreq ==
    ASSUME RoutesInv, NEW n \in Node, nextId' = [nextId EXCEPT ![n].rreq = @ + 1]
    PROVE  nextId' \in [Node -> Ids] /\ \A m \in Node : nextId'[m].ack = nextId[m].ack
<1>1. nextId \in [Node -> Ids] /\ nextId[n] \in Ids
  BY DEF RoutesInv
<1> DEFINE i == [nextId[n] EXCEPT !.rreq = nextId[n].rreq + 1]
<1>2. i \in Ids /\ i.ack = nextId[n].ack
  BY <1>1 DEF Ids
<1>3. nextId' = [nextId EXCEPT ![n] = i]
  OBVIOUS
<1> HIDE DEF i
<1> QED BY <1>1, <1>2, <1>3

LEMMA MaintainRoutes ==
    ASSUME RoutesInv, NEW n \in Node, NEW kind, NEW load, NEW route, NEW to, NEW own,
           NEW acks, Maintain(n, kind, load, route, to, own, acks),
           RoutedOK(world, Routed(kind, load, route, to, nextId[n].ack)),
           \A a \in acks : AckOK(a)
    PROVE  MsgsStep /\ MaintStep /\ nextId' \in [Node -> Ids]
<1> DEFINE m == Routed(kind, load, route, to, nextId[n].ack)
           e == Element(m, 0, own)
<1>1. /\ nextId' = [nextId EXCEPT ![n].ack = @ + 1]
      /\ maint' = [maint EXCEPT ![n] = @ \cup {e}]
      /\ msgs' = msgs \cup {m} \cup acks
  BY DEF Maintain
<1>2. RoutedOK(world, m) /\ e.msg = m
  BY ElementFields
<1> HIDE DEF m, e
<1>3. MsgsStep
  BY <1>1, <1>2 DEF MsgsStep, MsgOK
<1>4. MaintStep
  <2>1. DOMAIN maint = Node
    BY DEF RoutesInv, MaintOK
  <2> QED BY <1>1, <1>2, <2>1 DEF MaintStep
<1>5. nextId' \in [Node -> Ids]
  BY <1>1, NextAck
<1> QED BY <1>3, <1>4, <1>5

LEMMA SendRreqRoutes ==
    ASSUME RoutesInv, NEW n \in Node, NEW d \in Node, n # d, SendRreq(n, d)
    PROVE  /\ MsgsStep /\ ReqsOK(reqs') /\ nextId' \in [Node -> Ids]
           /\ reqs'[n][d] > 0
           /\ \A m, b \in Node : m # n \/ b # d => reqs'[m][b] = reqs[m][b]
           /\ \A m \in Node : nextId'[m].ack = nextId[m].ack
           /\ \A m \in msgs' : m \in msgs \/
                 (m.type = "rreq" /\ Head(m.route) = n /\ m.target = d)
<1> DEFINE sent == IF reqs[n][d] = NoEntry THEN 0 ELSE reqs[n][d]
           m == Rreq(nextId[n].rreq, <<n>>, d, Ttl(sent))
<1>1. /\ reqs' = [reqs EXCEPT ![n][d] = sent + 1]
      /\ nextId' = [nextId EXCEPT ![n].rreq = @ + 1]
      /\ msgs' = msgs \cup {m}
  BY DEF SendRreq
<1>2. m.type = "rreq" /\ m.route = <<n>> /\ m.target = d
  BY RreqFields
<1> HIDE DEF m
<1>3. RreqOK(world, m) /\ Head(m.route) = n
  BY <1>2, PathStart DEF RreqOK
<1>4. MsgsStep
  BY <1>1, <1>3 DEF MsgsStep, MsgOK
<1>5. /\ reqs \in [Node -> [Node -> Tries]]
      /\ \A k, b \in Node : reqs[k][b] > 0 => k # b
      /\ sent \in Nat /\ sent + 1 \in Tries
  BY DEF RoutesInv, ReqsOK, Tries, NoEntry
<1> HIDE DEF sent
<1>6. reqs' \in [Node -> [Node -> Tries]]
  <2>1. reqs' = [reqs EXCEPT ![n] = [reqs[n] EXCEPT ![d] = sent + 1]]
    BY <1>1
  <2>2. [reqs[n] EXCEPT ![d] = sent + 1] \in [Node -> Tries]
    BY <1>5
  <2> QED BY <1>5, <2>1, <2>2
<1>7. ASSUME NEW k \in Node, NEW b \in Node, k # n \/ b # d
      PROVE  reqs'[k][b] = reqs[k][b]
  BY <1>1, <1>5, <1>7
<1>8. reqs'[n][d] > 0
  BY <1>1, <1>5
<1>9. ReqsOK(reqs')
  BY <1>5, <1>6, <1>7 DEF ReqsOK
<1>10. nextId' \in [Node -> Ids] /\ \A k \in Node : nextId'[k].ack = nextId[k].ack
  BY <1>1, NextRreq
<1> QED BY <1>1, <1>2, <1>3, <1>4, <1>7, <1>8, <1>9, <1>10

LEMMA SendPacketRoutes ==
    ASSUME RoutesInv, world' = world, NEW p \in world.packets, SendPacket(p)
    PROVE  RoutesInv'
<1> DEFINE n == p[1]
           route == cache[n][p[2]]
           own == TRUE
<1>1. /\ route # <<>> /\ Maintain(n, "data", p, route, 2, own, {})
      /\ UNCHANGED <<cache, reqs, sendbuf, jobs>>
  BY DEF SendPacket
<1>2. n \in Node /\ p[2] \in Node
  BY WorldTypes DEF RoutesInv
<1>3. PathTo(world, route, n, p[2]) /\ nextId[n].ack \in Nat
  BY <1>1, <1>2 DEF RoutesInv, CacheOK, Ids
<1>4. RoutedOK(world, Routed("data", p, route, 2, nextId[n].ack))
  <2>1. route \in Seq(Node)
    BY <1>3 DEF PathTo, Path
  <2> HIDE DEF route
  <2> QED BY <1>3, <2>1, RoutedFields DEF RoutedOK
<1> HIDE DEF n, route, own
<1>5. MsgsStep /\ MaintStep /\ nextId' \in [Node -> Ids]
  BY <1>1, <1>2, <1>4, MaintainRoutes
<1> QED BY <1>1, <1>5, Same, RoutesStep DEF RoutesInv

LEMMA MissPathRoutes ==
    ASSUME RoutesInv, world' = world, NEW t \in world.threads, NEW p \in world.packets,
           MissPath(t, p)
    PROVE  RoutesInv'
<1>1. /\ jobs' = [jobs EXCEPT ![t] = Job(p[1], "buffer", p)]
      /\ UNCHANGED <<cache, reqs, sendbuf, maint, nextId, msgs>>
  BY DEF MissPath, tables
<1>2. p[1] \in Node
  BY WorldTypes DEF RoutesInv
<1>3. JobOK(world, msgs', Job(p[1], "buffer", p))
  BY <1>2, JobFields DEF JobOK
<1>4. JobsStep
  BY <1>1, <1>3 DEF RoutesInv, JobsOK, JobsStep
<1> QED BY <1>1, <1>4, Same, RoutesStep DEF RoutesInv

\* What a thread in the middle of a handler holds.
LEMMA JobIs ==
    ASSUME RoutesInv, NEW t \in world.threads, NEW j, j = jobs[t], j.do # "idle"
    PROVE  /\ j # Idle /\ j.at \in Node
           /\ j.do = "buffer" => j.arg \in world.packets /\ j.arg[1] = j.at
           /\ j.do = "discover" => j.arg \in Node \ {j.at}
           /\ j.do = "propagate" =>
                 /\ j.arg \in msgs /\ RreqOK(world, j.arg)
                 /\ j.at \notin ToSet(j.arg.route) \cup {j.arg.target}
                 /\ <<Last(j.arg.route), j.at>> \in world.link
           /\ j.do \in {"reset", "flush"} =>
                 /\ j.arg \in msgs /\ RoutedOK(world, j.arg)
                 /\ j.arg.kind = "repl" /\ Head(j.arg.load) = j.at
<1>1. JobOK(world, msgs, j)
  BY DEF RoutesInv, JobsOK
<1>2. j # Idle
  BY DEF Idle
<1> QED BY <1>1, <1>2 DEF JobOK

LEMMA BufferPacketRoutes ==
    ASSUME RoutesInv, world' = world, NEW t \in world.threads, BufferPacket(t)
    PROVE  RoutesInv'
<1> DEFINE n == jobs[t].at
           p == jobs[t].arg
<1>1. /\ jobs[t].do = "buffer"
      /\ sendbuf' = [sendbuf EXCEPT ![n] = @ \cup {p}]
      /\ jobs' = [jobs EXCEPT ![t] = Job(n, "discover", p[2])]
      /\ UNCHANGED <<cache, reqs, maint, nextId, msgs>>
  BY DEF BufferPacket
<1>2. n \in Node /\ p \in world.packets /\ p[1] = n
  BY <1>1, JobIs
<1> HIDE DEF n, p
<1>3. p \in Packet /\ p[2] \in Node \ {n}
  BY <1>2, WorldTypes DEF RoutesInv
<1>4. JobOK(world, msgs', Job(n, "discover", p[2]))
  BY <1>2, <1>3, JobFields DEF JobOK
<1>5. JobsStep
  BY <1>1, <1>4 DEF RoutesInv, JobsOK, JobsStep
<1>6. SendbufOK(world, sendbuf')
  <2>1. sendbuf \in [Node -> SUBSET Packet] /\ IsFiniteSet(sendbuf[n])
    BY <1>2 DEF RoutesInv, SendbufOK
  <2>2. IsFiniteSet(sendbuf[n] \cup {p})
    BY <2>1, FS_AddElement
  <2> QED BY <1>1, <1>2, <1>3, <2>1, <2>2 DEF RoutesInv, SendbufOK
<1> QED BY <1>1, <1>5, <1>6, Same, RoutesStep DEF RoutesInv

LEMMA JobEnds ==
    ASSUME RoutesInv, NEW t \in world.threads, jobs' = [jobs EXCEPT ![t] = Idle]
    PROVE  JobsStep
BY DEF RoutesInv, JobsOK, JobsStep, JobOK

LEMMA DiscoverRoutes ==
    ASSUME RoutesInv, world' = world, NEW t \in world.threads, Discover(t)
    PROVE  RoutesInv'
<1> DEFINE n == jobs[t].at
           d == jobs[t].arg
<1>1. /\ jobs[t].do = "discover" /\ jobs' = [jobs EXCEPT ![t] = Idle]
      /\ SendRreq(n, d) \/ UNCHANGED <<reqs, nextId, msgs>>
      /\ UNCHANGED <<cache, sendbuf, maint>>
  BY DEF Discover
<1>2. n \in Node /\ d \in Node /\ n # d
  BY <1>1, JobIs
<1> HIDE DEF n, d
<1>3. JobsStep
  BY <1>1, JobEnds
<1>4. MsgsStep /\ ReqsOK(reqs') /\ nextId' \in [Node -> Ids]
  <2>1. CASE SendRreq(n, d)
    BY <1>2, <2>1, SendRreqRoutes
  <2>2. CASE UNCHANGED <<reqs, nextId, msgs>>
    BY <2>2, Same DEF RoutesInv
  <2> QED BY <1>1, <2>1, <2>2
<1> QED BY <1>1, <1>3, <1>4, Same, RoutesStep DEF RoutesInv

LEMMA RetryRoutes ==
    ASSUME RoutesInv, world' = world, NEW n \in Node, NEW d \in Node, Retry(n, d)
    PROVE  RoutesInv'
<1>1. SendRreq(n, d) /\ UNCHANGED <<cache, sendbuf, maint, jobs>>
  BY DEF Retry
<1>2. n # d
  BY DEF Retry, RoutesInv, ReqsOK
<1>3. MsgsStep /\ ReqsOK(reqs') /\ nextId' \in [Node -> Ids]
  BY <1>1, <1>2, SendRreqRoutes
<1> QED BY <1>1, <1>3, Same, RoutesStep DEF RoutesInv

\* The entry of a RREQ table becomes another number of tries.
LEMMA EntrySet ==
    ASSUME RoutesInv, NEW n \in Node, NEW d \in Node, NEW k \in Tries, ~(k > 0),
           reqs' = [reqs EXCEPT ![n][d] = k]
    PROVE  /\ ReqsOK(reqs') /\ reqs'[n][d] = k
           /\ \A m, b \in Node : m # n \/ b # d => reqs'[m][b] = reqs[m][b]
<1>1. reqs \in [Node -> [Node -> Tries]] /\ \A m, b \in Node : reqs[m][b] > 0 => m # b
  BY DEF RoutesInv, ReqsOK
<1>2. reqs' = [reqs EXCEPT ![n] = [reqs[n] EXCEPT ![d] = k]]
  OBVIOUS
<1>3. [reqs[n] EXCEPT ![d] = k] \in [Node -> Tries]
  BY <1>1
<1>4. reqs' \in [Node -> [Node -> Tries]]
  BY <1>1, <1>2, <1>3
<1>5. reqs'[n][d] = k /\ \A m, b \in Node : m # n \/ b # d => reqs'[m][b] = reqs[m][b]
  BY <1>1
<1> QED BY <1>1, <1>4, <1>5 DEF ReqsOK

LEMMA GiveUpRoutes ==
    ASSUME RoutesInv, world' = world, NEW n \in Node, NEW d \in Node, GiveUp(n, d)
    PROVE  RoutesInv'
<1>1. reqs' = [reqs EXCEPT ![n][d] = 0]
      /\ UNCHANGED <<cache, sendbuf, maint, nextId, jobs, msgs>>
  BY DEF GiveUp
<1>2. 0 \in Tries /\ ~(0 > 0)
  BY DEF Tries, NoEntry
<1>3. ReqsOK(reqs')
  BY <1>1, <1>2, EntrySet
<1> QED BY <1>1, <1>3, Same, RoutesStep DEF RoutesInv

LEMMA AnswerRreqRoutes ==
    ASSUME RoutesInv, world' = world, NEW n \in Node, NEW m \in msgs, AnswerRreq(n, m)
    PROVE  RoutesInv'
<1> DEFINE route == Append(m.route, n)
           r == Routed("repl", route, Reverse(route), 2, 0)
<1>1. /\ m.type = "rreq" /\ m.target = n /\ <<Last(m.route), n>> \in world.link
      /\ msgs' = msgs \cup {r}
      /\ UNCHANGED <<cache, reqs, sendbuf, maint, nextId, jobs>>
  BY DEF AnswerRreq, tables
<1>2. Path(world, m.route) /\ n \notin ToSet(m.route)
  BY <1>1 DEF RoutesInv, MsgsOK, MsgOK, RreqOK, RoutedOK, AckOK
<1>3. Path(world, route)
  BY <1>1, <1>2, PathAppend
<1> HIDE DEF route
<1>6. Reverse(route) \in Seq(Node)
  BY <1>3, ReverseType DEF Path
<1>4. RoutedOK(world, r)
  BY <1>3, <1>6, RoutedFields DEF RoutedOK
<1> HIDE DEF r
<1>5. MsgsStep
  BY <1>1, <1>4 DEF MsgsStep, MsgOK
<1> QED BY <1>1, <1>5, Same, RoutesStep DEF RoutesInv

LEMMA CheckRreqRoutes ==
    ASSUME RoutesInv, world' = world, NEW t \in world.threads, NEW n \in Node,
           NEW m \in msgs, CheckRreq(t, n, m)
    PROVE  RoutesInv'
<1>1. /\ m.type = "rreq" /\ m.target # n /\ <<Last(m.route), n>> \in world.link
      /\ n \notin ToSet(m.route)
      /\ jobs' = [jobs EXCEPT ![t] = Job(n, "propagate", m)]
      /\ UNCHANGED <<cache, reqs, sendbuf, maint, nextId, msgs>>
  BY DEF CheckRreq, Passes, tables
<1>2. RreqOK(world, m)
  BY <1>1 DEF RoutesInv, MsgsOK, MsgOK, RoutedOK, AckOK
<1>3. JobOK(world, msgs', Job(n, "propagate", m))
  BY <1>1, <1>2, JobFields DEF JobOK
<1>4. JobsStep
  BY <1>1, <1>3 DEF RoutesInv, JobsOK, JobsStep
<1> QED BY <1>1, <1>4, Same, RoutesStep DEF RoutesInv

\* The RREQ that a node sends on.
SentOn(m, n) == Rreq(m.id, Append(m.route, n), m.target, m.ttl - 1)

LEMMA SentOnOK ==
    ASSUME NEW w, NEW m, RreqOK(w, m), NEW n \in Node,
           n \notin ToSet(m.route) \cup {m.target}, <<Last(m.route), n>> \in w.link
    PROVE  /\ RreqOK(w, SentOn(m, n)) /\ Head(SentOn(m, n).route) = Head(m.route)
           /\ SentOn(m, n).target = m.target /\ Head(m.route) \in Node
<1> DEFINE r == m.route
           s == Append(r, n)
           x == SentOn(m, n)
<1>1. x.type = "rreq" /\ x.route = s /\ x.target = m.target
  BY DEF SentOn, Rreq
<1>2. /\ Path(w, r) /\ m.target \in Node /\ m.target \notin ToSet(r)
      /\ n \notin ToSet(r) /\ n # m.target /\ <<Last(r), n>> \in w.link
  BY DEF RreqOK
<1>3. m.target \notin ToSet(s)
  BY <1>2, AppendNodes DEF Path
<1>4. Path(w, s) /\ Head(s) = Head(r)
  BY <1>2, PathAppend
<1>5. Head(r) \in Node
  BY <1>2, PathNodes
<1> HIDE DEF r, s, x
<1>6. RreqOK(w, x) /\ Head(x.route) = Head(r) /\ x.target = m.target
  BY <1>1, <1>2, <1>3, <1>4 DEF RreqOK
<1> QED BY <1>5, <1>6 DEF r, x

LEMMA Propagated ==
    ASSUME RoutesInv, NEW t \in world.threads, Propagate(t),
           NEW m, m = jobs[t].arg, NEW n, n = jobs[t].at
    PROVE  /\ n \in Node /\ m \in msgs /\ RreqOK(world, m) /\ Head(m.route) \in Node
           /\ jobs[t].do = "propagate" /\ jobs' = [jobs EXCEPT ![t] = Idle]
           /\ reqs' = [reqs EXCEPT ![n][Head(m.route)] = IF @ = NoEntry THEN 0 ELSE @]
           /\ msgs' = msgs \cup {SentOn(m, n)} /\ RreqOK(world, SentOn(m, n))
           /\ Head(SentOn(m, n).route) = Head(m.route)
           /\ SentOn(m, n).target = m.target
<1>1. /\ jobs[t].do = "propagate"
      /\ jobs' = [jobs EXCEPT ![t] = Idle] /\ msgs' = msgs \cup {SentOn(m, n)}
      /\ reqs' = [reqs EXCEPT ![n][Head(m.route)] = IF @ = NoEntry THEN 0 ELSE @]
  BY DEF Propagate, SentOn
<1>2. /\ n \in Node /\ m \in msgs /\ RreqOK(world, m)
      /\ n \notin ToSet(m.route) \cup {m.target} /\ <<Last(m.route), n>> \in world.link
  BY <1>1, JobIs
<1>3. /\ RreqOK(world, SentOn(m, n)) /\ Head(SentOn(m, n).route) = Head(m.route)
      /\ SentOn(m, n).target = m.target /\ Head(m.route) \in Node
  BY <1>2, SentOnOK
<1> QED BY <1>1, <1>2, <1>3

\* Propagate makes an entry where there is none and keeps the others.
LEMMA EntryMade ==
    ASSUME RoutesInv, NEW n \in Node, NEW d \in Node,
           reqs' = [reqs EXCEPT ![n][d] = IF @ = NoEntry THEN 0 ELSE @]
    PROVE  /\ ReqsOK(reqs')
           /\ \A m, b \in Node : /\ reqs[m][b] # NoEntry => reqs'[m][b] = reqs[m][b]
                                 /\ reqs[m][b] = NoEntry => reqs'[m][b] \in {NoEntry, 0}
<1>1. reqs \in [Node -> [Node -> Tries]] /\ \A m, b \in Node : reqs[m][b] > 0 => m # b
  BY DEF RoutesInv, ReqsOK
<1> DEFINE k == IF reqs[n][d] = NoEntry THEN 0 ELSE reqs[n][d]
<1>2. k \in Tries /\ (k > 0 => n # d)
  BY <1>1 DEF Tries, NoEntry
<1>3. reqs' = [reqs EXCEPT ![n] = [reqs[n] EXCEPT ![d] = k]]
  OBVIOUS
<1>4. reqs[n][d] # NoEntry => k = reqs[n][d]
  OBVIOUS
<1>5. reqs[n][d] = NoEntry => k = 0
  OBVIOUS
<1> HIDE DEF k
<1>6. [reqs[n] EXCEPT ![d] = k] \in [Node -> Tries]
  BY <1>1, <1>2
<1>7. reqs' \in [Node -> [Node -> Tries]]
  BY <1>1, <1>3, <1>6
<1>8. ASSUME NEW m \in Node, NEW b \in Node
      PROVE  reqs'[m][b] = IF m = n /\ b = d THEN k ELSE reqs[m][b]
  BY <1>1, <1>3
<1> QED BY <1>1, <1>2, <1>4, <1>5, <1>7, <1>8 DEF ReqsOK

LEMMA PropagateRoutes ==
    ASSUME RoutesInv, world' = world, NEW t \in world.threads, Propagate(t)
    PROVE  RoutesInv'
<1>1. UNCHANGED <<cache, sendbuf, maint, nextId>>
  BY DEF Propagate
<1> DEFINE m == jobs[t].arg
           n == jobs[t].at
<1>2. /\ n \in Node /\ Head(m.route) \in Node
      /\ jobs' = [jobs EXCEPT ![t] = Idle]
      /\ reqs' = [reqs EXCEPT ![n][Head(m.route)] = IF @ = NoEntry THEN 0 ELSE @]
      /\ \E r : msgs' = msgs \cup {r} /\ RreqOK(world, r)
  BY Propagated
<1> HIDE DEF m, n
<1>3. MsgsStep
  BY <1>2 DEF MsgsStep, MsgOK
<1>4. ReqsOK(reqs')
  BY <1>2, EntryMade
<1>5. JobsStep
  BY <1>2, JobEnds
<1> QED BY <1>1, <1>3, <1>4, <1>5, Same, RoutesStep DEF RoutesInv

\* The messages of each type.
LEMMA RoutedIs ==
    ASSUME RoutesInv, NEW m \in msgs
    PROVE  /\ m.type = "routed" => RoutedOK(world, m)
           /\ m.type = "rreq" => RreqOK(world, m)
           /\ m.type = "ack" => AckOK(m)
BY DEF RoutesInv, MsgsOK, MsgOK, RreqOK, RoutedOK, AckOK

LEMMA AcksOK ==
    ASSUME NEW w, NEW m, RoutedOK(w, m), NEW n, NEW a \in Acks(n, m)
    PROVE  AckOK(a)
BY AcksAre DEF RoutedOK, AckOK

LEMMA ForgetAllRoutes ==
    ASSUME RoutesInv, world' = world, NEW n \in Node, ForgetAll(n)
    PROVE  RoutesInv'
<1>1. /\ cache' = [cache EXCEPT ![n] = [d \in Node |-> <<>>]]
      /\ reqs' = [reqs EXCEPT ![n] = [d \in Node |-> NoEntry]]
      /\ sendbuf' = [sendbuf EXCEPT ![n] = {}]
      /\ maint' = [maint EXCEPT ![n] = {}]
      /\ nextId' = [nextId EXCEPT ![n] = [rreq |-> 0, ack |-> 1]]
      /\ jobs' = [t \in world.threads |->
                    IF jobs[t] # Idle /\ jobs[t].at = n THEN Idle ELSE jobs[t]]
      /\ msgs' = msgs
  BY DEF ForgetAll
<1>2. CacheOK(world, cache')
  <2>1. [d \in Node |-> <<>>] \in [Node -> Seq(Node)]
    OBVIOUS
  <2>2. cache' \in [Node -> [Node -> Seq(Node)]]
    BY <1>1, <2>1 DEF RoutesInv, CacheOK
  <2>3. ASSUME NEW a \in Node, NEW d \in Node, cache'[a][d] # <<>>
        PROVE  cache'[a][d] = cache[a][d]
    BY <1>1, <2>3 DEF RoutesInv, CacheOK
  <2> QED BY <2>2, <2>3 DEF RoutesInv, CacheOK
<1>3. ReqsOK(reqs')
  <2>1. NoEntry \in Tries /\ ~(NoEntry > 0)
    BY DEF NoEntry, Tries
  <2> QED BY <1>1, <2>1 DEF RoutesInv, ReqsOK
<1>4. nextId' \in [Node -> Ids]
  BY <1>1 DEF RoutesInv, Ids
<1>5. SendbufOK(world, sendbuf')
  BY <1>1, FS_EmptySet DEF RoutesInv, SendbufOK
<1>6. MaintStep
  BY <1>1 DEF RoutesInv, MaintOK, MaintStep
<1>7. JobsStep
  BY <1>1 DEF JobsStep, JobOK
<1> QED BY <1>1, <1>2, <1>3, <1>4, <1>5, <1>6, <1>7, Same, RoutesStep

LEMMA CacheReplRoutes ==
    ASSUME RoutesInv, world' = world, NEW t \in world.threads, NEW n \in Node,
           NEW m \in msgs, CacheRepl(t, n, m)
    PROVE  /\ RoutesInv' /\ Target(m) \in Node
           /\ cache'[n][Target(m)] # <<>>
           /\ \A a, d \in Node : cache[a][d] # <<>> => cache'[a][d] # <<>>
<1> DEFINE d == Target(m)
           r == Better(cache[n][d], m.load)
<1>1. /\ m.type = "routed" /\ m.kind = "repl" /\ Head(m.load) = n
      /\ cache' = [cache EXCEPT ![n][d] = r]
      /\ jobs' = [jobs EXCEPT ![t] = Job(n, "reset", m)]
      /\ UNCHANGED <<reqs, sendbuf, maint, nextId, msgs>>
  BY DEF CacheRepl
<1>2. RoutedOK(world, m) /\ Path(world, m.load)
  BY <1>1, RoutedIs DEF RoutedOK
<1>3. d \in Node /\ PathTo(world, m.load, n, d)
  BY <1>1, <1>2, PathNodes DEF PathTo, Target
<1>4. /\ cache \in [Node -> [Node -> Seq(Node)]]
      /\ \A a, b \in Node : cache[a][b] # <<>> => PathTo(world, cache[a][b], a, b)
  BY DEF RoutesInv, CacheOK
<1>5. PathTo(world, r, n, d) /\ r \in Seq(Node) /\ r # <<>>
  <2>1. r = m.load \/ (r = cache[n][d] /\ cache[n][d] # <<>>)
    BY DEF Better
  <2> HIDE DEF d, r
  <2>2. PathTo(world, r, n, d)
    BY <1>1, <1>3, <1>4, <2>1
  <2> QED BY <2>2 DEF PathTo, Path
<1>6. JobOK(world, msgs', Job(n, "reset", m))
  BY <1>1, <1>2, JobFields DEF JobOK
<1>7. JobsStep
  BY <1>1, <1>6 DEF RoutesInv, JobsOK, JobsStep
<1> HIDE DEF d, r
<1>8. cache' \in [Node -> [Node -> Seq(Node)]]
  <2>1. cache' = [cache EXCEPT ![n] = [cache[n] EXCEPT ![d] = r]]
    BY <1>1
  <2>2. [cache[n] EXCEPT ![d] = r] \in [Node -> Seq(Node)]
    BY <1>3, <1>4, <1>5
  <2> QED BY <1>4, <2>1, <2>2
<1>9. ASSUME NEW a \in Node, NEW b \in Node
      PROVE  cache'[a][b] = IF a = n /\ b = d THEN r ELSE cache[a][b]
  BY <1>1, <1>3, <1>4
<1>10. CacheOK(world, cache')
  BY <1>4, <1>5, <1>8, <1>9 DEF CacheOK
<1>11. /\ cache'[n][d] # <<>>
       /\ \A a, b \in Node : cache[a][b] # <<>> => cache'[a][b] # <<>>
  BY <1>3, <1>5, <1>9
<1>12. RoutesInv'
  BY <1>1, <1>7, <1>10, Same, RoutesStep DEF RoutesInv
<1> QED BY <1>3, <1>11, <1>12 DEF d

\* A REPL in progress has a target, and its node is its initiator.
LEMMA ReplJob ==
    ASSUME RoutesInv, NEW t \in world.threads, jobs[t].do \in {"reset", "flush"}
    PROVE  /\ jobs[t] # Idle /\ jobs[t].at \in Node /\ Target(jobs[t].arg) \in Node
           /\ jobs[t].arg \in msgs /\ RoutedOK(world, jobs[t].arg)
           /\ jobs[t].arg.kind = "repl" /\ Head(jobs[t].arg.load) = jobs[t].at
<1>1. /\ jobs[t] # Idle /\ jobs[t].at \in Node
      /\ jobs[t].arg \in msgs /\ RoutedOK(world, jobs[t].arg)
      /\ jobs[t].arg.kind = "repl" /\ Head(jobs[t].arg.load) = jobs[t].at
  BY JobIs
<1>2. Path(world, jobs[t].arg.load)
  BY <1>1 DEF RoutedOK
<1> QED BY <1>1, <1>2, PathNodes DEF Target

LEMMA GotReplRoutes ==
    ASSUME RoutesInv, world' = world, NEW t \in world.threads, GotRepl(t)
    PROVE  RoutesInv'
<1> DEFINE n == jobs[t].at
           m == jobs[t].arg
           d == Target(m)
<1>1. /\ jobs[t].do = "reset"
      /\ \/ ForgetAll(n)
         \/ /\ reqs' = [reqs EXCEPT ![n][d] = 0]
            /\ jobs' = [jobs EXCEPT ![t] = Job(n, "flush", m)]
            /\ UNCHANGED <<cache, sendbuf, maint, nextId, msgs>>
  BY DEF GotRepl, Abort
<1>2. /\ n \in Node /\ d \in Node /\ m \in msgs /\ RoutedOK(world, m)
      /\ m.kind = "repl" /\ Head(m.load) = n
  BY <1>1, ReplJob
<1> HIDE DEF n, m, d
<1>3. CASE ForgetAll(n)
  BY <1>2, <1>3, ForgetAllRoutes
<1>4. CASE /\ reqs' = [reqs EXCEPT ![n][d] = 0]
           /\ jobs' = [jobs EXCEPT ![t] = Job(n, "flush", m)]
           /\ UNCHANGED <<cache, sendbuf, maint, nextId, msgs>>
  <2>1. 0 \in Tries /\ ~(0 > 0)
    BY DEF Tries, NoEntry
  <2>2. ReqsOK(reqs')
    BY <1>2, <1>4, <2>1, EntrySet
  <2>3. JobOK(world, msgs', Job(n, "flush", m))
    BY <1>2, <1>4, JobFields DEF JobOK
  <2>4. JobsStep
    BY <1>4, <2>3 DEF RoutesInv, JobsOK, JobsStep
  <2> QED BY <1>4, <2>2, <2>4, Same, RoutesStep DEF RoutesInv
<1> QED BY <1>1, <1>3, <1>4

\* The packets that a REPL sets free, and the message of one of them.
Waiting(n, d) == {p \in sendbuf[n] : p[2] = d}
First(n, d, p, i) == Routed("data", p, cache[n][d], 2, i)

LEMMA FirstFields ==
    ASSUME NEW n, NEW d, NEW p, NEW i, NEW m, m = First(n, d, p, i)
    PROVE  /\ m.type = "routed" /\ m.kind = "data" /\ m.load = p
           /\ m.route = cache[n][d] /\ m.to = 2 /\ m.ack = i
BY RoutedFields DEF First

\* The step, for the node and the destination.
FlushTo(t, n, d) ==
    LET next == nextId[n].ack + Cardinality(Waiting(n, d)) IN
    /\ nextId' = [nextId EXCEPT ![n].ack = next]
    /\ \E id \in Injection(Waiting(n, d), nextId[n].ack .. next - 1) :
          maint' = [maint EXCEPT ![n] = @ \cup
                      {Element(First(n, d, p, id[p]), -1, TRUE) : p \in Waiting(n, d)}]
    /\ sendbuf' = [sendbuf EXCEPT ![n] = @ \ Waiting(n, d)]
    /\ jobs' = [jobs EXCEPT ![t] = Idle]
    /\ msgs' = msgs \cup Acks(n, jobs[t].arg)
    /\ UNCHANGED <<cache, reqs, seen, black, history, budget>>

LEMMA FlushIsFlushTo ==
    ASSUME NEW t, Flush(t), cache[jobs[t].at][Target(jobs[t].arg)] # <<>>
    PROVE  jobs[t].do = "flush" /\ FlushTo(t, jobs[t].at, Target(jobs[t].arg))
BY DEF Flush, FlushTo, First, Waiting

\* Each packet set free waits under maintenance with an identification of its
\* own.
Emptied(t, n, d) ==
    /\ nextId' \in [Node -> Ids] /\ nextId[n].ack <= nextId'[n].ack
    /\ \A k \in Node : k # n => nextId'[k] = nextId[k] /\ maint'[k] = maint[k]
    /\ sendbuf' = [sendbuf EXCEPT ![n] = @ \ Waiting(n, d)]
    /\ jobs' = [jobs EXCEPT ![t] = Idle]
    /\ msgs' = msgs \cup Acks(n, jobs[t].arg)
    /\ UNCHANGED <<cache, reqs, seen, black, history, budget>>
    /\ DOMAIN maint' = Node /\ maint[n] \subseteq maint'[n]
    /\ \E id :
         /\ \A p \in Waiting(n, d) :
               /\ id[p] \in Nat /\ nextId[n].ack <= id[p] /\ id[p] < nextId'[n].ack
               /\ \A q \in Waiting(n, d) : id[p] = id[q] => p = q
               /\ \E e \in maint'[n] : e.msg = First(n, d, p, id[p])
         /\ \A e \in maint'[n] :
               e \in maint[n] \/ \E p \in Waiting(n, d) : e.msg = First(n, d, p, id[p])

LEMMA Flushed ==
    ASSUME RoutesInv, NEW t \in world.threads, Flush(t),
           NEW n, n = jobs[t].at, NEW d, d = Target(jobs[t].arg), cache[n][d] # <<>>
    PROVE  Emptied(t, n, d)
<1> DEFINE W == Waiting(n, d)
           next == nextId[n].ack + Cardinality(W)
           El(id) == {Element(First(n, d, p, id[p]), -1, TRUE) : p \in W}
<1>0. jobs[t].do = "flush" /\ FlushTo(t, n, d)
  BY FlushIsFlushTo
<1>1. /\ nextId' = [nextId EXCEPT ![n].ack = next]
      /\ \E id \in Injection(W, nextId[n].ack .. next - 1) :
            maint' = [maint EXCEPT ![n] = @ \cup El(id)]
      /\ sendbuf' = [sendbuf EXCEPT ![n] = @ \ W]
      /\ jobs' = [jobs EXCEPT ![t] = Idle]
      /\ msgs' = msgs \cup Acks(n, jobs[t].arg)
      /\ UNCHANGED <<cache, reqs, seen, black, history, budget>>
  BY <1>0 DEF FlushTo
<1>2. n \in Node /\ d \in Node
  BY <1>0, ReplJob
<1>3. Cardinality(W) \in Nat
  <2>1. IsFiniteSet(sendbuf[n]) /\ W \subseteq sendbuf[n]
    BY <1>2 DEF RoutesInv, SendbufOK, Waiting
  <2> QED BY <2>1, FS_Subset, FS_CardinalityType
<1> HIDE DEF W
<1>4. /\ nextId' \in [Node -> Ids] /\ nextId[n].ack \in Nat /\ nextId'[n].ack = next
      /\ \A k \in Node : k # n => nextId'[k] = nextId[k]
  <2> DEFINE c == Cardinality(W)
  <2>1. nextId' = [nextId EXCEPT ![n].ack = @ + c] /\ c \in Nat
    BY <1>1, <1>3
  <2> HIDE DEF c
  <2>2. /\ nextId' \in [Node -> Ids] /\ nextId[n].ack \in Nat
        /\ nextId'[n].ack = nextId[n].ack + c
        /\ \A k \in Node : k # n => nextId'[k] = nextId[k]
    BY <1>2, <2>1, NextAck
  <2> QED BY <2>2 DEF c
<1>5. PICK id \in Injection(W, nextId[n].ack .. next - 1) :
         maint' = [maint EXCEPT ![n] = @ \cup El(id)]
  BY <1>1
<1>6. DOMAIN maint = Node
  BY DEF RoutesInv, MaintOK
<1> HIDE DEF El
<1>7. /\ DOMAIN maint' = Node /\ maint'[n] = maint[n] \cup El(id)
      /\ \A k \in Node : k # n => maint'[k] = maint[k]
  BY <1>2, <1>5, <1>6
<1>8. ASSUME NEW p \in W
      PROVE  /\ id[p] \in Nat /\ nextId[n].ack <= id[p] /\ id[p] < nextId'[n].ack
             /\ \A q \in W : id[p] = id[q] => p = q
  <2>1. id \in [W -> nextId[n].ack .. next - 1] /\ IsInjective(id)
    BY <1>5 DEF Injection
  <2>2. id[p] \in nextId[n].ack .. next - 1
    BY <2>1
  <2>3. next \in Nat
    BY <1>3, <1>4
  <2> HIDE DEF next
  <2>4. id[p] \in Nat /\ nextId[n].ack <= id[p] /\ id[p] < nextId'[n].ack
    BY <1>4, <2>2, <2>3
  <2>5. \A q \in W : id[p] = id[q] => p = q
    BY <2>1 DEF IsInjective
  <2> QED BY <2>4, <2>5
<1>9. ASSUME NEW p \in W
      PROVE  \E e \in maint'[n] : e.msg = First(n, d, p, id[p])
  <2> DEFINE m == First(n, d, p, id[p])
             e == Element(m, -1, TRUE)
  <2>1. e \in El(id)
    BY DEF El
  <2> HIDE DEF m
  <2>2. e.msg = m
    BY DEF Element
  <2> HIDE DEF e
  <2> QED BY <1>7, <2>1, <2>2 DEF m
<1>10. ASSUME NEW e \in maint'[n], e \notin maint[n]
       PROVE  \E p \in W : e.msg = First(n, d, p, id[p])
  <2>1. PICK p \in W : e = Element(First(n, d, p, id[p]), -1, TRUE)
    BY <1>7, <1>10 DEF El
  <2> DEFINE m == First(n, d, p, id[p])
  <2> HIDE DEF m
  <2>2. e = Element(m, -1, TRUE)
    BY <2>1 DEF m
  <2>3. e.msg = m
    BY <2>2 DEF Element
  <2> QED BY <2>3 DEF m
<1>11. /\ \A p \in W :
             /\ id[p] \in Nat /\ nextId[n].ack <= id[p] /\ id[p] < nextId'[n].ack
             /\ \A q \in W : id[p] = id[q] => p = q
             /\ \E e \in maint'[n] : e.msg = First(n, d, p, id[p])
       /\ \A e \in maint'[n] :
             e \in maint[n] \/ \E p \in W : e.msg = First(n, d, p, id[p])
  BY <1>8, <1>9, <1>10
<1>12. nextId[n].ack <= nextId'[n].ack
  BY <1>3, <1>4
<1> USE DEF W
<1> HIDE DEF next
<1>13. maint[n] \subseteq maint'[n]
  BY <1>7
<1> QED BY <1>1, <1>4, <1>7, <1>11, <1>12, <1>13 DEF Emptied

LEMMA FlushRoutes ==
    ASSUME RoutesInv, world' = world, NEW t \in world.threads, Flush(t)
    PROVE  RoutesInv'
<1> DEFINE n == jobs[t].at
           m == jobs[t].arg
           d == Target(m)
<1>1. jobs[t].do = "flush" /\ (cache[n][d] = <<>> => ForgetAll(n))
  BY DEF Flush, Abort
<1>2. n \in Node /\ d \in Node /\ RoutedOK(world, m)
  BY <1>1, ReplJob
<1>3. CASE cache[n][d] = <<>>
  BY <1>1, <1>2, <1>3, ForgetAllRoutes
<1>4. CASE cache[n][d] # <<>>
  <2>0. n = jobs[t].at /\ d = Target(jobs[t].arg) /\ m = jobs[t].arg
    OBVIOUS
  <2> HIDE DEF n, m, d
  <2>9. Emptied(t, n, d)
    BY <1>4, <2>0, Flushed
  <2>1. /\ nextId' \in [Node -> Ids] /\ DOMAIN maint' = Node
        /\ \A k \in Node : k # n => maint'[k] = maint[k]
        /\ sendbuf' = [sendbuf EXCEPT ![n] = @ \ Waiting(n, d)]
        /\ jobs' = [jobs EXCEPT ![t] = Idle]
        /\ msgs' = msgs \cup Acks(n, m)
        /\ UNCHANGED <<cache, reqs>>
    BY <2>0, <2>9 DEF Emptied
  <2>8. \A e \in maint'[n] : e \in maint[n] \/
           \E p \in Waiting(n, d), i \in Nat : e.msg = First(n, d, p, i)
    BY <2>0, <2>9 DEF Emptied
  <2>2. PathTo(world, cache[n][d], n, d)
    BY <1>2, <1>4 DEF RoutesInv, CacheOK
  <2>3. ASSUME NEW p \in Waiting(n, d), NEW i \in Nat
        PROVE  RoutedOK(world, First(n, d, p, i))
    <3>1. p \in world.packets /\ p[1] = n /\ p[2] = d
      BY <1>2 DEF RoutesInv, SendbufOK, Waiting
    <3> DEFINE f == First(n, d, p, i)
    <3>2. /\ f.type = "routed" /\ f.kind = "data" /\ f.load = p
          /\ f.route = cache[n][d] /\ f.to = 2 /\ f.ack = i
      BY FirstFields
    <3> HIDE DEF f
    <3>3. cache[n][d] \in Seq(Node)
      BY <2>2 DEF PathTo, Path
    <3> QED BY <2>2, <3>1, <3>2, <3>3 DEF RoutedOK, f
  <2>4. MaintStep
    BY <1>2, <2>1, <2>3, <2>8 DEF MaintStep
  <2>5. SendbufOK(world, sendbuf')
    <3>1. sendbuf \in [Node -> SUBSET Packet] /\ IsFiniteSet(sendbuf[n])
      BY <1>2 DEF RoutesInv, SendbufOK
    <3>2. IsFiniteSet(sendbuf[n] \ Waiting(n, d))
      BY <3>1, FS_Subset
    <3> QED BY <1>2, <2>1, <3>1, <3>2 DEF RoutesInv, SendbufOK
  <2>6. JobsStep
    BY <2>1, JobEnds
  <2>7. MsgsStep
    BY <1>2, <2>1, AcksOK DEF MsgsStep, MsgOK
  <2> QED BY <2>1, <2>4, <2>5, <2>6, <2>7, RoutesStep DEF RoutesInv
<1> QED BY <1>3, <1>4

\* A link error and a RERR only take paths away.
LEMMA CutKeeps ==
    ASSUME NEW w, NEW c, CacheOK(w, c), NEW n \in Node, NEW u, NEW v, NEW f,
           f = [c EXCEPT ![n] = Cut(@, u, v)]
    PROVE  CacheOK(w, f)
<1>1. c \in [Node -> [Node -> Seq(Node)]] /\ <<>> \in Seq(Node)
  BY DEF CacheOK
<1>2. Cut(c[n], u, v) \in [Node -> Seq(Node)]
  BY <1>1 DEF Cut
<1>3. \A d \in Node : Cut(c[n], u, v)[d] \in {c[n][d], <<>>}
  BY <1>1 DEF Cut
<1>4. f \in [Node -> [Node -> Seq(Node)]]
  BY <1>1, <1>2
<1>5. ASSUME NEW a \in Node, NEW d \in Node, f[a][d] # <<>>
      PROVE  f[a][d] = c[a][d]
  BY <1>1, <1>3, <1>5
<1> QED BY <1>4, <1>5 DEF CacheOK

LEMMA AfterRerrKeeps ==
    ASSUME RoutesInv, NEW n \in Node, NEW m, AfterRerr(n, m)
    PROVE  CacheOK(world, cache') /\ (m.kind # "rerr" => cache' = cache)
<1>1. CacheOK(world, cache)
  BY DEF RoutesInv
<1>2. CASE m.kind = "rerr"
  <2>1. cache' = [cache EXCEPT ![n] = Cut(@, m.load[1], m.load[2])]
    BY <1>2 DEF AfterRerr
  <2> QED BY <1>1, <1>2, <2>1, CutKeeps
<1>3. CASE m.kind # "rerr"
  BY <1>1, <1>3 DEF AfterRerr
<1> QED BY <1>2, <1>3

\* The message that a node on the way sends on.
Onward(n, m) == Routed(m.kind, m.load, m.route, m.to + 1, nextId[n].ack)

LEMMA OnwardFields ==
    ASSUME NEW n, NEW m, NEW f, f = Onward(n, m)
    PROVE  /\ f.type = "routed" /\ f.kind = m.kind /\ f.load = m.load
           /\ f.route = m.route /\ f.to = m.to + 1 /\ f.ack = nextId[n].ack
BY RoutedFields DEF Onward

LEMMA ForwardRoutes ==
    ASSUME RoutesInv, world' = world, NEW n \in Node, NEW m \in msgs, Forward(n, m)
    PROVE  RoutesInv'
<1> DEFINE own == FALSE
           to == m.to + 1
           acks == Acks(n, m)
           f == Onward(n, m)
<1>1. /\ m.type = "routed" /\ AfterRerr(n, m)
      /\ Maintain(n, m.kind, m.load, m.route, to, own, acks)
      /\ UNCHANGED <<reqs, sendbuf, jobs>>
  BY DEF Forward
<1>2. RoutedOK(world, m) /\ nextId[n].ack \in Nat
  BY <1>1, RoutedIs DEF RoutesInv, Ids
<1>3. \A a \in acks : AckOK(a)
  BY <1>2, AcksOK
<1>4. RoutedOK(world, f) /\ f = Routed(m.kind, m.load, m.route, to, nextId[n].ack)
  <2>1. f = Routed(m.kind, m.load, m.route, to, nextId[n].ack)
    BY DEF Onward
  <2>2. /\ f.type = "routed" /\ f.kind = m.kind /\ f.load = m.load
        /\ f.route = m.route /\ f.to = m.to + 1 /\ f.ack = nextId[n].ack
    BY OnwardFields
  <2> HIDE DEF f
  <2>3. RoutedOK(world, f)
    BY <1>2, <2>2 DEF RoutedOK
  <2> QED BY <2>1, <2>3
<1> HIDE DEF own, to, acks, f
<1>5. MsgsStep /\ MaintStep /\ nextId' \in [Node -> Ids]
  BY <1>1, <1>3, <1>4, MaintainRoutes
<1> QED BY <1>1, <1>5, AfterRerrKeeps, Same, RoutesStep DEF RoutesInv

LEMMA ArriveRoutes ==
    ASSUME RoutesInv, world' = world, NEW n \in Node, NEW m \in msgs, Arrive(n, m)
    PROVE  RoutesInv'
<1>1. /\ m.type = "routed" /\ AfterRerr(n, m) /\ msgs' = msgs \cup Acks(n, m)
      /\ UNCHANGED <<reqs, sendbuf, maint, nextId, jobs>>
  BY DEF Arrive
<1>2. RoutedOK(world, m)
  BY <1>1, RoutedIs
<1>3. MsgsStep
  BY <1>1, <1>2, AcksOK DEF MsgsStep, MsgOK
<1> QED BY <1>1, <1>3, AfterRerrKeeps, Same, RoutesStep DEF RoutesInv

LEMMA OverhearRerrRoutes ==
    ASSUME RoutesInv, world' = world, NEW n \in Node, NEW m \in msgs, OverhearRerr(n, m)
    PROVE  RoutesInv'
<1>1. AfterRerr(n, m) /\ UNCHANGED <<reqs, sendbuf, maint, nextId, jobs, msgs>>
  BY DEF OverhearRerr
<1> QED BY <1>1, AfterRerrKeeps, Same, RoutesStep DEF RoutesInv

LEMMA HandleAckRoutes ==
    ASSUME RoutesInv, world' = world, NEW n \in Node, NEW m \in msgs, HandleAck(n, m)
    PROVE  RoutesInv'
<1>1. /\ maint' = [maint EXCEPT ![n] = {e \in @ : e.msg.ack # m.id}]
      /\ UNCHANGED <<cache, reqs, sendbuf, nextId, jobs, msgs>>
  BY DEF HandleAck
<1>2. MaintStep
  BY <1>1 DEF RoutesInv, MaintOK, MaintStep
<1> QED BY <1>1, <1>2, Same, RoutesStep DEF RoutesInv

\* What is sent again stays what it was.
LEMMA Resent ==
    ASSUME RoutesInv, NEW n \in Node, NEW e \in maint[n], Resend(n, e)
    PROVE  /\ DOMAIN maint' = Node /\ \A k \in Node : k # n => maint'[k] = maint[k]
           /\ \A x \in maint'[n] : \E y \in maint[n] : x.msg = y.msg
           /\ \A y \in maint[n] : \E x \in maint'[n] : x.msg = y.msg
<1> DEFINE f == [e EXCEPT !.count = e.count + 1]
<1>1. maint' = [maint EXCEPT ![n] = (@ \ {e}) \cup {f}]
  BY DEF Resend
<1>2. f.msg = e.msg
  OBVIOUS
<1> HIDE DEF f
<1>3. DOMAIN maint = Node
  BY DEF RoutesInv, MaintOK
<1>4. /\ DOMAIN maint' = Node /\ maint'[n] = (maint[n] \ {e}) \cup {f}
      /\ \A k \in Node : k # n => maint'[k] = maint[k]
  BY <1>1, <1>3
<1> QED BY <1>2, <1>4

LEMMA ResendRoutes ==
    ASSUME RoutesInv, world' = world, NEW n \in Node, NEW e \in maint[n], Resend(n, e)
    PROVE  RoutesInv'
<1>1. msgs' = msgs \cup {e.msg} /\ UNCHANGED <<cache, reqs, sendbuf, nextId, jobs>>
  BY DEF Resend
<1>2. MaintStep
  BY Resent DEF MaintStep
<1>3. RoutedOK(world, e.msg)
  BY DEF RoutesInv, MaintOK
<1>4. MsgsStep
  BY <1>1, <1>3 DEF MsgsStep, MsgOK
<1> QED BY <1>1, <1>2, <1>4, Same, RoutesStep DEF RoutesInv

LEMMA ReportIs ==
    ASSUME NEW n, NEW e, NEW m \in Report(n, e)
    PROVE  /\ m.type = "routed" /\ m.kind = "rerr" /\ m.ack = 0
           /\ m.route = Reverse(e.msg.route) /\ m.to = Len(e.msg.route) - e.msg.to + 3
<1>1. m = Routed("rerr", <<n, NextHop(e.msg)>>, Reverse(e.msg.route),
                 Len(e.msg.route) - e.msg.to + 3, 0)
  BY DEF Report
<1> QED BY <1>1, RoutedFields

LEMMA ReportOK ==
    ASSUME NEW w, NEW n, NEW e, RoutedOK(w, e.msg), NEW m \in Report(n, e)
    PROVE  RoutedOK(w, m)
<1> DEFINE r == e.msg.route
           k == Len(r)
           to == k - e.msg.to + 3
<1>1. /\ m.type = "routed" /\ m.kind = "rerr" /\ m.ack = 0
      /\ m.route = Reverse(r) /\ m.to = to
  BY ReportIs
<1>2. r \in Seq(Node) /\ k \in Nat /\ e.msg.to \in Int
  BY LenProperties DEF RoutedOK
<1> HIDE DEF k
<1>3. to \in Int
  BY <1>2
<1> HIDE DEF r, to
<1>4. Reverse(r) \in Seq(Node)
  BY <1>2, ReverseType
<1> QED BY <1>1, <1>3, <1>4 DEF RoutedOK

LEMMA LinkErrorRoutes ==
    ASSUME RoutesInv, world' = world, NEW n \in Node, NEW e \in maint[n], LinkError(n, e)
    PROVE  RoutesInv'
<1> DEFINE h == NextHop(e.msg)
<1>1. /\ cache' = [cache EXCEPT ![n] = Cut(@, n, h)]
      /\ maint' = [maint EXCEPT ![n] = @ \ {x \in maint[n] : NextHop(x.msg) = h}]
      /\ msgs' = msgs \cup Report(n, e)
      /\ UNCHANGED <<reqs, sendbuf, nextId, jobs>>
  BY DEF LinkError
<1> HIDE DEF h
<1>2. CacheOK(world, cache)
  BY DEF RoutesInv
<1>3. CacheOK(world, cache')
  BY <1>1, <1>2, CutKeeps
<1>4. MaintStep
  BY <1>1 DEF RoutesInv, MaintOK, MaintStep
<1>5. \A m \in Report(n, e) : RoutedOK(world, m)
  BY ReportOK DEF RoutesInv, MaintOK
<1>6. MsgsStep
  BY <1>1, <1>5 DEF MsgsStep, MsgOK
<1> QED BY <1>1, <1>3, <1>4, <1>6, Same, RoutesStep DEF RoutesInv

LEMMA ExpireRoutes ==
    ASSUME RoutesInv, world' = world, NEW n \in Node, NEW p, Expire(n, p)
    PROVE  RoutesInv'
<1>1. /\ sendbuf' = [sendbuf EXCEPT ![n] = @ \ {p}]
      /\ UNCHANGED <<cache, reqs, maint, nextId, jobs, msgs>>
  BY DEF Expire
<1>2. SendbufOK(world, sendbuf')
  <2>1. sendbuf \in [Node -> SUBSET Packet] /\ IsFiniteSet(sendbuf[n])
    BY DEF RoutesInv, SendbufOK
  <2>2. IsFiniteSet(sendbuf[n] \ {p})
    BY <2>1, FS_Subset
  <2> QED BY <1>1, <2>1, <2>2 DEF RoutesInv, SendbufOK
<1> QED BY <1>1, <1>2, Same, RoutesStep DEF RoutesInv

LEMMA ForgetEntryRoutes ==
    ASSUME RoutesInv, world' = world, NEW n \in Node, NEW d \in Node, ForgetEntry(n, d)
    PROVE  RoutesInv'
<1>1. /\ reqs' = [reqs EXCEPT ![n][d] = NoEntry]
      /\ UNCHANGED <<cache, sendbuf, maint, nextId, jobs, msgs>>
  BY DEF ForgetEntry
<1>2. NoEntry \in Tries /\ ~(NoEntry > 0)
  BY DEF Tries, NoEntry
<1>3. ReqsOK(reqs')
  BY <1>1, <1>2, EntrySet
<1> QED BY <1>1, <1>3, Same, RoutesStep DEF RoutesInv

LEMMA ForgiveRoutes ==
    ASSUME RoutesInv, world' = world, NEW n \in Node, NEW h, Forgive(n, h)
    PROVE  RoutesInv'
BY Same, RoutesStep DEF Forgive, RoutesInv

LEMMA InitRoutes == Init => RoutesInv
<1> SUFFICES ASSUME Init PROVE RoutesInv
  OBVIOUS
<1> USE DEF Init
<1>1. CacheOK(world, cache)
  <2>1. [d \in Node |-> <<>>] \in [Node -> Seq(Node)]
    OBVIOUS
  <2> QED BY <2>1 DEF CacheOK
<1>2. ReqsOK(reqs)
  BY DEF ReqsOK, Tries, NoEntry
<1>3. nextId \in [Node -> Ids]
  BY DEF Ids
<1>4. SendbufOK(world, sendbuf)
  BY FS_EmptySet DEF SendbufOK
<1> QED BY <1>1, <1>2, <1>3, <1>4 DEF RoutesInv, MaintOK, MsgsOK, JobsOK, JobOK

LEMMA NextRoutes == RoutesInv /\ [Next]_vars => RoutesInv'
<1> SUFFICES ASSUME RoutesInv, [Next]_vars PROVE RoutesInv'
  OBVIOUS
<1>1. CASE UNCHANGED vars
  BY <1>1, Same, RoutesStep DEF vars, tables, RoutesInv
<1>2. CASE Next
  <2>1. Step /\ world' = world
    BY <1>2 DEF Next
  <2>2. ASSUME NEW p \in world.packets, SendPacket(p) PROVE RoutesInv'
    BY <2>1, <2>2, SendPacketRoutes
  <2>3. ASSUME NEW t \in world.threads, NEW p \in world.packets, MissPath(t, p)
        PROVE  RoutesInv'
    BY <2>1, <2>3, MissPathRoutes
  <2>4. ASSUME NEW t \in world.threads,
               \/ BufferPacket(t) \/ Discover(t) \/ Propagate(t) \/ GotRepl(t) \/ Flush(t)
        PROVE  RoutesInv'
    BY <2>1, <2>4, BufferPacketRoutes, DiscoverRoutes, PropagateRoutes, GotReplRoutes,
       FlushRoutes
  <2>5. ASSUME NEW n \in Node, NEW m \in msgs,
               \/ AnswerRreq(n, m) \/ Forward(n, m) \/ Arrive(n, m)
               \/ OverhearRerr(n, m) \/ HandleAck(n, m)
        PROVE  RoutesInv'
    BY <2>1, <2>5, AnswerRreqRoutes, ForwardRoutes, ArriveRoutes, OverhearRerrRoutes,
       HandleAckRoutes
  <2>6. ASSUME NEW n \in Node, NEW m \in msgs, NEW t \in world.threads,
               CheckRreq(t, n, m) \/ CacheRepl(t, n, m)
        PROVE  RoutesInv'
    BY <2>1, <2>6, CheckRreqRoutes, CacheReplRoutes
  <2>7. ASSUME NEW n \in Node, NEW e \in maint[n], Resend(n, e) \/ LinkError(n, e)
        PROVE  RoutesInv'
    BY <2>1, <2>7, ResendRoutes, LinkErrorRoutes
  <2>8. ASSUME NEW n \in Node, NEW p, Expire(n, p) PROVE RoutesInv'
    BY <2>1, <2>8, ExpireRoutes
  <2>9. ASSUME NEW n \in Node, Restart(n) PROVE RoutesInv'
    BY <2>1, <2>9, ForgetAllRoutes DEF Restart
  <2>10. ASSUME NEW n \in Node, NEW d \in Node,
                Retry(n, d) \/ GiveUp(n, d) \/ ForgetEntry(n, d) \/ Forgive(n, d)
         PROVE  RoutesInv'
    BY <2>1, <2>10, RetryRoutes, GiveUpRoutes, ForgetEntryRoutes, ForgiveRoutes
  <2> QED BY <2>1, <2>2, <2>3, <2>4, <2>5, <2>6, <2>7, <2>8, <2>9, <2>10 DEF Step
<1> QED BY <1>1, <1>2

LEMMA RoutesAlways == Spec => []RoutesInv
<1>1. Init => RoutesInv
  BY InitRoutes
<1>2. RoutesInv /\ [Next]_vars => RoutesInv'
  BY NextRoutes
<1> QED BY <1>1, <1>2, PTL DEF Spec

\* Every cached path and the route of every RREQ and packet follow links that
\* exist from their first node to their last and visit no node twice, whatever
\* the interleaving of threads, what is lost, duplicated or delayed, and what
\* nodes forget or lose in a restart (rreq_meshrx_cb, _add_to_pathlist,
\* dsr_msg_send_with_route_maintenance).
THEOREM PathsLeadThere == Spec => []PathsAreRoutes
<1>1. RoutesInv => PathsAreRoutes
  <2> SUFFICES ASSUME RoutesInv PROVE PathsAreRoutes
    OBVIOUS
  <2>1. ASSUME NEW r, NEW u, NEW v, PathTo(world, r, u, v) PROVE IsRoute(r, u, v)
    BY <2>1 DEF PathTo, Path, IsRoute
  <2>2. ASSUME NEW n \in Node, NEW d \in Node, cache[n][d] # <<>>
        PROVE  IsRoute(cache[n][d], n, d)
    BY <2>1, <2>2 DEF RoutesInv, CacheOK
  <2>3. ASSUME NEW m \in msgs, m.type = "rreq"
        PROVE  IsRoute(m.route, Head(m.route), Last(m.route))
    BY <2>1, <2>3, RoutedIs DEF RreqOK, PathTo
  <2>4. ASSUME NEW m \in msgs, m.type = "routed", m.kind = "data"
        PROVE  IsRoute(m.route, m.load[1], m.load[2])
    BY <2>1, <2>4, RoutedIs DEF RoutedOK
  <2> QED BY <2>2, <2>3, <2>4 DEF PathsAreRoutes
<1> QED BY <1>1, RoutesAlways, PTL

-----------------------------------------------------------------------------
(* Why a daemon aborts. *)

AskedStays == \A n, d \in Node : Asked(reqs, n, d) => Asked(reqs', n, d)

PathsStay == \A n, d \in Node : cache[n][d] # <<>> => cache'[n][d] # <<>>

MsgsAsked == \A m \in msgs' : m \in msgs \/ AskedFor(reqs', m)

MaintAsked ==
    \A n \in Node : \A e \in maint'[n] :
        (\E f \in maint[n] : f.msg = e.msg) \/ AskedFor(reqs', e.msg)

JobsPath == \A t \in world.threads : jobs'[t] = jobs[t] \/ HasPath(cache', jobs'[t])

\* What was asked for stays asked for.
LEMMA AskedForStays ==
    ASSUME RoutesInv, AskedStays, NEW m, MsgOK(world, m), AskedFor(reqs, m)
    PROVE  AskedFor(reqs', m)
<1>1. CASE m.type = "rreq"
  <2>1. Path(world, m.route) /\ m.target \in Node
    BY <1>1 DEF MsgOK, RreqOK, RoutedOK, AckOK
  <2>2. Head(m.route) \in Node
    BY <2>1, PathNodes
  <2> QED BY <1>1, <2>1, <2>2 DEF AskedFor, AskedStays
<1>2. CASE m.type = "routed" /\ m.kind = "repl"
  <2>1. Path(world, m.load)
    BY <1>2 DEF MsgOK, RreqOK, RoutedOK, AckOK
  <2>2. Head(m.load) \in Node /\ Target(m) \in Node
    BY <2>1, PathNodes DEF Target
  <2> QED BY <1>2, <2>2 DEF AskedFor, AskedStays
<1> QED BY <1>1, <1>2 DEF AskedFor

LEMMA HasPathStays ==
    ASSUME RoutesInv, PathsStay, NEW t \in world.threads, HasPath(cache, jobs[t])
    PROVE  HasPath(cache', jobs[t])
BY ReplJob DEF HasPath, PathsStay

LEMMA AskedStep ==
    ASSUME RoutesInv, AskedInv, world' = world, aborted' = aborted,
           AskedStays, PathsStay, MsgsAsked, MaintAsked, JobsPath
    PROVE  AskedInv'
<1>1. \A m \in msgs : AskedFor(reqs', m)
  BY AskedForStays DEF AskedInv, RoutesInv, MsgsOK
<1>2. \A n \in Node : \A e \in maint[n] : AskedFor(reqs', e.msg)
  BY AskedForStays DEF AskedInv, RoutesInv, MaintOK, MsgOK
<1>3. \A t \in world.threads : HasPath(cache', jobs[t])
  BY HasPathStays DEF AskedInv
<1>4. \A m \in msgs' : AskedFor(reqs', m)
  BY <1>1 DEF MsgsAsked
<1>5. \A n \in Node : \A e \in maint'[n] : AskedFor(reqs', e.msg)
  BY <1>2 DEF MaintAsked
<1>6. \A t \in world.threads : HasPath(cache', jobs'[t])
  BY <1>3 DEF JobsPath
<1> QED BY <1>4, <1>5, <1>6 DEF AskedInv

LEMMA AskedSame ==
    ASSUME TRUE
    PROVE  /\ reqs' = reqs => AskedStays
           /\ cache' = cache => PathsStay
           /\ msgs' = msgs => MsgsAsked
           /\ maint' = maint => MaintAsked
           /\ jobs' = jobs => JobsPath
BY DEF AskedStays, PathsStay, MsgsAsked, MaintAsked, JobsPath

LEMMA AskedNoMsg ==
    ASSUME NEW n, NEW m, msgs' = msgs \cup Acks(n, m)
    PROVE  MsgsAsked
<1>1. \A a \in Acks(n, m) : a.type = "ack"
  BY AcksAre
<1> QED BY <1>1 DEF MsgsAsked, AskedFor

LEMMA AskedJobEnds ==
    ASSUME RoutesInv, NEW t \in world.threads, jobs' = [jobs EXCEPT ![t] = Idle]
    PROVE  JobsPath
BY DEF RoutesInv, JobsOK, JobsPath, HasPath

LEMMA MaintainAsked ==
    ASSUME RoutesInv, NEW n \in Node, NEW kind, NEW load, NEW route, NEW to, NEW own,
           NEW acks, Maintain(n, kind, load, route, to, own, acks),
           AskedFor(reqs', Routed(kind, load, route, to, nextId[n].ack)),
           \A a \in acks : a.type = "ack"
    PROVE  MsgsAsked /\ MaintAsked
<1> DEFINE m == Routed(kind, load, route, to, nextId[n].ack)
           e == Element(m, 0, own)
<1>1. /\ maint' = [maint EXCEPT ![n] = @ \cup {e}]
      /\ msgs' = msgs \cup {m} \cup acks
  BY DEF Maintain
<1>2. AskedFor(reqs', m) /\ e.msg = m
  BY ElementFields
<1> HIDE DEF m, e
<1>3. MsgsAsked
  BY <1>1, <1>2 DEF MsgsAsked, AskedFor
<1>4. DOMAIN maint = Node
  BY DEF RoutesInv, MaintOK
<1>5. MaintAsked
  BY <1>1, <1>2, <1>4 DEF MaintAsked
<1> QED BY <1>3, <1>5

LEMMA SendPacketAsked ==
    ASSUME RoutesInv, AskedInv, world' = world, NEW p \in world.packets, SendPacket(p)
    PROVE  AskedInv'
<1> DEFINE n == p[1]
           route == cache[n][p[2]]
           own == TRUE
           f == Routed("data", p, route, 2, nextId[n].ack)
<1>1. /\ Maintain(n, "data", p, route, 2, own, {})
      /\ UNCHANGED <<cache, reqs, jobs, aborted>>
  BY DEF SendPacket
<1>2. n \in Node
  BY WorldTypes DEF RoutesInv
<1>3. AskedFor(reqs', f)
  <2>1. f.type = "routed" /\ f.kind = "data"
    BY RoutedFields
  <2> HIDE DEF f
  <2> QED BY <2>1 DEF AskedFor
<1> HIDE DEF n, route, own
<1>4. MsgsAsked /\ MaintAsked
  BY <1>1, <1>2, <1>3, MaintainAsked
<1> QED BY <1>1, <1>4, AskedSame, AskedStep

LEMMA SendRreqAsked ==
    ASSUME RoutesInv, NEW n \in Node, NEW d \in Node, n # d, SendRreq(n, d)
    PROVE  AskedStays /\ MsgsAsked
<1>1. /\ reqs'[n][d] > 0 /\ ReqsOK(reqs')
      /\ \A m, b \in Node : m # n \/ b # d => reqs'[m][b] = reqs[m][b]
      /\ \A m \in msgs' : m \in msgs \/
            (m.type = "rreq" /\ Head(m.route) = n /\ m.target = d)
  BY SendRreqRoutes
<1>2. Asked(reqs', n, d)
  BY <1>1 DEF Asked, NoEntry
<1>3. AskedStays
  BY <1>1, <1>2 DEF AskedStays, Asked
<1>4. MsgsAsked
  BY <1>1, <1>2 DEF MsgsAsked, AskedFor
<1> QED BY <1>3, <1>4

LEMMA DiscoverAsked ==
    ASSUME RoutesInv, AskedInv, world' = world, NEW t \in world.threads, Discover(t)
    PROVE  AskedInv'
<1> DEFINE n == jobs[t].at
           d == jobs[t].arg
<1>1. /\ jobs[t].do = "discover" /\ jobs' = [jobs EXCEPT ![t] = Idle]
      /\ SendRreq(n, d) \/ UNCHANGED <<reqs, msgs>>
      /\ UNCHANGED <<cache, maint, aborted>>
  BY DEF Discover, history
<1>2. n \in Node /\ d \in Node /\ n # d
  BY <1>1, JobIs
<1> HIDE DEF n, d
<1>3. JobsPath
  BY <1>1, AskedJobEnds
<1>4. AskedStays /\ MsgsAsked
  BY <1>1, <1>2, SendRreqAsked, AskedSame
<1> QED BY <1>1, <1>3, <1>4, AskedSame, AskedStep

LEMMA RetryAsked ==
    ASSUME RoutesInv, AskedInv, world' = world, NEW n \in Node, NEW d \in Node,
           Retry(n, d)
    PROVE  AskedInv'
<1>1. SendRreq(n, d) /\ UNCHANGED <<cache, maint, jobs, aborted>>
  BY DEF Retry, history
<1>2. n # d
  BY DEF Retry, RoutesInv, ReqsOK
<1>3. AskedStays /\ MsgsAsked
  BY <1>1, <1>2, SendRreqAsked
<1> QED BY <1>1, <1>3, AskedSame, AskedStep

LEMMA AnswerRreqAsked ==
    ASSUME RoutesInv, AskedInv, world' = world, NEW n \in Node, NEW m \in msgs,
           AnswerRreq(n, m)
    PROVE  AskedInv'
<1> DEFINE route == Append(m.route, n)
           r == Routed("repl", route, Reverse(route), 2, 0)
<1>1. /\ m.type = "rreq" /\ m.target = n /\ <<Last(m.route), n>> \in world.link
      /\ msgs' = msgs \cup {r}
      /\ UNCHANGED <<cache, reqs, maint, jobs, aborted>>
  BY DEF AnswerRreq, tables, history
<1>2. Path(world, m.route) /\ n \notin ToSet(m.route) /\ AskedFor(reqs, m)
  BY <1>1, RoutedIs DEF RreqOK, AskedInv
<1>3. Head(route) = Head(m.route) /\ Last(route) = n
  <2> DEFINE from == m.route
  <2>1. /\ Path(world, from) /\ n \notin ToSet(from) /\ <<Last(from), n>> \in world.link
        /\ route = Append(from, n)
    BY <1>1, <1>2
  <2> HIDE DEF from, route
  <2>2. Head(route) = Head(from) /\ Last(route) = n
    BY <2>1, PathAppend
  <2> QED BY <2>2 DEF from
<1> HIDE DEF route
<1>4. r.type = "routed" /\ r.kind = "repl" /\ r.load = route
  BY RoutedFields
<1> HIDE DEF r
<1>5. AskedFor(reqs', r)
  BY <1>1, <1>2, <1>3, <1>4 DEF AskedFor, Target
<1>6. MsgsAsked
  BY <1>1, <1>5 DEF MsgsAsked
<1> QED BY <1>1, <1>6, AskedSame, AskedStep

LEMMA PropagateAsked ==
    ASSUME RoutesInv, AskedInv, world' = world, NEW t \in world.threads, Propagate(t)
    PROVE  AskedInv'
<1> DEFINE m == jobs[t].arg
           n == jobs[t].at
           s == SentOn(m, n)
<1>1. UNCHANGED <<cache, maint, aborted>>
  BY DEF Propagate, history
<1>2. /\ n \in Node /\ m \in msgs /\ RreqOK(world, m) /\ Head(m.route) \in Node
      /\ jobs' = [jobs EXCEPT ![t] = Idle]
      /\ reqs' = [reqs EXCEPT ![n][Head(m.route)] = IF @ = NoEntry THEN 0 ELSE @]
      /\ msgs' = msgs \cup {s} /\ RreqOK(world, s)
      /\ Head(s.route) = Head(m.route) /\ s.target = m.target
  BY Propagated
<1> HIDE DEF m, n, s
<1>3. AskedStays
  BY <1>2, EntryMade DEF AskedStays, Asked
<1>4. AskedFor(reqs', m)
  BY <1>2, <1>3, AskedForStays DEF AskedInv, MsgOK
<1>5. AskedFor(reqs', s)
  BY <1>2, <1>4 DEF AskedFor, RreqOK
<1>6. MsgsAsked
  BY <1>2, <1>5 DEF MsgsAsked
<1>7. JobsPath
  BY <1>2, AskedJobEnds
<1> QED BY <1>1, <1>3, <1>6, <1>7, AskedSame, AskedStep

LEMMA CacheReplAsked ==
    ASSUME RoutesInv, AskedInv, world' = world, NEW t \in world.threads, NEW n \in Node,
           NEW m \in msgs, CacheRepl(t, n, m)
    PROVE  AskedInv'
<1>1. /\ jobs' = [jobs EXCEPT ![t] = Job(n, "reset", m)]
      /\ UNCHANGED <<reqs, maint, msgs, aborted>>
  BY DEF CacheRepl, history
<1>2. cache'[n][Target(m)] # <<>> /\ PathsStay
  BY CacheReplRoutes DEF PathsStay
<1> DEFINE j == Job(n, "reset", m)
<1>3. j.at = n /\ j.arg = m
  BY JobFields
<1> HIDE DEF j
<1>4. HasPath(cache', j)
  BY <1>2, <1>3 DEF HasPath
<1>5. JobsPath
  BY <1>1, <1>4 DEF JobsPath, RoutesInv, JobsOK, j
<1> QED BY <1>1, <1>2, <1>5, AskedSame, AskedStep

LEMMA GotReplAsked ==
    ASSUME RoutesInv, AskedInv, world' = world, NEW t \in world.threads, GotRepl(t)
    PROVE  AskedInv'
<1> DEFINE n == jobs[t].at
           m == jobs[t].arg
           d == Target(m)
<1>0. jobs[t].do = "reset" /\ n = jobs[t].at /\ m = jobs[t].arg /\ d = Target(m)
  BY DEF GotRepl
<1>1. /\ jobs[t] # Idle /\ n \in Node /\ d \in Node /\ m \in msgs /\ m.type = "routed"
      /\ m.kind = "repl" /\ Head(m.load) = n
  BY <1>0, ReplJob DEF RoutedOK
<1>2. reqs[n][d] # NoEntry
  BY <1>1 DEF AskedInv, AskedFor, Asked
<1>3. /\ reqs' = [reqs EXCEPT ![n][d] = 0]
      /\ jobs' = [jobs EXCEPT ![t] = Job(n, "flush", m)]
      /\ UNCHANGED <<cache, maint, msgs, aborted>>
  BY <1>2 DEF GotRepl, history
<1>4. cache[n][d] # <<>>
  BY <1>0, <1>1 DEF AskedInv, HasPath
<1> HIDE DEF n, m, d
<1>5. AskedStays
  <2>1. 0 \in Tries /\ ~(0 > 0) /\ 0 # NoEntry
    BY DEF Tries, NoEntry
  <2>2. /\ reqs'[n][d] = 0
        /\ \A k, b \in Node : k # n \/ b # d => reqs'[k][b] = reqs[k][b]
    BY <1>1, <1>3 DEF RoutesInv, ReqsOK
  <2> QED BY <2>1, <2>2 DEF AskedStays, Asked
<1>6. JobsPath
  <2> DEFINE j == Job(n, "flush", m)
  <2>1. j.at = n /\ j.arg = m
    BY JobFields
  <2> HIDE DEF j
  <2>2. HasPath(cache', j)
    BY <1>0, <1>3, <1>4, <2>1 DEF HasPath
  <2> QED BY <1>3, <2>2 DEF JobsPath, RoutesInv, JobsOK, j
<1> QED BY <1>3, <1>5, <1>6, AskedSame, AskedStep

LEMMA FlushAsked ==
    ASSUME RoutesInv, AskedInv, world' = world, NEW t \in world.threads, Flush(t)
    PROVE  AskedInv'
<1> DEFINE n == jobs[t].at
           d == Target(jobs[t].arg)
<1>0. jobs[t].do = "flush" /\ n = jobs[t].at /\ d = Target(jobs[t].arg)
  BY DEF Flush
<1>1. jobs[t] # Idle /\ n \in Node /\ d \in Node
  BY <1>0, ReplJob
<1>2. cache[n][d] # <<>>
  BY <1>0, <1>1 DEF AskedInv, HasPath
<1> HIDE DEF n, d
<1>3. Emptied(t, n, d)
  BY <1>0, <1>2, Flushed
<1>4. /\ jobs' = [jobs EXCEPT ![t] = Idle]
      /\ msgs' = msgs \cup Acks(n, jobs[t].arg)
      /\ UNCHANGED <<cache, reqs, aborted>>
      /\ \A k \in Node : k # n => maint'[k] = maint[k]
      /\ \A e \in maint'[n] : e \in maint[n] \/ \E p, i : e.msg = First(n, d, p, i)
  BY <1>3 DEF Emptied, history
<1>5. \A p, i : AskedFor(reqs', First(n, d, p, i))
  <2>1. \A p, i : First(n, d, p, i).type = "routed" /\ First(n, d, p, i).kind = "data"
    BY FirstFields
  <2> QED BY <2>1 DEF AskedFor
<1>6. MaintAsked
  BY <1>4, <1>5 DEF MaintAsked
<1>7. JobsPath /\ MsgsAsked
  BY <1>4, AskedJobEnds, AskedNoMsg
<1> QED BY <1>4, <1>6, <1>7, AskedSame, AskedStep

LEMMA ForwardAsked ==
    ASSUME RoutesInv, AskedInv, world' = world, NEW n \in Node, NEW m \in msgs,
           Forward(n, m)
    PROVE  AskedInv'
<1> DEFINE own == FALSE
           to == m.to + 1
           acks == Acks(n, m)
           f == Onward(n, m)
<1>1. /\ m.type = "routed" /\ AfterRerr(n, m)
      /\ Maintain(n, m.kind, m.load, m.route, to, own, acks)
      /\ UNCHANGED <<reqs, jobs, aborted>>
  BY DEF Forward, history
<1>2. AskedFor(reqs, m) /\ m.kind # "rerr"
  BY <1>1 DEF AskedInv, AskedFor
<1>3. \A a \in acks : a.type = "ack"
  BY AcksAre
<1>4. AskedFor(reqs', f)
  <2>1. f.type = "routed" /\ f.kind = m.kind /\ f.load = m.load
    BY OnwardFields
  <2> HIDE DEF f
  <2> QED BY <1>1, <1>2, <2>1 DEF AskedFor, Target
<1>5. f = Routed(m.kind, m.load, m.route, to, nextId[n].ack)
  BY DEF Onward
<1> HIDE DEF own, to, acks, f
<1>6. MsgsAsked /\ MaintAsked
  BY <1>1, <1>3, <1>4, <1>5, MaintainAsked
<1>7. cache' = cache
  BY <1>1, <1>2 DEF AfterRerr
<1> QED BY <1>1, <1>6, <1>7, AskedSame, AskedStep

LEMMA ResendAsked ==
    ASSUME RoutesInv, AskedInv, world' = world, NEW n \in Node, NEW e \in maint[n],
           Resend(n, e)
    PROVE  AskedInv'
<1>1. msgs' = msgs \cup {e.msg} /\ UNCHANGED <<cache, reqs, jobs, aborted>>
  BY DEF Resend, history
<1>2. MaintAsked
  BY Resent DEF MaintAsked
<1>3. MsgsAsked
  BY <1>1 DEF MsgsAsked, AskedInv
<1> QED BY <1>1, <1>2, <1>3, AskedSame, AskedStep

\* Actions that ask for nothing new.
LEMMA QuietAsked ==
    ASSUME RoutesInv, AskedInv, world' = world,
           \/ \E t \in world.threads, p \in world.packets : MissPath(t, p)
           \/ \E t \in world.threads : BufferPacket(t)
           \/ \E t \in world.threads, n \in Node, m \in msgs : CheckRreq(t, n, m)
           \/ \E n \in Node, m \in msgs :
                 Arrive(n, m) \/ OverhearRerr(n, m) \/ HandleAck(n, m)
           \/ \E n \in Node, p \in world.packets : Expire(n, p)
           \/ \E n, d \in Node : GiveUp(n, d) \/ Forgive(n, d)
    PROVE  AskedInv'
<1>1. ASSUME NEW t \in world.threads, NEW p \in world.packets, MissPath(t, p)
      PROVE  AskedInv'
  <2>1. /\ jobs' = [jobs EXCEPT ![t] = Job(p[1], "buffer", p)]
        /\ UNCHANGED <<cache, reqs, maint, msgs, aborted>>
    BY <1>1 DEF MissPath, tables
  <2>2. HasPath(cache', Job(p[1], "buffer", p))
    BY DEF HasPath, Job
  <2>3. JobsPath
    BY <2>1, <2>2 DEF JobsPath, RoutesInv, JobsOK
  <2> QED BY <2>1, <2>3, AskedSame, AskedStep
<1>2. ASSUME NEW t \in world.threads, BufferPacket(t) PROVE AskedInv'
  <2>1. /\ jobs' = [jobs EXCEPT ![t] = Job(jobs[t].at, "discover", jobs[t].arg[2])]
        /\ UNCHANGED <<cache, reqs, maint, msgs, aborted>>
    BY <1>2 DEF BufferPacket, history
  <2>2. HasPath(cache', Job(jobs[t].at, "discover", jobs[t].arg[2]))
    BY DEF HasPath, Job
  <2>3. JobsPath
    BY <2>1, <2>2 DEF JobsPath, RoutesInv, JobsOK
  <2> QED BY <2>1, <2>3, AskedSame, AskedStep
<1>3. ASSUME NEW t \in world.threads, NEW n \in Node, NEW m \in msgs, CheckRreq(t, n, m)
      PROVE  AskedInv'
  <2>1. /\ jobs' = [jobs EXCEPT ![t] = Job(n, "propagate", m)]
        /\ UNCHANGED <<cache, reqs, maint, msgs, aborted>>
    BY <1>3 DEF CheckRreq, tables, history
  <2>2. HasPath(cache', Job(n, "propagate", m))
    BY DEF HasPath, Job
  <2>3. JobsPath
    BY <2>1, <2>2 DEF JobsPath, RoutesInv, JobsOK
  <2> QED BY <2>1, <2>3, AskedSame, AskedStep
<1>4. ASSUME NEW n \in Node, NEW m \in msgs, Arrive(n, m) PROVE AskedInv'
  <2>1. /\ m.type = "routed" /\ AfterRerr(n, m) /\ msgs' = msgs \cup Acks(n, m)
        /\ UNCHANGED <<reqs, maint, jobs, aborted>>
    BY <1>4 DEF Arrive
  <2>2. cache' = cache
    BY <2>1 DEF AfterRerr, AskedInv, AskedFor
  <2>3. MsgsAsked
    BY <2>1, AskedNoMsg
  <2> QED BY <2>1, <2>2, <2>3, AskedSame, AskedStep
<1>5. ASSUME NEW n \in Node, NEW m \in msgs, OverhearRerr(n, m) PROVE AskedInv'
  BY <1>5 DEF OverhearRerr, AskedInv, AskedFor
<1>6. ASSUME NEW n \in Node, NEW m \in msgs, HandleAck(n, m) PROVE AskedInv'
  <2>1. /\ maint' = [maint EXCEPT ![n] = {e \in @ : e.msg.ack # m.id}]
        /\ UNCHANGED <<cache, reqs, jobs, msgs, aborted>>
    BY <1>6 DEF HandleAck, history
  <2>2. MaintAsked
    BY <2>1 DEF RoutesInv, MaintOK, MaintAsked
  <2> QED BY <2>1, <2>2, AskedSame, AskedStep
<1>7. ASSUME NEW n \in Node, NEW p \in world.packets, Expire(n, p) PROVE AskedInv'
  BY <1>7, AskedSame, AskedStep DEF Expire
<1>8. ASSUME NEW n \in Node, NEW d \in Node, GiveUp(n, d) PROVE AskedInv'
  <2>1. reqs' = [reqs EXCEPT ![n][d] = 0] /\ UNCHANGED <<cache, maint, jobs, msgs, aborted>>
    BY <1>8 DEF GiveUp
  <2>2. 0 # NoEntry
    BY DEF NoEntry
  <2>3. AskedStays
    BY <2>1, <2>2 DEF RoutesInv, ReqsOK, AskedStays, Asked
  <2> QED BY <2>1, <2>3, AskedSame, AskedStep
<1>9. ASSUME NEW n \in Node, NEW d \in Node, Forgive(n, d) PROVE AskedInv'
  BY <1>9, AskedSame, AskedStep DEF Forgive, history
<1> QED BY <1>1, <1>2, <1>3, <1>4, <1>5, <1>6, <1>7, <1>8, <1>9

LEMMA NextAbort == RoutesInv /\ AbortInv /\ [Next]_vars => AbortInv'
<1> SUFFICES ASSUME RoutesInv, AbortInv, [Next]_vars PROVE AbortInv'
  OBVIOUS
<1> DEFINE Calm == budget' = budget /\ broken' = broken
<1>1. CASE UNCHANGED vars
  BY <1>1 DEF vars, tables, history, AbortInv, BudgetInv, Faulty, AskedInv, HasPath,
     AskedFor, Asked
<1>2. CASE Next
  <2>1. Step /\ world' = world
    BY <1>2 DEF Next
  <2>2. ASSUME Calm, AskedInv => AskedInv' PROVE AbortInv'
    BY <2>1, <2>2 DEF AbortInv, BudgetInv, Faulty
  <2>3. ASSUME NEW p \in world.packets, SendPacket(p) PROVE AbortInv'
    BY <2>1, <2>2, <2>3, SendPacketAsked DEF SendPacket
  <2>4. ASSUME NEW t \in world.threads,
               Discover(t) \/ Propagate(t) \/ GotRepl(t) \/ Flush(t)
        PROVE  AbortInv'
    <3>1. Calm
      BY <2>4 DEF Discover, Propagate, GotRepl, Flush, Abort, history
    <3>2. AskedInv => AskedInv'
      BY <2>1, <2>4, DiscoverAsked, PropagateAsked, GotReplAsked, FlushAsked
    <3> QED BY <2>2, <3>1, <3>2
  <2>5. ASSUME NEW n \in Node, NEW m \in msgs, AnswerRreq(n, m) \/ Forward(n, m)
        PROVE  AbortInv'
    <3>1. Calm
      BY <2>5 DEF AnswerRreq, Forward, history
    <3> QED BY <2>1, <2>2, <2>5, <3>1, AnswerRreqAsked, ForwardAsked
  <2>6. ASSUME NEW n \in Node, NEW m \in msgs, NEW t \in world.threads, CacheRepl(t, n, m)
        PROVE  AbortInv'
    <3>1. Calm
      BY <2>6 DEF CacheRepl, history
    <3> QED BY <2>1, <2>2, <2>6, <3>1, CacheReplAsked
  <2>7. ASSUME NEW n \in Node, NEW e \in maint[n], Resend(n, e) PROVE AbortInv'
    <3>1. Calm
      BY <2>7 DEF Resend, history
    <3> QED BY <2>1, <2>2, <2>7, <3>1, ResendAsked
  <2>8. ASSUME NEW n \in Node, NEW d \in Node, Retry(n, d) PROVE AbortInv'
    <3>1. Calm
      BY <2>8 DEF Retry, history
    <3> QED BY <2>1, <2>2, <2>8, <3>1, RetryAsked
  <2>9. ASSUME NEW n \in Node, NEW e \in maint[n], LinkError(n, e) PROVE AbortInv'
    <3>1. broken' /\ budget' = budget
      BY <2>9 DEF LinkError
    <3> QED BY <2>1, <3>1 DEF AbortInv, BudgetInv, Faulty
  <2>10. ASSUME NEW n \in Node, Restart(n) PROVE AbortInv'
    <3>1. budget.restart > 0 /\ budget' = [budget EXCEPT !.restart = @ - 1]
      BY <2>10 DEF Restart
    <3>2. world.restart \in Nat
      BY WorldTypes DEF RoutesInv
    <3>3. BudgetInv' /\ budget'.restart < world.restart
      BY <2>1, <3>1, <3>2 DEF AbortInv, BudgetInv
    <3> QED BY <2>1, <3>3 DEF AbortInv, Faulty
  <2>11. ASSUME NEW n \in Node, NEW d \in Node, ForgetEntry(n, d) PROVE AbortInv'
    <3>1. budget.forget > 0 /\ budget' = [budget EXCEPT !.forget = @ - 1]
      BY <2>11 DEF ForgetEntry
    <3>2. world.forget \in Nat
      BY WorldTypes DEF RoutesInv
    <3>3. BudgetInv' /\ budget'.forget < world.forget
      BY <2>1, <3>1, <3>2 DEF AbortInv, BudgetInv
    <3> QED BY <2>1, <3>3 DEF AbortInv, Faulty
  <2>12. ASSUME \/ \E t \in world.threads, p \in world.packets : MissPath(t, p)
                \/ \E t \in world.threads : BufferPacket(t)
                \/ \E t \in world.threads, n \in Node, m \in msgs : CheckRreq(t, n, m)
                \/ \E n \in Node, m \in msgs :
                      Arrive(n, m) \/ OverhearRerr(n, m) \/ HandleAck(n, m)
                \/ \E n \in Node, p \in world.packets : Expire(n, p)
                \/ \E n, d \in Node : GiveUp(n, d) \/ Forgive(n, d)
         PROVE  AbortInv'
    <3>1. Calm
      BY <2>12 DEF MissPath, BufferPacket, CheckRreq, Arrive, OverhearRerr, HandleAck,
         Expire, GiveUp, Forgive, history
    <3>2. AskedInv => AskedInv'
      BY <2>1, <2>12, QuietAsked
    <3> QED BY <2>2, <3>1, <3>2
  <2> HIDE DEF Calm
  <2> QED BY <2>1, <2>3, <2>4, <2>5, <2>6, <2>7, <2>8, <2>9, <2>10, <2>11, <2>12 DEF Step
<1> QED BY <1>1, <1>2

LEMMA InitAbort == Init /\ RoutesInv => AbortInv
<1> SUFFICES ASSUME Init, RoutesInv PROVE AbortInv
  OBVIOUS
<1>1. world.forget \in Nat /\ world.restart \in Nat
  BY WorldTypes DEF RoutesInv
<1>2. BudgetInv
  BY <1>1 DEF Init, BudgetInv
<1>3. AskedInv
  BY DEF Init, AskedInv, HasPath
<1> QED BY <1>2, <1>3 DEF AbortInv

\* A daemon ends by an assertion only after it gave up a link, forgot a RREQ or
\* was started again: no interleaving of its threads alone leads a REPL into
\* dsr_rreqtable_got_repl without an entry or into
\* dsr_sendbuffer_send_msgs_to without a path.
THEOREM AbortsHaveReasons == Spec => []AbortsExplained
<1>1. Init => AbortInv
  BY InitRoutes, InitAbort
<1>2. RoutesInv /\ AbortInv /\ [Next]_vars => AbortInv'
  BY NextAbort
<1>3. AbortInv => AbortsExplained
  BY DEF AbortInv, AskedInv, Faulty, AbortsExplained
<1> QED BY <1>1, <1>2, <1>3, RoutesAlways, PTL DEF Spec

-----------------------------------------------------------------------------
(* A packet is in one place. *)

NotSentAnew(p) == Sent(msgs', maint', p) => Sent(msgs, maint, p)

NotBufferingAnew(p) ==
    \A t \in world.threads : Buffering(jobs'[t], p) => Buffering(jobs[t], p)

QuietFor(p) ==
    /\ fate'[p] = "host" => fate[p] = "host"
    /\ NotSentAnew(p)
    /\ \A n \in Node : p \in sendbuf'[n] => p \in sendbuf[n]
    /\ NotBufferingAnew(p)

LEMMA QuietPlace ==
    ASSUME NEW p, PlaceOK(p), QuietFor(p), world' = world
    PROVE  PlaceOK(p)'
BY DEF PlaceOK, QuietFor, NotSentAnew, NotBufferingAnew

LEMMA SentSame ==
    ASSUME UNCHANGED <<msgs, maint>>, NEW p
    PROVE  NotSentAnew(p)
BY DEF NotSentAnew

LEMMA CarriesIs ==
    ASSUME NEW m, NEW p
    PROVE  /\ m.type # "routed" \/ m.kind # "data" => ~Carries(m, p)
           /\ Carries(m, p) => m.type = "routed" /\ m.kind = "data" /\ m.load = p
           /\ m.type = "routed" /\ m.kind = "data" => Carries(m, m.load)
BY DEF Carries

\* No message and no element carries p but what did, or who passes it on.
LEMMA NotSent ==
    ASSUME NEW p,
           \A m \in msgs' : Carries(m, p) => Sent(msgs, maint, p),
           \A n \in Node : \A e \in maint'[n] : Carries(e.msg, p) => Sent(msgs, maint, p)
    PROVE  NotSentAnew(p)
BY DEF NotSentAnew, Sent

\* The maintenance buffers only lose messages.
MaintShrinks ==
    \A n \in Node : \A e \in maint'[n] : \E f \in maint[n] : f.msg = e.msg

LEMMA ShrinksNotSent ==
    ASSUME MaintShrinks, NEW p, \A m \in msgs' : m \in msgs \/ ~Carries(m, p)
    PROVE  NotSentAnew(p)
BY DEF NotSentAnew, Sent, MaintShrinks

LEMMA MaintSame ==
    ASSUME maint' = maint
    PROVE  MaintShrinks
BY DEF MaintShrinks

LEMMA AcksCarryNothing ==
    ASSUME NEW n, NEW m, NEW a \in Acks(n, m), NEW p
    PROVE  ~Carries(a, p)
BY AcksAre DEF Carries

\* What an action does to the packets on their way, for every p.
LEMMA ForgetAllPlaces ==
    ASSUME RoutesInv, NEW n \in Node, ForgetAll(n), fate' = fate, NEW p
    PROVE  QuietFor(p)
<1>1. /\ sendbuf' = [sendbuf EXCEPT ![n] = {}] /\ maint' = [maint EXCEPT ![n] = {}]
      /\ jobs' = [t \in world.threads |->
                    IF jobs[t] # Idle /\ jobs[t].at = n THEN Idle ELSE jobs[t]]
      /\ msgs' = msgs
  BY DEF ForgetAll
<1>2. MaintShrinks
  BY <1>1 DEF MaintShrinks, RoutesInv, MaintOK
<1>3. NotSentAnew(p)
  BY <1>1, <1>2, ShrinksNotSent
<1>4. NotBufferingAnew(p)
  BY <1>1 DEF Buffering, NotBufferingAnew
<1>5. \A k \in Node : p \in sendbuf'[k] => p \in sendbuf[k]
  BY <1>1 DEF RoutesInv, SendbufOK
<1> QED BY <1>3, <1>4, <1>5 DEF QuietFor

\* A thread takes up or ends a job that is not to buffer a packet.
LEMMA JobNotBuffering ==
    ASSUME RoutesInv, NEW t \in world.threads, NEW j, j.do # "buffer",
           jobs' = [jobs EXCEPT ![t] = j], NEW p
    PROVE  NotBufferingAnew(p)
BY DEF RoutesInv, JobsOK, Buffering, NotBufferingAnew

LEMMA SendRreqPlaces ==
    ASSUME NEW n, NEW d, SendRreq(n, d), maint' = maint, NEW p
    PROVE  NotSentAnew(p)
<1> DEFINE sent == IF reqs[n][d] = NoEntry THEN 0 ELSE reqs[n][d]
           m == Rreq(nextId[n].rreq, <<n>>, d, Ttl(sent))
<1>1. msgs' = msgs \cup {m}
  BY DEF SendRreq
<1>2. m.type = "rreq"
  BY RreqFields
<1> HIDE DEF m
<1>3. ~Carries(m, p)
  BY <1>2 DEF Carries
<1> QED BY <1>1, <1>3, MaintSame, ShrinksNotSent

LEMMA ForwardSent ==
    ASSUME RoutesInv, NEW n \in Node, NEW m \in msgs, Forward(n, m), NEW p
    PROVE  NotSentAnew(p)
<1> DEFINE f == Onward(n, m)
           e == Element(f, 0, FALSE)
<1>1. /\ m.type = "routed"
      /\ maint' = [maint EXCEPT ![n] = @ \cup {e}]
      /\ msgs' = msgs \cup {f} \cup Acks(n, m)
  BY DEF Forward, Maintain, Onward
<1>2. f.type = "routed" /\ f.kind = m.kind /\ f.load = m.load
  BY OnwardFields
<1> HIDE DEF f
<1>3. e.msg = f
  BY DEF Element
<1> HIDE DEF e
<1>4. Carries(f, p) => Sent(msgs, maint, p)
  BY <1>1, <1>2 DEF Carries, Sent
<1>5. \A a \in Acks(n, m) : ~Carries(a, p)
  BY AcksCarryNothing
<1>6. \A x \in msgs' : Carries(x, p) => Sent(msgs, maint, p)
  BY <1>1, <1>4, <1>5 DEF Sent
<1>7. \A k \in Node : \A x \in maint'[k] : Carries(x.msg, p) => Sent(msgs, maint, p)
  BY <1>1, <1>3, <1>4 DEF Sent, RoutesInv, MaintOK
<1> QED BY <1>6, <1>7, NotSent

LEMMA ResendSent ==
    ASSUME RoutesInv, NEW n \in Node, NEW e \in maint[n], Resend(n, e), NEW p
    PROVE  NotSentAnew(p)
<1>1. msgs' = msgs \cup {e.msg}
  BY DEF Resend
<1>2. MaintShrinks
  BY Resent DEF MaintShrinks
<1>3. \A x \in msgs' : Carries(x, p) => Sent(msgs, maint, p)
  BY <1>1 DEF Sent
<1>4. \A k \in Node : \A x \in maint'[k] : Carries(x.msg, p) => Sent(msgs, maint, p)
  BY <1>2 DEF Sent, MaintShrinks
<1> QED BY <1>3, <1>4, NotSent

LEMMA ArriveSent ==
    ASSUME NEW n, NEW m, Arrive(n, m), NEW p
    PROVE  NotSentAnew(p)
<1>1. maint' = maint /\ msgs' = msgs \cup Acks(n, m)
  BY DEF Arrive
<1> QED BY <1>1, AcksCarryNothing, MaintSame, ShrinksNotSent

LEMMA HandleAckSent ==
    ASSUME RoutesInv, NEW n \in Node, NEW m, HandleAck(n, m), NEW p
    PROVE  NotSentAnew(p)
<1>1. maint' = [maint EXCEPT ![n] = {e \in @ : e.msg.ack # m.id}] /\ msgs' = msgs
  BY DEF HandleAck
<1>2. MaintShrinks
  BY <1>1 DEF MaintShrinks, RoutesInv, MaintOK
<1> QED BY <1>1, <1>2, ShrinksNotSent

LEMMA LinkErrorSent ==
    ASSUME RoutesInv, NEW n \in Node, NEW e \in maint[n], LinkError(n, e), NEW p
    PROVE  NotSentAnew(p)
<1> DEFINE h == NextHop(e.msg)
<1>1. /\ maint' = [maint EXCEPT ![n] = @ \ {x \in maint[n] : NextHop(x.msg) = h}]
      /\ msgs' = msgs \cup Report(n, e)
  BY DEF LinkError
<1>2. MaintShrinks
  BY <1>1 DEF MaintShrinks, RoutesInv, MaintOK
<1>3. \A m \in Report(n, e) : ~Carries(m, p)
  BY ReportIs DEF Carries
<1> QED BY <1>1, <1>2, <1>3, ShrinksNotSent

LEMMA AnswerRreqSent ==
    ASSUME NEW n, NEW m, AnswerRreq(n, m), NEW p
    PROVE  NotSentAnew(p)
<1> DEFINE route == Append(m.route, n)
           r == Routed("repl", route, Reverse(route), 2, 0)
<1>1. msgs' = msgs \cup {r} /\ maint' = maint
  BY DEF AnswerRreq, tables
<1>2. r.kind = "repl"
  BY RoutedFields
<1> HIDE DEF r
<1>3. ~Carries(r, p)
  BY <1>2 DEF Carries
<1> QED BY <1>1, <1>3, MaintSame, ShrinksNotSent

LEMMA PropagateSent ==
    ASSUME NEW t, Propagate(t), NEW p
    PROVE  NotSentAnew(p)
<1> DEFINE s == SentOn(jobs[t].arg, jobs[t].at)
<1>1. msgs' = msgs \cup {s} /\ maint' = maint
  BY DEF Propagate, SentOn
<1>2. s.type = "rreq"
  BY RreqFields DEF SentOn
<1> HIDE DEF s
<1>3. ~Carries(s, p)
  BY <1>2 DEF Carries
<1> QED BY <1>1, <1>3, MaintSame, ShrinksNotSent

LEMMA QuietPlaces ==
    ASSUME PlacesInv, world' = world, DOMAIN fate' = world.packets,
           \A p \in world.packets : QuietFor(p)
    PROVE  PlacesInv'
BY QuietPlace DEF PlacesInv

LEMMA StillPlaces ==
    ASSUME PlacesInv, world' = world, UNCHANGED <<fate, sendbuf>>,
           \A p \in world.packets : NotSentAnew(p) /\ NotBufferingAnew(p)
    PROVE  PlacesInv'
<1>1. \A p \in world.packets : QuietFor(p)
  BY DEF QuietFor
<1> QED BY <1>1, QuietPlaces DEF PlacesInv

LEMMA SameJobs ==
    ASSUME jobs' = jobs, NEW p
    PROVE  NotBufferingAnew(p)
BY DEF NotBufferingAnew

LEMMA SendPacketPlaces ==
    ASSUME RoutesInv, PlacesInv, world' = world, NEW p \in world.packets, SendPacket(p)
    PROVE  PlacesInv'
<1> DEFINE n == p[1]
           m == Routed("data", p, cache[n][p[2]], 2, nextId[n].ack)
           e == Element(m, 0, TRUE)
<1>1. /\ fate[p] = "host" /\ fate' = [fate EXCEPT ![p] = "on the way"]
      /\ maint' = [maint EXCEPT ![n] = @ \cup {e}]
      /\ msgs' = msgs \cup {m} \cup {}
      /\ UNCHANGED <<sendbuf, jobs>>
  BY DEF SendPacket, Maintain
<1>2. n \in Node
  BY WorldTypes DEF RoutesInv
<1>3. m.kind = "data" /\ m.load = p
  BY RoutedFields
<1> HIDE DEF m
<1>4. e.msg = m
  BY DEF Element
<1> HIDE DEF n, e
<1>5. DOMAIN maint = Node
  BY DEF RoutesInv, MaintOK
<1>6. DOMAIN fate = world.packets
  BY DEF PlacesInv
<1>7. PlaceOK(p)'
  BY <1>1, <1>6 DEF PlacesInv, PlaceOK
<1>8. ASSUME NEW q \in world.packets, q # p PROVE PlaceOK(q)'
  <2>1. ~Carries(m, q)
    BY <1>3, <1>8 DEF Carries
  <2>2. \A x \in msgs' : Carries(x, q) => Sent(msgs, maint, q)
    BY <1>1, <2>1 DEF Sent
  <2>3. \A k \in Node : \A x \in maint'[k] : Carries(x.msg, q) => Sent(msgs, maint, q)
    BY <1>1, <1>4, <1>5, <2>1 DEF Sent
  <2>4. NotSentAnew(q)
    BY <2>2, <2>3, NotSent
  <2>5. fate'[q] = fate[q]
    BY <1>1, <1>6, <1>8
  <2>6. QuietFor(q)
    BY <1>1, <2>4, <2>5, SameJobs DEF QuietFor
  <2> QED BY <2>6, QuietPlace DEF PlacesInv
<1> QED BY <1>1, <1>6, <1>7, <1>8 DEF PlacesInv

LEMMA MissPathPlaces ==
    ASSUME RoutesInv, PlacesInv, world' = world, NEW t \in world.threads,
           NEW p \in world.packets, MissPath(t, p)
    PROVE  PlacesInv'
<1> DEFINE j == Job(p[1], "buffer", p)
<1>1. /\ fate[p] = "host" /\ fate' = [fate EXCEPT ![p] = "on the way"]
      /\ jobs' = [jobs EXCEPT ![t] = j]
      /\ UNCHANGED <<sendbuf, maint, msgs>>
  BY DEF MissPath, tables
<1>2. j.do = "buffer" /\ j.arg = p
  BY JobFields
<1> HIDE DEF j
<1>3. DOMAIN fate = world.packets /\ DOMAIN jobs = world.threads
  BY DEF PlacesInv, RoutesInv, JobsOK
<1>4. PlaceOK(p)'
  <2>1. /\ ~Sent(msgs, maint, p) /\ \A n \in Node : p \notin sendbuf[n]
        /\ \A u \in world.threads : ~Buffering(jobs[u], p)
    BY <1>1 DEF PlacesInv, PlaceOK
  <2>2. \A u \in world.threads : Buffering(jobs'[u], p) => u = t
    BY <1>1, <1>3, <2>1
  <2>3. fate'[p] # "host" /\ ~Sent(msgs', maint', p) /\ \A n \in Node : p \notin sendbuf'[n]
    BY <1>1, <1>3, <2>1
  <2>4. world'.threads = world.threads
    OBVIOUS
  <2> QED BY <2>2, <2>3, <2>4 DEF PlaceOK
<1>5. ASSUME NEW q \in world.packets, q # p PROVE PlaceOK(q)'
  <2>1. fate'[q] = fate[q]
    BY <1>1, <1>3, <1>5
  <2>2. NotBufferingAnew(q)
    BY <1>1, <1>2, <1>3, <1>5 DEF NotBufferingAnew, Buffering
  <2>3. QuietFor(q)
    BY <1>1, <2>1, <2>2, SentSame DEF QuietFor
  <2> QED BY <2>3, QuietPlace DEF PlacesInv
<1> QED BY <1>1, <1>3, <1>4, <1>5 DEF PlacesInv

LEMMA BufferPacketPlaces ==
    ASSUME RoutesInv, PlacesInv, world' = world, NEW t \in world.threads, BufferPacket(t)
    PROVE  PlacesInv'
<1>0. PICK n, p : n = jobs[t].at /\ p = jobs[t].arg
  OBVIOUS
<1> DEFINE j == Job(n, "discover", p[2])
<1>1. /\ jobs[t].do = "buffer"
      /\ sendbuf' = [sendbuf EXCEPT ![n] = @ \cup {p}]
      /\ jobs' = [jobs EXCEPT ![t] = j]
      /\ UNCHANGED <<fate, maint, msgs>>
  BY <1>0 DEF BufferPacket, history
<1>2. j.do = "discover"
  BY JobFields
<1>3. jobs[t] # Idle /\ n \in Node /\ p \in world.packets
  BY <1>0, <1>1, JobIs
<1>4. Buffering(jobs[t], p)
  BY <1>0, <1>1, <1>3 DEF Buffering
<1> HIDE DEF j
<1>5. /\ DOMAIN fate = world.packets /\ DOMAIN jobs = world.threads
      /\ sendbuf \in [Node -> SUBSET Packet]
  BY DEF PlacesInv, RoutesInv, JobsOK, SendbufOK
<1>6. \A q : NotBufferingAnew(q)
  BY <1>1, <1>2, JobNotBuffering
<1>7. PlaceOK(p)'
  <2>1. /\ ~Sent(msgs, maint, p) /\ fate[p] # "host"
        /\ \A u \in world.threads : Buffering(jobs[u], p) => u = t
    BY <1>3, <1>4 DEF PlacesInv, PlaceOK
  <2>2. jobs'[t] = j
    BY <1>1, <1>5
  <2>3. \A u \in world.threads : ~Buffering(jobs'[u], p)
    BY <1>2, <1>6, <2>1, <2>2 DEF NotBufferingAnew, Buffering
  <2>4. ~Sent(msgs', maint', p) /\ fate'[p] # "host"
    BY <1>1, <2>1
  <2>5. world'.threads = world.threads
    OBVIOUS
  <2> QED BY <2>3, <2>4, <2>5 DEF PlaceOK
<1>8. ASSUME NEW q \in world.packets, q # p PROVE PlaceOK(q)'
  <2>1. \A k \in Node : q \in sendbuf'[k] => q \in sendbuf[k]
    BY <1>1, <1>5, <1>8
  <2>2. QuietFor(q)
    BY <1>1, <1>6, <2>1, SentSame DEF QuietFor
  <2> QED BY <2>2, QuietPlace DEF PlacesInv
<1> QED BY <1>1, <1>5, <1>7, <1>8 DEF PlacesInv

LEMMA FlushPlaces ==
    ASSUME RoutesInv, PlacesInv, world' = world, NEW t \in world.threads, Flush(t)
    PROVE  PlacesInv'
<1> DEFINE n == jobs[t].at
           d == Target(jobs[t].arg)
<1>0. jobs[t].do = "flush" /\ n = jobs[t].at /\ d = Target(jobs[t].arg)
  BY DEF Flush
<1>1. n \in Node /\ d \in Node
  BY <1>0, ReplJob
<1>2. cache[n][d] = <<>> => ForgetAll(n) /\ fate' = fate
  BY DEF Flush, Abort
<1> HIDE DEF n, d
<1>3. CASE cache[n][d] = <<>>
  BY <1>1, <1>2, <1>3, ForgetAllPlaces, QuietPlaces DEF PlacesInv
<1>4. CASE cache[n][d] # <<>>
  <2>1. Emptied(t, n, d)
    BY <1>0, <1>4, Flushed
  <2>2. /\ sendbuf' = [sendbuf EXCEPT ![n] = @ \ Waiting(n, d)]
        /\ jobs' = [jobs EXCEPT ![t] = Idle]
        /\ msgs' = msgs \cup Acks(n, jobs[t].arg) /\ fate' = fate
        /\ \A k \in Node : k # n => maint'[k] = maint[k]
        /\ \A e \in maint'[n] : e \in maint[n] \/
              \E p \in Waiting(n, d) : \E i : e.msg = First(n, d, p, i)
    BY <2>1 DEF Emptied, history
  <2>3. sendbuf \in [Node -> SUBSET Packet]
    BY DEF RoutesInv, SendbufOK
  <2>4. \A q : NotBufferingAnew(q)
    BY <2>2 DEF NotBufferingAnew, Buffering, RoutesInv, JobsOK
  <2>5. ASSUME NEW p \in world.packets, p \in Waiting(n, d) PROVE PlaceOK(p)'
    <3>1. p \in sendbuf[n] /\ p[1] = n
      BY <1>1, <2>5 DEF Waiting, RoutesInv, SendbufOK
    <3>2. fate[p] # "host" /\ \A u \in world.threads : ~Buffering(jobs[u], p)
      BY <1>1, <3>1 DEF PlacesInv, PlaceOK
    <3>3. \A k \in Node : p \notin sendbuf'[k]
      BY <1>1, <2>2, <2>3, <2>5, <3>1 DEF RoutesInv, SendbufOK
    <3>4. fate'[p] # "host" /\ \A u \in world.threads : ~Buffering(jobs'[u], p)
      BY <2>2, <2>4, <3>2 DEF NotBufferingAnew
    <3>5. world'.threads = world.threads
      OBVIOUS
    <3> QED BY <3>3, <3>4, <3>5 DEF PlaceOK
  <2>6. ASSUME NEW p \in world.packets, p \notin Waiting(n, d) PROVE PlaceOK(p)'
    <3>1. \A q \in Waiting(n, d) : \A i : ~Carries(First(n, d, q, i), p)
      BY <2>6, FirstFields DEF Carries
    <3>2. \A k \in Node : \A e \in maint'[k] : Carries(e.msg, p) => Sent(msgs, maint, p)
      BY <2>2, <3>1 DEF Sent
    <3>3. \A m \in msgs' : Carries(m, p) => Sent(msgs, maint, p)
      BY <2>2, AcksCarryNothing DEF Sent
    <3>4. NotSentAnew(p)
      BY <3>2, <3>3, NotSent
    <3>5. \A k \in Node : p \in sendbuf'[k] => p \in sendbuf[k]
      BY <2>2, <2>3
    <3>6. QuietFor(p)
      BY <2>2, <2>4, <3>4, <3>5 DEF QuietFor
    <3> QED BY <2>6, <3>6, QuietPlace DEF PlacesInv
  <2> QED BY <2>2, <2>5, <2>6 DEF PlacesInv
<1> QED BY <1>3, <1>4

LEMMA NextPlaces == RoutesInv /\ PlacesInv /\ [Next]_vars => PlacesInv'
<1> SUFFICES ASSUME RoutesInv, PlacesInv, [Next]_vars PROVE PlacesInv'
  OBVIOUS
<1>1. CASE UNCHANGED vars
  <2>1. world' = world /\ UNCHANGED <<fate, sendbuf, jobs, msgs, maint>>
    BY <1>1 DEF vars, tables, history
  <2> QED BY <2>1, SentSame, SameJobs, StillPlaces
<1>2. CASE Next
  <2>1. Step /\ world' = world
    BY <1>2 DEF Next
  <2>2. ASSUME NEW p \in world.packets, SendPacket(p) PROVE PlacesInv'
    BY <2>1, <2>2, SendPacketPlaces
  <2>3. ASSUME NEW t \in world.threads, NEW p \in world.packets, MissPath(t, p)
        PROVE  PlacesInv'
    BY <2>1, <2>3, MissPathPlaces
  <2>4. ASSUME NEW t \in world.threads, BufferPacket(t) PROVE PlacesInv'
    BY <2>1, <2>4, BufferPacketPlaces
  <2>5. ASSUME NEW t \in world.threads, Discover(t) PROVE PlacesInv'
    <3>1. /\ jobs' = [jobs EXCEPT ![t] = Idle]
          /\ SendRreq(jobs[t].at, jobs[t].arg) \/ msgs' = msgs
          /\ UNCHANGED <<fate, sendbuf, maint>>
      BY <2>5 DEF Discover, history
    <3>2. \A p : NotBufferingAnew(p)
      BY <3>1, JobNotBuffering DEF Idle
    <3>3. \A p : NotSentAnew(p)
      BY <3>1, SendRreqPlaces, SentSame
    <3> QED BY <2>1, <3>1, <3>2, <3>3, StillPlaces
  <2>6. ASSUME NEW t \in world.threads, Propagate(t) PROVE PlacesInv'
    <3>1. jobs' = [jobs EXCEPT ![t] = Idle] /\ UNCHANGED <<fate, sendbuf>>
      BY <2>6 DEF Propagate, history
    <3>2. \A p : NotBufferingAnew(p)
      BY <3>1, JobNotBuffering DEF Idle
    <3> QED BY <2>1, <2>6, <3>1, <3>2, PropagateSent, StillPlaces
  <2>7. ASSUME NEW t \in world.threads, GotRepl(t) PROVE PlacesInv'
    <3> DEFINE n == jobs[t].at
               j == Job(n, "flush", jobs[t].arg)
    <3>1. /\ jobs[t].do = "reset"
          /\ \/ ForgetAll(n) /\ fate' = fate
             \/ jobs' = [jobs EXCEPT ![t] = j] /\ UNCHANGED <<fate, sendbuf, maint, msgs>>
      BY <2>7 DEF GotRepl, Abort, history
    <3>2. n \in Node
      BY <3>1, ReplJob
    <3>3. j.do # "buffer"
      BY JobFields
    <3> HIDE DEF n, j
    <3>4. CASE ForgetAll(n) /\ fate' = fate
      BY <2>1, <3>2, <3>4, ForgetAllPlaces, QuietPlaces DEF PlacesInv
    <3>5. CASE jobs' = [jobs EXCEPT ![t] = j] /\ UNCHANGED <<fate, sendbuf, maint, msgs>>
      BY <2>1, <3>3, <3>5, JobNotBuffering, SentSame, StillPlaces
    <3> QED BY <3>1, <3>4, <3>5
  <2>8. ASSUME NEW t \in world.threads, Flush(t) PROVE PlacesInv'
    BY <2>1, <2>8, FlushPlaces
  <2>9. ASSUME NEW n \in Node, NEW m \in msgs, AnswerRreq(n, m) PROVE PlacesInv'
    <3>1. UNCHANGED <<fate, sendbuf, jobs>>
      BY <2>9 DEF AnswerRreq, tables, history
    <3> QED BY <2>1, <2>9, <3>1, AnswerRreqSent, SameJobs, StillPlaces
  <2>10. ASSUME NEW n \in Node, NEW m \in msgs, Forward(n, m) PROVE PlacesInv'
    <3>1. UNCHANGED <<fate, sendbuf, jobs>>
      BY <2>10 DEF Forward, history
    <3> QED BY <2>1, <2>10, <3>1, ForwardSent, SameJobs, StillPlaces
  <2>11. ASSUME NEW n \in Node, NEW m \in msgs, Arrive(n, m) PROVE PlacesInv'
    <3>1. UNCHANGED <<sendbuf, jobs>> /\ fate' \in {fate, [fate EXCEPT ![m.load] = "delivered"]}
      BY <2>11 DEF Arrive
    <3>2. DOMAIN fate = world.packets
      BY DEF PlacesInv
    <3>3. ASSUME NEW p \in world.packets PROVE QuietFor(p)
      BY <2>11, <3>1, <3>2, ArriveSent, SameJobs DEF QuietFor
    <3> QED BY <2>1, <3>1, <3>2, <3>3, QuietPlaces
  <2>12. ASSUME NEW n \in Node, NEW m \in msgs, OverhearRerr(n, m) PROVE PlacesInv'
    <3>1. UNCHANGED <<fate, sendbuf, jobs, maint, msgs>>
      BY <2>12 DEF OverhearRerr, history
    <3> QED BY <2>1, <3>1, SentSame, SameJobs, StillPlaces
  <2>13. ASSUME NEW n \in Node, NEW m \in msgs, HandleAck(n, m) PROVE PlacesInv'
    <3>1. UNCHANGED <<fate, sendbuf, jobs>>
      BY <2>13 DEF HandleAck, history
    <3> QED BY <2>1, <2>13, <3>1, HandleAckSent, SameJobs, StillPlaces
  <2>14. ASSUME NEW n \in Node, NEW m \in msgs, NEW t \in world.threads,
                CheckRreq(t, n, m) \/ CacheRepl(t, n, m)
         PROVE  PlacesInv'
    <3>1. UNCHANGED <<fate, sendbuf, maint, msgs>>
      BY <2>14 DEF CheckRreq, CacheRepl, tables, history
    <3>2. \/ jobs' = [jobs EXCEPT ![t] = Job(n, "propagate", m)]
          \/ jobs' = [jobs EXCEPT ![t] = Job(n, "reset", m)]
      BY <2>14 DEF CheckRreq, CacheRepl
    <3>3. Job(n, "propagate", m).do # "buffer" /\ Job(n, "reset", m).do # "buffer"
      BY JobFields
    <3>4. \A p : NotBufferingAnew(p)
      BY <3>2, <3>3, JobNotBuffering
    <3> QED BY <2>1, <3>1, <3>4, SentSame, StillPlaces
  <2>15. ASSUME NEW n \in Node, NEW e \in maint[n], Resend(n, e) PROVE PlacesInv'
    <3>1. UNCHANGED <<fate, sendbuf, jobs>>
      BY <2>15 DEF Resend, history
    <3> QED BY <2>1, <2>15, <3>1, ResendSent, SameJobs, StillPlaces
  <2>16. ASSUME NEW n \in Node, NEW e \in maint[n], LinkError(n, e) PROVE PlacesInv'
    <3> DEFINE Lost(p) == /\ fate[p] # "delivered"
                          /\ \E x \in {y \in maint[n] : NextHop(y.msg) = NextHop(e.msg)} :
                                x.msg.kind = "data" /\ x.msg.load = p
    <3>1. /\ UNCHANGED <<sendbuf, jobs>>
          /\ fate' = [p \in world.packets |-> IF Lost(p) THEN "lost" ELSE fate[p]]
      BY <2>16 DEF LinkError
    <3> HIDE DEF Lost
    <3>2. ASSUME NEW p \in world.packets PROVE QuietFor(p)
      BY <2>16, <3>1, LinkErrorSent, SameJobs DEF QuietFor
    <3> QED BY <2>1, <3>1, <3>2, QuietPlaces
  <2>17. ASSUME NEW n \in Node, NEW p \in world.packets, Expire(n, p) PROVE PlacesInv'
    <3>1. /\ sendbuf' = [sendbuf EXCEPT ![n] = @ \ {p}]
          /\ fate' = [fate EXCEPT ![p] = "expired"] /\ UNCHANGED <<jobs, msgs, maint>>
      BY <2>17 DEF Expire
    <3>2. DOMAIN fate = world.packets /\ sendbuf \in [Node -> SUBSET Packet]
      BY DEF PlacesInv, RoutesInv, SendbufOK
    <3>3. ASSUME NEW q \in world.packets PROVE QuietFor(q)
      BY <3>1, <3>2, SentSame, SameJobs DEF QuietFor
    <3> QED BY <2>1, <3>1, <3>2, <3>3, QuietPlaces
  <2>18. ASSUME NEW n \in Node, Restart(n) PROVE PlacesInv'
    <3>1. ForgetAll(n) /\ fate' = fate
      BY <2>18 DEF Restart, history
    <3> QED BY <2>1, <3>1, ForgetAllPlaces, QuietPlaces DEF PlacesInv
  <2>19. ASSUME NEW n \in Node, NEW d \in Node, Retry(n, d) PROVE PlacesInv'
    <3>1. SendRreq(n, d) /\ UNCHANGED <<fate, sendbuf, maint, jobs>>
      BY <2>19 DEF Retry, history
    <3> QED BY <2>1, <3>1, SendRreqPlaces, SameJobs, StillPlaces
  <2>20. ASSUME NEW n \in Node, NEW d \in Node, GiveUp(n, d) PROVE PlacesInv'
    <3>1. /\ UNCHANGED <<sendbuf, jobs, msgs, maint>>
          /\ fate' = [p \in world.packets |->
                        IF p \in sendbuf[n] /\ p[2] = d THEN "given up" ELSE fate[p]]
      BY <2>20 DEF GiveUp
    <3>2. ASSUME NEW p \in world.packets PROVE QuietFor(p)
      BY <3>1, SentSame, SameJobs DEF QuietFor
    <3> QED BY <2>1, <3>1, <3>2, QuietPlaces
  <2>21. ASSUME NEW n \in Node, NEW d \in Node, ForgetEntry(n, d) \/ Forgive(n, d)
         PROVE  PlacesInv'
    <3>1. UNCHANGED <<fate, sendbuf, jobs, maint, msgs>>
      BY <2>21 DEF ForgetEntry, Forgive, history
    <3> QED BY <2>1, <3>1, SentSame, SameJobs, StillPlaces
  <2> QED BY <2>1, <2>2, <2>3, <2>4, <2>5, <2>6, <2>7, <2>8, <2>9, <2>10, <2>11, <2>12,
             <2>13, <2>14, <2>15, <2>16, <2>17, <2>18, <2>19, <2>20, <2>21 DEF Step
<1> QED BY <1>1, <1>2

LEMMA InitPlaces == Init => PlacesInv
BY DEF Init, PlacesInv, PlaceOK, Sent, Buffering

-----------------------------------------------------------------------------
(* A packet that waits has a discovery. *)

Cared(n, p) == fate[p] = "given up" \/ reqs[n][p[2]] > 0 \/ Pending(n, p[2])

PendingStays(n, d) == Pending(n, d) => Pending(n, d)'

CaredStays(n, p) ==
    /\ fate[p] = "given up" => fate'[p] = "given up"
    /\ reqs[n][p[2]] > 0 => reqs'[n][p[2]] > 0
    /\ PendingStays(n, p[2])

LEMMA CaredStep ==
    ASSUME BufferedHasDiscovery, world' = world,
           \A n \in Node : \A p \in sendbuf'[n] :
               Cared(n, p)' \/ (p \in sendbuf[n] /\ CaredStays(n, p))
    PROVE  BufferedHasDiscovery'
BY DEF BufferedHasDiscovery, Cared, CaredStays, PendingStays

LEMMA PendingSame ==
    ASSUME world' = world, jobs' = jobs, NEW n, NEW d
    PROVE  PendingStays(n, d)
BY DEF PendingStays, Pending

\* Only the jobs "discover" and "flush" count.
LEMMA PendingOther ==
    ASSUME RoutesInv, world' = world, NEW t \in world.threads,
           jobs[t].do \notin {"discover", "flush"}, NEW j, jobs' = [jobs EXCEPT ![t] = j],
           NEW n, NEW d
    PROVE  PendingStays(n, d)
BY DEF PendingStays, Pending, RoutesInv, JobsOK

LEMMA PendingElse ==
    ASSUME RoutesInv, world' = world, NEW t \in world.threads,
           jobs' = [jobs EXCEPT ![t] = Idle], NEW n, NEW d,
           ~(jobs[t].at = n /\ \/ jobs[t].do = "discover" /\ jobs[t].arg = d
                               \/ jobs[t].do = "flush" /\ Target(jobs[t].arg) = d)
    PROVE  PendingStays(n, d)
BY DEF PendingStays, Pending, RoutesInv, JobsOK

\* Nothing of all this changes but which job a thread has.
LEMMA CaredSame ==
    ASSUME BufferedHasDiscovery, world' = world, UNCHANGED <<fate, reqs, sendbuf>>,
           \A n, d \in Node : PendingStays(n, d), RoutesInv
    PROVE  BufferedHasDiscovery'
<1>1. \A n \in Node : \A p \in sendbuf[n] : p[2] \in Node
  BY WorldTypes DEF RoutesInv, SendbufOK
<1> QED BY <1>1, CaredStep DEF CaredStays

LEMMA BufferedIs ==
    ASSUME RoutesInv, NEW n \in Node, NEW p \in sendbuf[n]
    PROVE  p \in world.packets /\ p[1] = n /\ p[2] \in Node
BY WorldTypes DEF RoutesInv, SendbufOK

LEMMA ForgetAllCared ==
    ASSUME RoutesInv, BufferedHasDiscovery, world' = world, NEW n \in Node, ForgetAll(n),
           fate' = fate
    PROVE  BufferedHasDiscovery'
<1>1. /\ reqs' = [reqs EXCEPT ![n] = [d \in Node |-> NoEntry]]
      /\ sendbuf' = [sendbuf EXCEPT ![n] = {}]
      /\ jobs' = [t \in world.threads |->
                    IF jobs[t] # Idle /\ jobs[t].at = n THEN Idle ELSE jobs[t]]
  BY DEF ForgetAll
<1>2. sendbuf'[n] = {} /\ \A k \in Node : k # n => sendbuf'[k] = sendbuf[k] /\ reqs'[k] = reqs[k]
  BY <1>1 DEF RoutesInv, SendbufOK, ReqsOK
<1>3. \A k \in Node, d \in Node : k # n => PendingStays(k, d)
  BY <1>1 DEF PendingStays, Pending
<1> QED BY <1>2, <1>3, BufferedIs, CaredStep DEF CaredStays

LEMMA SendRreqCared ==
    ASSUME RoutesInv, BufferedHasDiscovery, world' = world, NEW n \in Node, NEW d \in Node,
           reqs'[n][d] > 0,
           \A m, b \in Node : m # n \/ b # d => reqs'[m][b] = reqs[m][b],
           \A m, b \in Node : m # n \/ b # d => PendingStays(m, b),
           UNCHANGED <<fate, sendbuf>>
    PROVE  BufferedHasDiscovery'
<1>1. ASSUME NEW k \in Node, NEW p \in sendbuf'[k]
      PROVE  Cared(k, p)' \/ (p \in sendbuf[k] /\ CaredStays(k, p))
  <2>1. p \in sendbuf[k] /\ p[2] \in Node
    BY BufferedIs
  <2>2. CASE k = n /\ p[2] = d
    BY <2>2 DEF Cared
  <2>3. CASE k # n \/ p[2] # d
    BY <2>1, <2>3 DEF CaredStays
  <2> QED BY <2>2, <2>3
<1> QED BY <1>1, CaredStep

LEMMA DiscoverCared ==
    ASSUME RoutesInv, BufferedHasDiscovery, world' = world, NEW t \in world.threads,
           Discover(t)
    PROVE  BufferedHasDiscovery'
<1> DEFINE n == jobs[t].at
           d == jobs[t].arg
<1>1. /\ jobs[t].do = "discover" /\ jobs' = [jobs EXCEPT ![t] = Idle]
      /\ SendRreq(n, d) \/ (reqs[n][d] > 0 /\ reqs' = reqs)
      /\ UNCHANGED <<fate, sendbuf>>
  BY DEF Discover, history
<1>2. n \in Node /\ d \in Node /\ n # d
  BY <1>1, JobIs
<1>3. \A m, b \in Node : m # n \/ b # d => PendingStays(m, b)
  BY <1>1, PendingElse
<1>4. /\ reqs'[n][d] > 0
      /\ \A m, b \in Node : m # n \/ b # d => reqs'[m][b] = reqs[m][b]
  <2> HIDE DEF n, d
  <2>1. CASE SendRreq(n, d)
    BY <1>2, <2>1, SendRreqRoutes
  <2> QED BY <1>1, <2>1
<1> HIDE DEF n, d
<1> QED BY <1>1, <1>2, <1>3, <1>4, SendRreqCared

LEMMA RetryCared ==
    ASSUME RoutesInv, BufferedHasDiscovery, world' = world, NEW n \in Node, NEW d \in Node,
           Retry(n, d)
    PROVE  BufferedHasDiscovery'
<1>1. SendRreq(n, d) /\ UNCHANGED <<fate, sendbuf, jobs>>
  BY DEF Retry, history
<1>2. n # d
  BY DEF Retry, RoutesInv, ReqsOK
<1>3. /\ reqs'[n][d] > 0
      /\ \A m, b \in Node : m # n \/ b # d => reqs'[m][b] = reqs[m][b]
  BY <1>1, <1>2, SendRreqRoutes
<1> QED BY <1>1, <1>3, PendingSame, SendRreqCared

LEMMA BufferPacketCared ==
    ASSUME RoutesInv, BufferedHasDiscovery, world' = world, NEW t \in world.threads,
           BufferPacket(t)
    PROVE  BufferedHasDiscovery'
<1>0. PICK n, p : n = jobs[t].at /\ p = jobs[t].arg
  OBVIOUS
<1> DEFINE j == Job(n, "discover", p[2])
<1>1. /\ jobs[t].do = "buffer"
      /\ sendbuf' = [sendbuf EXCEPT ![n] = @ \cup {p}]
      /\ jobs' = [jobs EXCEPT ![t] = j]
      /\ UNCHANGED <<fate, reqs>>
  BY <1>0 DEF BufferPacket, history
<1>2. n \in Node
  BY <1>0, <1>1, JobIs
<1>3. j.do = "discover" /\ j.at = n /\ j.arg = p[2] /\ j # Idle
  BY JobFields
<1> HIDE DEF j
<1>4. jobs'[t] = j /\ world'.threads = world.threads
  BY <1>1 DEF RoutesInv, JobsOK
<1>5. Pending(n, p[2])'
  BY <1>3, <1>4 DEF Pending
<1>6. \A k, d : PendingStays(k, d)
  BY <1>1, PendingOther
<1>7. ASSUME NEW k \in Node, NEW q \in sendbuf'[k]
      PROVE  Cared(k, q)' \/ (q \in sendbuf[k] /\ CaredStays(k, q))
  <2>1. CASE q \in sendbuf[k]
    BY <1>1, <1>6, <2>1 DEF CaredStays
  <2>2. CASE q \notin sendbuf[k]
    <3>1. k = n /\ q = p
      BY <1>1, <1>2, <2>2 DEF RoutesInv, SendbufOK
    <3> QED BY <1>5, <3>1 DEF Cared
  <2> QED BY <2>1, <2>2
<1> QED BY <1>7, CaredStep

LEMMA PropagateCared ==
    ASSUME RoutesInv, BufferedHasDiscovery, world' = world, NEW t \in world.threads,
           Propagate(t)
    PROVE  BufferedHasDiscovery'
<1>0. PICK n, m : n = jobs[t].at /\ m = jobs[t].arg
  OBVIOUS
<1>1. /\ jobs[t].do = "propagate" /\ UNCHANGED <<fate, sendbuf>>
      /\ jobs' = [jobs EXCEPT ![t] = Idle]
      /\ reqs' = [reqs EXCEPT ![n][Head(m.route)] = IF @ = NoEntry THEN 0 ELSE @]
  BY <1>0 DEF Propagate, history
<1>2. n \in Node /\ Head(m.route) \in Node
  BY <1>0, <1>1, JobIs, PathNodes DEF RreqOK
<1>3. \A k, b \in Node : reqs[k][b] > 0 => reqs'[k][b] > 0
  BY <1>1, <1>2, EntryMade DEF NoEntry
<1>4. \A k, d : PendingStays(k, d)
  BY <1>1, <1>2, PendingOther
<1> QED BY <1>1, <1>3, <1>4, BufferedIs, CaredStep DEF CaredStays

LEMMA GotReplCared ==
    ASSUME RoutesInv, BufferedHasDiscovery, world' = world, NEW t \in world.threads,
           GotRepl(t)
    PROVE  BufferedHasDiscovery'
<1>0. PICK n, m, d : n = jobs[t].at /\ m = jobs[t].arg /\ d = Target(jobs[t].arg)
  OBVIOUS
<1> DEFINE j == Job(n, "flush", m)
<1>1. /\ jobs[t].do = "reset"
      /\ \/ ForgetAll(n) /\ fate' = fate
         \/ /\ reqs' = [reqs EXCEPT ![n][d] = 0] /\ jobs' = [jobs EXCEPT ![t] = j]
            /\ UNCHANGED <<fate, sendbuf>>
  BY <1>0 DEF GotRepl, Abort, history
<1>2. n \in Node /\ d \in Node
  BY <1>0, <1>1, ReplJob
<1>3. j.do = "flush" /\ j.at = n /\ Target(j.arg) = d /\ j # Idle
  BY <1>0, JobFields
<1> HIDE DEF j
<1>4. CASE ForgetAll(n) /\ fate' = fate
  BY <1>2, <1>4, ForgetAllCared
<1>5. CASE /\ reqs' = [reqs EXCEPT ![n][d] = 0] /\ jobs' = [jobs EXCEPT ![t] = j]
           /\ UNCHANGED <<fate, sendbuf>>
  <2>1. jobs'[t] = j /\ world'.threads = world.threads
    BY <1>5 DEF RoutesInv, JobsOK
  <2>2. Pending(n, d)'
    BY <1>3, <2>1 DEF Pending
  <2>3. \A k, b : PendingStays(k, b)
    BY <1>1, <1>5, PendingOther
  <2>4. \A k, b \in Node : k # n \/ b # d => reqs'[k][b] = reqs[k][b]
    BY <1>2, <1>5 DEF RoutesInv, ReqsOK
  <2>5. ASSUME NEW k \in Node, NEW p \in sendbuf'[k]
        PROVE  Cared(k, p)' \/ (p \in sendbuf[k] /\ CaredStays(k, p))
    <3>1. p \in sendbuf[k] /\ p[2] \in Node
      BY <1>5, BufferedIs
    <3>2. CASE k = n /\ p[2] = d
      BY <2>2, <3>2 DEF Cared
    <3>3. CASE k # n \/ p[2] # d
      BY <1>5, <2>3, <2>4, <3>1, <3>3 DEF CaredStays
    <3> QED BY <3>2, <3>3
  <2> QED BY <2>5, CaredStep
<1> QED BY <1>1, <1>4, <1>5

LEMMA FlushCared ==
    ASSUME RoutesInv, BufferedHasDiscovery, world' = world, NEW t \in world.threads,
           Flush(t)
    PROVE  BufferedHasDiscovery'
<1>0. PICK n, d : n = jobs[t].at /\ d = Target(jobs[t].arg)
  OBVIOUS
<1>1. jobs[t].do = "flush" /\ (cache[n][d] = <<>> => ForgetAll(n) /\ fate' = fate)
  BY <1>0 DEF Flush, Abort
<1>2. n \in Node /\ d \in Node
  BY <1>0, <1>1, ReplJob
<1>3. CASE cache[n][d] = <<>>
  BY <1>1, <1>2, <1>3, ForgetAllCared
<1>4. CASE cache[n][d] # <<>>
  <2>1. Emptied(t, n, d)
    BY <1>0, <1>4, Flushed
  <2>2. /\ sendbuf' = [sendbuf EXCEPT ![n] = @ \ Waiting(n, d)]
        /\ jobs' = [jobs EXCEPT ![t] = Idle] /\ UNCHANGED <<fate, reqs>>
    BY <2>1 DEF Emptied, history
  <2>3. ASSUME NEW k \in Node, NEW p \in sendbuf'[k]
        PROVE  p \in sendbuf[k] /\ CaredStays(k, p)
    <3>1. p \in sendbuf[k] /\ (k = n => p[2] # d)
      BY <1>2, <2>2 DEF Waiting, RoutesInv, SendbufOK
    <3>2. PendingStays(k, p[2])
      BY <1>0, <1>1, <2>2, <3>1, PendingElse
    <3> QED BY <2>2, <3>1, <3>2 DEF CaredStays
  <2> QED BY <2>3, CaredStep
<1> QED BY <1>3, <1>4

LEMMA GiveUpCared ==
    ASSUME RoutesInv, BufferedHasDiscovery, world' = world, NEW n \in Node, NEW d \in Node,
           GiveUp(n, d)
    PROVE  BufferedHasDiscovery'
<1>1. /\ reqs' = [reqs EXCEPT ![n][d] = 0] /\ UNCHANGED <<sendbuf, jobs>>
      /\ fate' = [p \in world.packets |->
                    IF p \in sendbuf[n] /\ p[2] = d THEN "given up" ELSE fate[p]]
  BY DEF GiveUp
<1>2. \A k, b \in Node : k # n \/ b # d => reqs'[k][b] = reqs[k][b]
  BY <1>1 DEF RoutesInv, ReqsOK
<1>3. \A k, b : PendingStays(k, b)
  BY <1>1, PendingSame
<1>4. ASSUME NEW k \in Node, NEW p \in sendbuf'[k]
      PROVE  Cared(k, p)' \/ (p \in sendbuf[k] /\ CaredStays(k, p))
  <2>1. p \in sendbuf[k] /\ p[2] \in Node /\ p \in world.packets
    BY <1>1, BufferedIs
  <2>2. CASE k = n /\ p[2] = d
    BY <1>1, <2>1, <2>2 DEF Cared
  <2>3. CASE k # n \/ p[2] # d
    BY <1>1, <1>2, <1>3, <2>1, <2>3 DEF CaredStays
  <2> QED BY <2>2, <2>3
<1> QED BY <1>4, CaredStep

\* The fate of the packets that wait does not change.
LEMMA FateCared ==
    ASSUME RoutesInv, BufferedHasDiscovery, world' = world, UNCHANGED <<reqs, jobs>>,
           \A n \in Node : sendbuf'[n] \subseteq sendbuf[n],
           \A n \in Node : \A p \in sendbuf'[n] : fate'[p] = fate[p]
    PROVE  BufferedHasDiscovery'
BY PendingSame, CaredStep DEF CaredStays

LEMMA ArriveCared ==
    ASSUME RoutesInv, PlacesInv, BufferedHasDiscovery, world' = world, NEW n \in Node,
           NEW m \in msgs, Arrive(n, m)
    PROVE  BufferedHasDiscovery'
<1>1. /\ m.type = "routed" /\ UNCHANGED <<reqs, jobs, sendbuf>>
      /\ fate' = IF m.kind = "data" THEN [fate EXCEPT ![m.load] = "delivered"] ELSE fate
  BY DEF Arrive
<1>2. ASSUME NEW k \in Node, NEW p \in sendbuf'[k] PROVE fate'[p] = fate[p]
  <2>1. p \in sendbuf[k] /\ p \in world.packets
    BY <1>1, BufferedIs
  <2>2. ~Sent(msgs, maint, p)
    BY <2>1 DEF PlacesInv, PlaceOK
  <2>3. ~(m.kind = "data" /\ m.load = p)
    BY <1>1, <2>2 DEF Sent, Carries
  <2> QED BY <1>1, <2>3
<1> QED BY <1>1, <1>2, FateCared

LEMMA LinkErrorCared ==
    ASSUME RoutesInv, PlacesInv, BufferedHasDiscovery, world' = world, NEW n \in Node,
           NEW e \in maint[n], LinkError(n, e)
    PROVE  BufferedHasDiscovery'
<1> DEFINE gone == {y \in maint[n] : NextHop(y.msg) = NextHop(e.msg)}
           Lost(p) == /\ fate[p] # "delivered"
                      /\ \E x \in gone : x.msg.kind = "data" /\ x.msg.load = p
<1>1. /\ UNCHANGED <<reqs, jobs, sendbuf>>
      /\ fate' = [p \in world.packets |-> IF Lost(p) THEN "lost" ELSE fate[p]]
  BY DEF LinkError
<1>2. ASSUME NEW k \in Node, NEW p \in sendbuf'[k] PROVE fate'[p] = fate[p]
  <2>1. p \in sendbuf[k] /\ p \in world.packets
    BY <1>1, BufferedIs
  <2>2. ~Sent(msgs, maint, p)
    BY <2>1 DEF PlacesInv, PlaceOK
  <2>3. ~Lost(p)
    BY <2>2 DEF Sent, Carries, RoutesInv, MaintOK, RoutedOK
  <2> HIDE DEF Lost
  <2> QED BY <1>1, <2>1, <2>3
<1> HIDE DEF Lost
<1> QED BY <1>1, <1>2, FateCared

LEMMA ExpireCared ==
    ASSUME RoutesInv, PlacesInv, BufferedHasDiscovery, world' = world, NEW n \in Node,
           NEW p, Expire(n, p)
    PROVE  BufferedHasDiscovery'
<1>1. /\ p \in sendbuf[n] /\ sendbuf' = [sendbuf EXCEPT ![n] = @ \ {p}]
      /\ fate' = [fate EXCEPT ![p] = "expired"] /\ UNCHANGED <<reqs, jobs>>
  BY DEF Expire
<1>2. \A k \in Node : sendbuf'[k] \subseteq sendbuf[k]
  BY <1>1 DEF RoutesInv, SendbufOK
<1>3. ASSUME NEW k \in Node, NEW q \in sendbuf'[k] PROVE fate'[q] = fate[q]
  <2>1. q \in sendbuf[k] /\ q[1] = k /\ p[1] = n
    BY <1>1, <1>2, BufferedIs
  <2>2. q # p
    BY <1>1, <2>1 DEF RoutesInv, SendbufOK
  <2> QED BY <1>1, <2>2
<1> QED BY <1>1, <1>2, <1>3, FateCared

\* SendPacket and MissPath take a packet that waits nowhere.
LEMMA TakenCared ==
    ASSUME RoutesInv, PlacesInv, BufferedHasDiscovery, world' = world,
           NEW p \in world.packets, fate[p] = "host",
           fate' = [fate EXCEPT ![p] = "on the way"], UNCHANGED <<reqs, sendbuf>>,
           \A n, d : PendingStays(n, d)
    PROVE  BufferedHasDiscovery'
<1>1. ASSUME NEW n \in Node, NEW q \in sendbuf'[n] PROVE fate'[q] = fate[q]
  <2>1. q \in sendbuf[n] /\ p \notin sendbuf[n] /\ DOMAIN fate = world.packets
    BY DEF PlacesInv, PlaceOK
  <2> QED BY <2>1, BufferedIs
<1> QED BY <1>1, CaredStep DEF CaredStays

LEMMA NextCared ==
    RoutesInv /\ PlacesInv /\ BufferedHasDiscovery /\ [Next]_vars => BufferedHasDiscovery'
<1> SUFFICES ASSUME RoutesInv, PlacesInv, BufferedHasDiscovery, [Next]_vars
             PROVE  BufferedHasDiscovery'
  OBVIOUS
<1>1. CASE UNCHANGED vars
  <2>1. world' = world /\ UNCHANGED <<fate, reqs, sendbuf, jobs>>
    BY <1>1 DEF vars, tables, history
  <2> QED BY <2>1, PendingSame, CaredSame
<1>2. CASE Next
  <2>1. Step /\ world' = world
    BY <1>2 DEF Next
  <2>2. ASSUME NEW p \in world.packets, SendPacket(p) PROVE BufferedHasDiscovery'
    <3>1. /\ fate[p] = "host" /\ fate' = [fate EXCEPT ![p] = "on the way"]
          /\ UNCHANGED <<reqs, sendbuf, jobs>>
      BY <2>2 DEF SendPacket
    <3> QED BY <2>1, <3>1, PendingSame, TakenCared
  <2>3. ASSUME NEW t \in world.threads, NEW p \in world.packets, MissPath(t, p)
        PROVE  BufferedHasDiscovery'
    <3>1. /\ fate[p] = "host" /\ fate' = [fate EXCEPT ![p] = "on the way"]
          /\ jobs[t] = Idle /\ jobs' = [jobs EXCEPT ![t] = Job(p[1], "buffer", p)]
          /\ UNCHANGED <<reqs, sendbuf>>
      BY <2>3 DEF MissPath, tables
    <3>2. jobs[t].do \notin {"discover", "flush"}
      <4>1. jobs[t] = Idle
        BY <3>1
      <4> QED BY <4>1 DEF Idle
    <3>3. PICK j : jobs' = [jobs EXCEPT ![t] = j]
      BY <3>1
    <3>4. \A n, d : PendingStays(n, d)
      BY <2>1, <3>2, <3>3, PendingOther
    <3> QED BY <2>1, <3>1, <3>4, TakenCared
  <2>4. ASSUME NEW t \in world.threads,
               \/ BufferPacket(t) \/ Discover(t) \/ Propagate(t) \/ GotRepl(t) \/ Flush(t)
        PROVE  BufferedHasDiscovery'
    BY <2>1, <2>4, BufferPacketCared, DiscoverCared, PropagateCared, GotReplCared, FlushCared
  <2>5. ASSUME NEW n \in Node, NEW m \in msgs,
               AnswerRreq(n, m) \/ Forward(n, m) \/ OverhearRerr(n, m) \/ HandleAck(n, m)
        PROVE  BufferedHasDiscovery'
    <3>1. UNCHANGED <<fate, reqs, sendbuf, jobs>>
      BY <2>5 DEF AnswerRreq, Forward, OverhearRerr, HandleAck, tables, history
    <3> QED BY <2>1, <3>1, PendingSame, CaredSame
  <2>6. ASSUME NEW n \in Node, NEW m \in msgs, Arrive(n, m) PROVE BufferedHasDiscovery'
    BY <2>1, <2>6, ArriveCared
  <2>7. ASSUME NEW n \in Node, NEW m \in msgs, NEW t \in world.threads,
               CheckRreq(t, n, m) \/ CacheRepl(t, n, m)
        PROVE  BufferedHasDiscovery'
    <3>1. jobs[t] = Idle /\ UNCHANGED <<fate, reqs, sendbuf>>
      BY <2>7 DEF CheckRreq, CacheRepl, tables, history
    <3>2. PICK j : jobs' = [jobs EXCEPT ![t] = j]
      BY <2>7 DEF CheckRreq, CacheRepl
    <3>3. jobs[t].do \notin {"discover", "flush"}
      BY <3>1 DEF Idle
    <3>4. \A k, d : PendingStays(k, d)
      BY <2>1, <3>2, <3>3, PendingOther
    <3> QED BY <2>1, <3>1, <3>4, CaredSame
  <2>8. ASSUME NEW n \in Node, NEW e \in maint[n], Resend(n, e) PROVE BufferedHasDiscovery'
    <3>1. UNCHANGED <<fate, reqs, sendbuf, jobs>>
      BY <2>8 DEF Resend, history
    <3> QED BY <2>1, <3>1, PendingSame, CaredSame
  <2>9. ASSUME NEW n \in Node, NEW e \in maint[n], LinkError(n, e)
        PROVE  BufferedHasDiscovery'
    BY <2>1, <2>9, LinkErrorCared
  <2>10. ASSUME NEW n \in Node, NEW p \in world.packets, Expire(n, p)
         PROVE  BufferedHasDiscovery'
    BY <2>1, <2>10, ExpireCared
  <2>11. ASSUME NEW n \in Node, Restart(n) PROVE BufferedHasDiscovery'
    BY <2>1, <2>11, ForgetAllCared DEF Restart, history
  <2>12. ASSUME NEW n \in Node, NEW d \in Node, Retry(n, d) \/ GiveUp(n, d)
         PROVE  BufferedHasDiscovery'
    BY <2>1, <2>12, RetryCared, GiveUpCared
  <2>13. ASSUME NEW n \in Node, NEW d \in Node, ForgetEntry(n, d) PROVE BufferedHasDiscovery'
    <3>1. /\ reqs[n][d] = 0 /\ reqs' = [reqs EXCEPT ![n][d] = NoEntry]
          /\ UNCHANGED <<fate, sendbuf, jobs>>
      BY <2>13 DEF ForgetEntry, history
    <3>2. \A k, b \in Node : reqs[k][b] > 0 => reqs'[k][b] > 0
      BY <3>1 DEF RoutesInv, ReqsOK
    <3>3. \A k, b : PendingStays(k, b)
      BY <2>1, <3>1, PendingSame
    <3> QED BY <2>1, <3>1, <3>2, <3>3, BufferedIs, CaredStep DEF CaredStays
  <2>14. ASSUME NEW n \in Node, NEW h, Forgive(n, h) PROVE BufferedHasDiscovery'
    <3>1. UNCHANGED <<fate, reqs, sendbuf, jobs>>
      BY <2>14 DEF Forgive, history
    <3> QED BY <2>1, <3>1, PendingSame, CaredSame
  <2> QED BY <2>1, <2>2, <2>3, <2>4, <2>5, <2>6, <2>7, <2>8, <2>9, <2>10, <2>11, <2>12,
             <2>13, <2>14 DEF Step
<1> QED BY <1>1, <1>2

LEMMA PlacesAlways == Spec => []PlacesInv
<1>1. Init => PlacesInv
  BY InitPlaces
<1>2. RoutesInv /\ PlacesInv /\ [Next]_vars => PlacesInv'
  BY NextPlaces
<1> QED BY <1>1, <1>2, RoutesAlways, PTL DEF Spec

\* A packet in the send buffer is never forgotten by its discovery: a RREQ waits
\* for a REPL and is repeated, or a thread is about to send one or to empty the
\* buffer, or all tries were used up (dsr_sendbuffer_add, dsr_do_route_discovery,
\* dsr_rreqtable_got_repl, run_rreqtable, cleanup_rreqtable).
THEOREM WaitingIsLookedAfter == Spec => []BufferedHasDiscovery
<1>1. Init => BufferedHasDiscovery
  BY DEF Init, BufferedHasDiscovery
<1>2. RoutesInv /\ PlacesInv /\ BufferedHasDiscovery /\ [Next]_vars => BufferedHasDiscovery'
  BY NextCared
<1> QED BY <1>1, <1>2, RoutesAlways, PlacesAlways, PTL DEF Spec

-----------------------------------------------------------------------------
(* Identifications of ACK requests. *)

\* Message m of node n has an identification that was not used before.
Fresh(n, m) ==
    Sender(m) = n /\ nextId[n].ack <= m.ack /\ m.ack < nextId'[n].ack

MaintFresh ==
    \A n \in Node : \A e \in maint'[n] :
        \/ \E f \in maint[n] : f.msg = e.msg
        \/ Fresh(n, e.msg) /\ \A f \in maint'[n] : f.msg.ack = e.msg.ack => f.msg = e.msg

\* An ACK that answers a message, whose receiver took over what it carries.
NewAck(a) ==
    /\ a.type = "ack"
    /\ \E m \in msgs :
          /\ m.type = "routed" /\ m.ack # 0 /\ a.to = Sender(m) /\ a.id = m.ack
          /\ \A p \in world.packets : Carries(m, p) => Further(fate', maint', p, m.to)

MsgsFresh ==
    \A m \in msgs' :
        \/ m \in msgs \/ m.type = "rreq" \/ (m.type = "routed" /\ m.ack = 0)
        \/ NewAck(m) \/ (m.type = "routed" /\ \E n \in Node : \E e \in maint'[n] : e.msg = m)

NextGrows == \A n \in Node : nextId[n].ack <= nextId'[n].ack

FurtherStays ==
    \A p \in world.packets : Sent(msgs, maint, p) =>
        \A i \in Int : Further(fate, maint, p, i) => Further(fate', maint', p, i)

LEMMA MaintIds ==
    ASSUME RoutesInv, RoutesInv', IdsInv, NextGrows, MaintFresh, NEW n \in Node,
           NEW e \in maint'[n]
    PROVE  /\ Sender(e.msg) = n /\ 0 < e.msg.ack /\ e.msg.ack < nextId'[n].ack
           /\ \A f \in maint'[n] : f.msg.ack = e.msg.ack => f.msg = e.msg
<1>1. /\ nextId[n].ack \in Nat \ {0} /\ nextId'[n].ack \in Nat \ {0}
      /\ nextId[n].ack <= nextId'[n].ack
  BY DEF RoutesInv, Ids, NextGrows
<1>2. \A f \in maint'[n] : f.msg.ack \in Nat
  BY DEF RoutesInv, MaintOK, RoutedOK
<1>3. CASE \E f \in maint[n] : f.msg = e.msg
  <2>1. PICK f \in maint[n] : f.msg = e.msg
    BY <1>3
  <2>2. /\ Sender(e.msg) = n /\ 0 < e.msg.ack /\ e.msg.ack < nextId[n].ack
        /\ \A g \in maint[n] : g.msg.ack = e.msg.ack => g.msg = e.msg
    BY <2>1 DEF IdsInv
  <2>3. ASSUME NEW g \in maint'[n], g.msg.ack = e.msg.ack PROVE g.msg = e.msg
    <3>1. CASE \E x \in maint[n] : x.msg = g.msg
      BY <2>2, <2>3, <3>1
    <3>2. CASE Fresh(n, g.msg)
      <4>1. nextId[n].ack <= g.msg.ack
        BY <3>2 DEF Fresh
      <4> QED BY <1>1, <1>2, <2>2, <2>3, <4>1
    <3> QED BY <3>1, <3>2 DEF MaintFresh
  <2> QED BY <1>1, <1>2, <2>2, <2>3
<1>4. CASE Fresh(n, e.msg) /\ \A f \in maint'[n] : f.msg.ack = e.msg.ack => f.msg = e.msg
  BY <1>1, <1>2, <1>4 DEF Fresh
<1> QED BY <1>3, <1>4 DEF MaintFresh

LEMMA MsgIds ==
    ASSUME RoutesInv, RoutesInv', IdsInv, NextGrows, MaintFresh, MsgsFresh, NEW m \in msgs'
    PROVE  /\ m.type = "routed" /\ m.ack # 0 =>
                 /\ Sender(m) \in Node /\ m.ack < nextId'[Sender(m)].ack
                 /\ \A e \in maint'[Sender(m)] : e.msg.ack = m.ack => e.msg = m
           /\ m.type = "ack" => m.to \in Node /\ m.id < nextId'[m.to].ack
<1>1. \A n \in Node : /\ nextId[n].ack \in Nat \ {0} /\ nextId'[n].ack \in Nat \ {0}
                      /\ nextId[n].ack <= nextId'[n].ack
  BY DEF RoutesInv, Ids, NextGrows
<1>2. /\ \A x \in msgs : /\ x.type = "routed" => x.ack \in Nat
                         /\ x.type = "ack" => x.id \in Nat
      /\ \A n \in Node : \A f \in maint'[n] : f.msg.ack \in Nat
  BY RoutedIs DEF RoutesInv, MaintOK, RoutedOK, AckOK
<1>3. CASE m \in msgs
  <2>1. /\ m.type = "routed" /\ m.ack # 0 =>
              /\ Sender(m) \in Node /\ m.ack < nextId[Sender(m)].ack
              /\ \A e \in maint[Sender(m)] : e.msg.ack = m.ack => e.msg = m
        /\ m.type = "ack" => m.to \in Node /\ m.id < nextId[m.to].ack
    BY <1>3 DEF IdsInv
  <2>2. ASSUME m.type = "routed", m.ack # 0, NEW e \in maint'[Sender(m)], e.msg.ack = m.ack
        PROVE  e.msg = m
    <3>1. CASE \E f \in maint[Sender(m)] : f.msg = e.msg
      BY <2>1, <2>2, <3>1
    <3>2. CASE Fresh(Sender(m), e.msg)
      <4>1. nextId[Sender(m)].ack <= e.msg.ack
        BY <3>2 DEF Fresh
      <4> QED BY <1>1, <1>2, <1>3, <2>1, <2>2, <4>1
    <3> QED BY <2>1, <2>2, <3>1, <3>2 DEF MaintFresh
  <2>3. ASSUME m.type = "routed", m.ack # 0
        PROVE  m.ack < nextId'[Sender(m)].ack
    BY <1>1, <1>2, <1>3, <2>1, <2>3
  <2>4. ASSUME m.type = "ack" PROVE m.id < nextId'[m.to].ack
    BY <1>1, <1>2, <1>3, <2>1, <2>4
  <2> QED BY <2>1, <2>2, <2>3, <2>4
<1>4. CASE NewAck(m)
  <2>1. PICK x \in msgs : x.type = "routed" /\ x.ack # 0 /\ m.to = Sender(x) /\ m.id = x.ack
    BY <1>4 DEF NewAck
  <2>2. Sender(x) \in Node /\ x.ack < nextId[Sender(x)].ack
    BY <2>1 DEF IdsInv
  <2>3. x.ack < nextId'[Sender(x)].ack
    BY <1>1, <1>2, <2>1, <2>2
  <2> QED BY <1>4, <2>1, <2>2, <2>3 DEF NewAck
<1>5. CASE m.type = "routed" /\ \E n \in Node : \E e \in maint'[n] : e.msg = m
  BY <1>5, MaintIds
<1> QED BY <1>3, <1>4, <1>5 DEF MsgsFresh

LEMMA IdsStep ==
    ASSUME RoutesInv, RoutesInv', IdsInv, NextGrows, MaintFresh, MsgsFresh
    PROVE  IdsInv'
BY MaintIds, MsgIds DEF IdsInv

LEMMA AcksStep ==
    ASSUME RoutesInv, RoutesInv', world' = world, IdsInv, AcksInv, NextGrows, MaintFresh,
           MsgsFresh, FurtherStays
    PROVE  AcksInv'
<1> SUFFICES ASSUME NEW a \in msgs', a.type = "ack", NEW e \in maint'[a.to],
                    NEW p \in world.packets, e.msg.ack = a.id, Carries(e.msg, p)
             PROVE  Further(fate', maint', p, e.msg.to)
  BY DEF AcksInv
<1>1. a.to \in Node
  BY MsgIds
<1>2. /\ nextId[a.to].ack \in Nat
      /\ \A x \in msgs : x.type = "routed" => x.ack \in Nat
      /\ \A x \in msgs : x.type = "ack" => x.id \in Nat
      /\ e.msg.ack \in Nat /\ e.msg.to \in Int
  BY <1>1, RoutedIs DEF RoutesInv, Ids, MaintOK, RoutedOK, AckOK
<1>3. CASE a \in msgs
  <2>1. a.id < nextId[a.to].ack
    BY <1>3 DEF IdsInv
  <2>2. ~Fresh(a.to, e.msg)
    BY <1>2, <1>3, <2>1 DEF Fresh
  <2>3. PICK f \in maint[a.to] : f.msg = e.msg
    BY <1>1, <2>2 DEF MaintFresh
  <2>4. Further(fate, maint, p, e.msg.to)
    BY <1>3, <2>3 DEF AcksInv
  <2>5. Sent(msgs, maint, p)
    BY <1>1, <2>3 DEF Sent
  <2> QED BY <1>2, <2>4, <2>5 DEF FurtherStays
<1>4. CASE NewAck(a)
  <2>1. PICK m \in msgs : /\ m.type = "routed" /\ m.ack # 0 /\ a.to = Sender(m)
                          /\ a.id = m.ack
                          /\ \A q \in world.packets :
                                Carries(m, q) => Further(fate', maint', q, m.to)
    BY <1>4 DEF NewAck
  <2>2. m.ack < nextId[a.to].ack /\ \A f \in maint[a.to] : f.msg.ack = m.ack => f.msg = m
    BY <2>1 DEF IdsInv
  <2>3. ~Fresh(a.to, e.msg)
    BY <1>2, <2>1, <2>2 DEF Fresh
  <2>4. PICK f \in maint[a.to] : f.msg = e.msg
    BY <1>1, <2>3 DEF MaintFresh
  <2>5. e.msg = m
    BY <2>1, <2>2, <2>4
  <2> QED BY <2>1, <2>5
<1>5. a.type # "rreq" /\ a.type # "routed"
  OBVIOUS
<1> QED BY <1>3, <1>4, <1>5 DEF MsgsFresh

-----------------------------------------------------------------------------
(* Somebody answers for a packet. *)

Waits(p) == fate[p] \in {"on the way", "given up"}

Held(p) == \E n \in Node : Holds(n, p)

Kept == \A p \in world.packets : Waits(p) => Held(p)

KeptStep ==
    \A p \in world.packets : Waits(p)' => Held(p)' \/ (Waits(p) /\ (Held(p) => Held(p)'))

AllKept == IdsInv /\ AcksInv /\ Kept

\* The maintenance buffers lose no message.
MaintKeeps == \A n \in Node : \A e \in maint[n] : \E f \in maint'[n] : f.msg = e.msg

LEMMA AllStep ==
    ASSUME RoutesInv, RoutesInv', world' = world, AllKept, NextGrows, MaintFresh,
           MsgsFresh, FurtherStays, KeptStep
    PROVE  AllKept'
<1>1. IdsInv' /\ AcksInv'
  BY IdsStep, AcksStep DEF AllKept
<1>2. Kept'
  BY DEF AllKept, Kept, KeptStep
<1> QED BY <1>1, <1>2 DEF AllKept

LEMMA FurtherKept ==
    ASSUME MaintKeeps,
           \A p \in world.packets : Sent(msgs, maint, p) /\ fate[p] \in {"delivered", "lost"} =>
               fate'[p] \in {"delivered", "lost"}
    PROVE  FurtherStays
<1> SUFFICES ASSUME NEW p \in world.packets, Sent(msgs, maint, p), NEW i \in Int,
                    Further(fate, maint, p, i)
             PROVE  Further(fate', maint', p, i)
  BY DEF FurtherStays
<1>1. CASE fate[p] \in {"delivered", "lost"}
  BY <1>1 DEF Further
<1>2. CASE \E n \in Node : \E e \in maint[n] : Carries(e.msg, p) /\ e.msg.to > i
  BY <1>2 DEF Further, MaintKeeps
<1> QED BY <1>1, <1>2 DEF Further

LEMMA HeldKept ==
    ASSUME MaintKeeps, world' = world, NEW p,
           \A n \in Node : p \in sendbuf[n] => p \in sendbuf'[n],
           \A t \in world.threads : Buffering(jobs[t], p) => jobs'[t] = jobs[t],
           Held(p)
    PROVE  Held(p)'
<1>1. PICK n \in Node : Holds(n, p)
  BY DEF Held
<1>2. CASE p \in sendbuf[n]
  BY <1>2 DEF Held, Holds
<1>3. CASE \E e \in maint[n] : e.msg.kind = "data" /\ e.msg.load = p
  <2>1. \E e \in maint'[n] : e.msg.kind = "data" /\ e.msg.load = p
    BY <1>3 DEF MaintKeeps
  <2> QED BY <2>1 DEF Held, Holds
<1>4. CASE \E t \in world.threads : jobs[t] # Idle /\ jobs[t].at = n
                         /\ jobs[t].do = "buffer" /\ jobs[t].arg = p
  <2>1. PICK t \in world.threads : jobs[t] # Idle /\ jobs[t].at = n
                         /\ jobs[t].do = "buffer" /\ jobs[t].arg = p
    BY <1>4
  <2>2. jobs'[t] = jobs[t] /\ world'.threads = world.threads
    BY <2>1 DEF Buffering
  <2> QED BY <2>1, <2>2 DEF Held, Holds
<1> QED BY <1>1, <1>2, <1>3, <1>4 DEF Holds

LEMMA ShrinksFresh ==
    ASSUME MaintShrinks
    PROVE  MaintFresh
BY DEF MaintShrinks, MaintFresh

LEMMA SameNext ==
    ASSUME RoutesInv, \A n \in Node : nextId'[n].ack = nextId[n].ack
    PROVE  NextGrows
BY DEF RoutesInv, Ids, NextGrows

JobsKeep ==
    \A t \in world.threads : \A p : Buffering(jobs[t], p) => jobs'[t] = jobs[t]

\* Nobody passes a packet on.
LEMMA IdleKept ==
    ASSUME RoutesInv, RoutesInv', world' = world, AllKept, UNCHANGED <<fate, sendbuf>>,
           \A n \in Node : nextId'[n].ack = nextId[n].ack, MaintKeeps, MaintShrinks,
           MsgsFresh, JobsKeep
    PROVE  AllKept'
<1>1. NextGrows /\ MaintFresh
  BY SameNext, ShrinksFresh
<1>2. FurtherStays
  BY FurtherKept
<1>3. KeptStep
  BY HeldKept DEF KeptStep, Waits, JobsKeep
<1> QED BY <1>1, <1>2, <1>3, AllStep

LEMMA SameMaint ==
    ASSUME maint' = maint
    PROVE  MaintKeeps /\ MaintShrinks
BY DEF MaintKeeps, MaintShrinks

LEMMA SameMsgs ==
    ASSUME msgs' = msgs
    PROVE  MsgsFresh
BY DEF MsgsFresh

\* A thread that is not buffering a packet does something.
LEMMA JobChanges ==
    ASSUME RoutesInv, NEW t \in world.threads, jobs[t].do # "buffer", NEW j,
           jobs' = [jobs EXCEPT ![t] = j]
    PROVE  JobsKeep
BY DEF JobsKeep, Buffering, RoutesInv, JobsOK

LEMMA JobsSame ==
    ASSUME jobs' = jobs
    PROVE  JobsKeep
BY DEF JobsKeep

\* Message m of node n goes under maintenance.
Maintained(n, m, acks) ==
    /\ NextGrows /\ MaintFresh /\ MaintKeeps
    /\ \E e \in maint'[n] : e.msg = m
    /\ msgs' = msgs \cup {m} \cup acks

LEMMA MaintainFresh ==
    ASSUME RoutesInv, IdsInv, NEW n \in Node, NEW kind, NEW load, NEW route, NEW to,
           NEW own, NEW acks, Maintain(n, kind, load, route, to, own, acks),
           NEW m, m = Routed(kind, load, route, to, nextId[n].ack), Sender(m) = n
    PROVE  Maintained(n, m, acks)
<1> DEFINE e == Element(m, 0, own)
<1>1. /\ nextId' = [nextId EXCEPT ![n].ack = @ + 1]
      /\ maint' = [maint EXCEPT ![n] = @ \cup {e}]
      /\ msgs' = msgs \cup {m} \cup acks
  BY DEF Maintain
<1>2. m.ack = nextId[n].ack
  BY RoutedFields
<1>3. e.msg = m
  BY ElementFields
<1> HIDE DEF e
<1>4. DOMAIN maint = Node
  BY DEF RoutesInv, MaintOK
<1>5. /\ nextId[n].ack \in Nat \ {0} /\ nextId'[n].ack = nextId[n].ack + 1
      /\ \A k \in Node : k # n => nextId'[k] = nextId[k]
  BY <1>1, NextAck
<1>6. \A k \in Node : nextId[k].ack \in Nat
  BY DEF RoutesInv, Ids
<1>7. NextGrows
  BY <1>5, <1>6 DEF NextGrows
<1>8. MaintKeeps
  BY <1>1, <1>4 DEF MaintKeeps
<1>9. /\ maint'[n] = maint[n] \cup {e}
      /\ \A k \in Node : k # n => maint'[k] = maint[k]
  BY <1>1, <1>4
<1>10. Fresh(n, m)
  BY <1>2, <1>5 DEF Fresh
<1>11. \A f \in maint[n] : f.msg.ack # m.ack
  <2>1. \A f \in maint[n] : f.msg.ack < nextId[n].ack /\ f.msg.ack \in Nat
    BY DEF IdsInv, RoutesInv, MaintOK, RoutedOK
  <2> QED BY <1>2, <1>5, <2>1
<1>12. MaintFresh
  BY <1>3, <1>9, <1>10, <1>11 DEF MaintFresh
<1> QED BY <1>1, <1>3, <1>7, <1>8, <1>9, <1>12 DEF Maintained

LEMMA SendPacketKept ==
    ASSUME RoutesInv, RoutesInv', PlacesInv, world' = world, AllKept,
           NEW p \in world.packets, SendPacket(p)
    PROVE  AllKept'
<1> DEFINE n == p[1]
           route == cache[n][p[2]]
           own == TRUE
           acks == {}
           m == Routed("data", p, route, 2, nextId[n].ack)
<1>1. /\ fate[p] = "host" /\ route # <<>>
      /\ Maintain(n, "data", p, route, 2, own, acks)
      /\ fate' = [fate EXCEPT ![p] = "on the way"] /\ UNCHANGED <<sendbuf, jobs>>
  BY DEF SendPacket
<1>2. n \in Node /\ p[2] \in Node
  BY WorldTypes DEF RoutesInv
<1>3. Path(world, route) /\ Head(route) = n
  BY <1>1, <1>2 DEF RoutesInv, CacheOK, PathTo
<1>4. route[1] = n
  BY <1>3, PathNodes
<1>5. m.type = "routed" /\ m.kind = "data" /\ m.load = p /\ m.route = route /\ m.to = 2
  BY RoutedFields
<1>6. m = Routed("data", p, route, 2, nextId[n].ack)
  OBVIOUS
<1> HIDE DEF n, route, own, acks, m
<1>7. Sender(m) = n
  BY <1>4, <1>5 DEF Sender
<1>8. /\ NextGrows /\ MaintFresh /\ MaintKeeps
      /\ \E e \in maint'[n] : e.msg = m
      /\ msgs' = msgs \cup {m} \cup acks
  <2>1. IdsInv
    BY DEF AllKept
  <2>2. Maintained(n, m, acks)
    BY <1>1, <1>2, <1>6, <1>7, <2>1, MaintainFresh
  <2> QED BY <2>2 DEF Maintained
<1>9. MsgsFresh
  BY <1>2, <1>5, <1>8 DEF MsgsFresh, acks
<1>10. DOMAIN fate = world.packets
  BY DEF PlacesInv
<1>11. FurtherStays
  BY <1>1, <1>8, <1>10, FurtherKept
<1>12. Held(p)'
  BY <1>2, <1>5, <1>8 DEF Held, Holds
<1>13. ASSUME NEW q \in world.packets, q # p, Waits(q)'
       PROVE  Waits(q) /\ (Held(q) => Held(q)')
  <2>1. Waits(q)
    BY <1>1, <1>10, <1>13 DEF Waits
  <2> QED BY <1>1, <1>8, <2>1, HeldKept
<1>14. KeptStep
  BY <1>12, <1>13 DEF KeptStep
<1> QED BY <1>8, <1>9, <1>11, <1>14, AllStep

LEMMA MissPathKept ==
    ASSUME RoutesInv, RoutesInv', PlacesInv, world' = world, AllKept,
           NEW t \in world.threads, NEW p \in world.packets, MissPath(t, p)
    PROVE  AllKept'
<1> DEFINE j == Job(p[1], "buffer", p)
<1>1. /\ jobs[t] = Idle /\ jobs' = [jobs EXCEPT ![t] = j]
      /\ fate[p] = "host" /\ fate' = [fate EXCEPT ![p] = "on the way"]
      /\ UNCHANGED <<sendbuf, maint, nextId, msgs>>
  BY DEF MissPath, tables
<1>2. p[1] \in Node
  BY WorldTypes DEF RoutesInv
<1>3. j # Idle /\ j.at = p[1] /\ j.do = "buffer" /\ j.arg = p
  BY JobFields
<1> HIDE DEF j
<1>4. jobs'[t] = j /\ world'.threads = world.threads
  BY <1>1 DEF RoutesInv, JobsOK
<1>5. JobsKeep
  <2>1. jobs[t].do # "buffer"
    <3>1. jobs[t] = Idle
      BY <1>1
    <3> QED BY <3>1 DEF Idle
  <2> QED BY <1>1, <2>1, JobChanges
<1>6. NextGrows /\ MaintFresh /\ MsgsFresh /\ MaintKeeps
  BY <1>1, SameNext, SameMaint, ShrinksFresh, SameMsgs
<1>7. DOMAIN fate = world.packets
  BY DEF PlacesInv
<1>8. FurtherStays
  BY <1>1, <1>6, <1>7, FurtherKept
<1>9. Held(p)'
  BY <1>2, <1>3, <1>4 DEF Held, Holds
<1>10. ASSUME NEW q \in world.packets, q # p, Waits(q)'
       PROVE  Waits(q) /\ (Held(q) => Held(q)')
  <2>1. Waits(q)
    BY <1>1, <1>7, <1>10 DEF Waits
  <2> QED BY <1>1, <1>5, <1>6, <2>1, HeldKept DEF JobsKeep
<1>11. KeptStep
  BY <1>9, <1>10 DEF KeptStep
<1> QED BY <1>6, <1>8, <1>11, AllStep

LEMMA BufferPacketKept ==
    ASSUME RoutesInv, RoutesInv', world' = world, AllKept, NEW t \in world.threads,
           BufferPacket(t)
    PROVE  AllKept'
<1>0. PICK n, p : n = jobs[t].at /\ p = jobs[t].arg
  OBVIOUS
<1>1. /\ jobs[t].do = "buffer"
      /\ sendbuf' = [sendbuf EXCEPT ![n] = @ \cup {p}]
      /\ jobs' = [jobs EXCEPT ![t] = Job(n, "discover", p[2])]
      /\ UNCHANGED <<fate, maint, nextId, msgs>>
  BY <1>0 DEF BufferPacket, history
<1>2. n \in Node
  BY <1>0, <1>1, JobIs
<1>3. sendbuf \in [Node -> SUBSET Packet]
  BY DEF RoutesInv, SendbufOK
<1>4. NextGrows /\ MaintFresh /\ MsgsFresh /\ MaintKeeps
  BY <1>1, SameNext, SameMaint, ShrinksFresh, SameMsgs
<1>5. FurtherStays
  BY <1>1, <1>4, FurtherKept
<1>6. Held(p)'
  BY <1>1, <1>2, <1>3 DEF Held, Holds
<1>7. ASSUME NEW q \in world.packets, q # p, Waits(q)'
      PROVE  Waits(q) /\ (Held(q) => Held(q)')
  <2>1. Waits(q)
    BY <1>1, <1>7 DEF Waits
  <2>2. \A u \in world.threads : Buffering(jobs[u], q) => jobs'[u] = jobs[u]
    BY <1>0, <1>1, <1>7 DEF Buffering, RoutesInv, JobsOK
  <2>3. \A k \in Node : q \in sendbuf[k] => q \in sendbuf'[k]
    BY <1>1, <1>3
  <2> QED BY <1>4, <2>1, <2>2, <2>3, HeldKept
<1>8. KeptStep
  BY <1>6, <1>7 DEF KeptStep
<1> QED BY <1>4, <1>5, <1>8, AllStep

LEMMA FlushKept ==
    ASSUME RoutesInv, RoutesInv', world' = world, AllKept, NEW t \in world.threads,
           Flush(t), cache[jobs[t].at][Target(jobs[t].arg)] # <<>>
    PROVE  AllKept'
<1>0. PICK n, d, r : n = jobs[t].at /\ d = Target(jobs[t].arg) /\ r = jobs[t].arg
  OBVIOUS
<1>1. jobs[t].do = "flush"
  BY DEF Flush
<1>2. n \in Node /\ d \in Node /\ r \in msgs /\ r.type = "routed" /\ r.kind = "repl"
  BY <1>0, <1>1, ReplJob DEF RoutedOK
<1>3. Emptied(t, n, d)
  BY <1>0, Flushed
<1>4. /\ nextId' \in [Node -> Ids] /\ nextId[n].ack <= nextId'[n].ack
      /\ \A k \in Node : k # n => nextId'[k] = nextId[k] /\ maint'[k] = maint[k]
      /\ sendbuf' = [sendbuf EXCEPT ![n] = @ \ Waiting(n, d)]
      /\ jobs' = [jobs EXCEPT ![t] = Idle]
      /\ msgs' = msgs \cup Acks(n, r)
      /\ fate' = fate /\ maint[n] \subseteq maint'[n]
  BY <1>0, <1>3 DEF Emptied, history
<1>5. PICK id :
         /\ \A p \in Waiting(n, d) :
               /\ id[p] \in Nat /\ nextId[n].ack <= id[p] /\ id[p] < nextId'[n].ack
               /\ \A q \in Waiting(n, d) : id[p] = id[q] => p = q
               /\ \E e \in maint'[n] : e.msg = First(n, d, p, id[p])
         /\ \A e \in maint'[n] :
               e \in maint[n] \/ \E p \in Waiting(n, d) : e.msg = First(n, d, p, id[p])
  BY <1>3 DEF Emptied
<1>6. NextGrows
  BY <1>4 DEF NextGrows, RoutesInv, Ids
<1>7. cache[n][d][1] = n
  <2>1. Path(world, cache[n][d]) /\ Head(cache[n][d]) = n
    BY <1>0, <1>2 DEF RoutesInv, CacheOK, PathTo
  <2> QED BY <2>1, PathNodes
<1>8. MaintKeeps
  BY <1>4 DEF MaintKeeps
<1>9. ASSUME NEW e \in maint'[n], e \notin maint[n]
      PROVE  Fresh(n, e.msg) /\ \A f \in maint'[n] : f.msg.ack = e.msg.ack => f.msg = e.msg
  <2>1. PICK p \in Waiting(n, d) : e.msg = First(n, d, p, id[p])
    BY <1>5, <1>9
  <2>2. e.msg.route = cache[n][d] /\ e.msg.to = 2 /\ e.msg.ack = id[p]
    BY <2>1, FirstFields
  <2>3. Fresh(n, e.msg)
    BY <1>5, <1>7, <2>2 DEF Fresh, Sender
  <2>4. ASSUME NEW f \in maint'[n], f.msg.ack = e.msg.ack PROVE f.msg = e.msg
    <3>1. CASE f \in maint[n]
      <4>1. f.msg.ack \in Nat /\ f.msg.ack < nextId[n].ack
        BY <1>2, <3>1 DEF AllKept, IdsInv, RoutesInv, MaintOK, RoutedOK
      <4>2. nextId[n].ack \in Nat /\ nextId[n].ack <= e.msg.ack /\ e.msg.ack \in Nat
        BY <1>2, <1>5, <2>2 DEF RoutesInv, Ids
      <4> QED BY <2>4, <4>1, <4>2
    <3>2. CASE f \notin maint[n]
      <4>1. PICK q \in Waiting(n, d) : f.msg = First(n, d, q, id[q])
        BY <1>5, <3>2
      <4>2. f.msg.ack = id[q]
        BY <4>1, FirstFields
      <4>3. p = q
        BY <1>5, <2>2, <2>4, <4>2
      <4> QED BY <2>1, <4>1, <4>3
    <3> QED BY <3>1, <3>2
  <2> QED BY <2>3, <2>4
<1>10. MaintFresh
  BY <1>4, <1>9 DEF MaintFresh
<1>11. ASSUME NEW a \in Acks(n, r) PROVE NewAck(a)
  <2>1. a.type = "ack" /\ a.to = Sender(r) /\ a.id = r.ack /\ r.ack # 0
    BY AcksAre
  <2>2. \A p : ~Carries(r, p)
    BY <1>2 DEF Carries
  <2> QED BY <1>2, <2>1, <2>2 DEF NewAck
<1>12. MsgsFresh
  BY <1>4, <1>11 DEF MsgsFresh
<1>13. FurtherStays
  BY <1>4, <1>8, FurtherKept
<1>14. ASSUME NEW p \in world.packets, Waits(p)'
       PROVE  Held(p)' \/ (Waits(p) /\ (Held(p) => Held(p)'))
  <2>1. CASE p \in Waiting(n, d)
    <3>1. PICK e \in maint'[n] : e.msg = First(n, d, p, id[p])
      BY <1>5, <2>1
    <3>2. e.msg.kind = "data" /\ e.msg.load = p
      BY <3>1, FirstFields
    <3> QED BY <1>2, <3>2 DEF Held, Holds
  <2>2. CASE p \notin Waiting(n, d)
    <3>1. \A k \in Node : p \in sendbuf[k] => p \in sendbuf'[k]
      BY <1>4, <2>2 DEF RoutesInv, SendbufOK
    <3>2. \A u \in world.threads : Buffering(jobs[u], p) => jobs'[u] = jobs[u]
      BY <1>1, <1>4 DEF Buffering, RoutesInv, JobsOK
    <3>3. Waits(p)
      BY <1>4, <1>14 DEF Waits
    <3> QED BY <1>8, <3>1, <3>2, <3>3, HeldKept
  <2> QED BY <2>1, <2>2
<1>15. KeptStep
  BY <1>14 DEF KeptStep
<1> QED BY <1>6, <1>10, <1>12, <1>13, <1>15, AllStep

LEMMA ForwardKept ==
    ASSUME RoutesInv, RoutesInv', world' = world, AllKept, NEW n \in Node, NEW m \in msgs,
           Forward(n, m)
    PROVE  AllKept'
<1> DEFINE own == FALSE
           to == m.to + 1
           acks == Acks(n, m)
           f == Onward(n, m)
<1>1. /\ m.type = "routed" /\ NextHop(m) = n
      /\ Maintain(n, m.kind, m.load, m.route, to, own, acks)
      /\ UNCHANGED <<fate, sendbuf, jobs>>
  BY DEF Forward, history
<1>2. m.to \in Int
  BY <1>1, RoutedIs DEF RoutedOK
<1>3. /\ f.type = "routed" /\ f.kind = m.kind /\ f.load = m.load /\ f.route = m.route
      /\ f.to = m.to + 1 /\ f = Routed(m.kind, m.load, m.route, to, nextId[n].ack)
  BY OnwardFields DEF Onward
<1> HIDE DEF own, to, acks, f
<1>4. Sender(f) = n
  <2>1. f.to - 1 = m.to
    BY <1>2, <1>3
  <2> QED BY <1>1, <1>3, <2>1 DEF Sender, NextHop
<1>5. IdsInv
  BY DEF AllKept
<1>6. Maintained(n, f, acks)
  BY <1>1, <1>3, <1>4, <1>5, MaintainFresh
<1>7. /\ NextGrows /\ MaintFresh /\ MaintKeeps
      /\ \E e \in maint'[n] : e.msg = f
      /\ msgs' = msgs \cup {f} \cup acks
  BY <1>6 DEF Maintained
<1>8. ASSUME NEW p, Carries(m, p) PROVE Further(fate', maint', p, m.to)
  <2>1. Carries(f, p) /\ f.to > m.to
    BY <1>2, <1>3, <1>8 DEF Carries
  <2> QED BY <1>7, <2>1 DEF Further
<1>9. ASSUME NEW a \in acks PROVE NewAck(a)
  <2>1. a.type = "ack" /\ a.to = Sender(m) /\ a.id = m.ack /\ m.ack # 0
    BY AcksAre DEF acks
  <2> QED BY <1>1, <1>8, <2>1 DEF NewAck
<1>10. MsgsFresh
  BY <1>3, <1>7, <1>9 DEF MsgsFresh
<1>11. FurtherStays
  BY <1>1, <1>7, FurtherKept
<1>12. KeptStep
  BY <1>1, <1>7, HeldKept DEF KeptStep, Waits
<1> QED BY <1>7, <1>10, <1>11, <1>12, AllStep

LEMMA ArriveKept ==
    ASSUME RoutesInv, RoutesInv', PlacesInv, world' = world, AllKept, NEW n \in Node,
           NEW m \in msgs, Arrive(n, m)
    PROVE  AllKept'
<1>1. /\ m.type = "routed" /\ msgs' = msgs \cup Acks(n, m)
      /\ UNCHANGED <<sendbuf, maint, nextId, jobs>>
      /\ fate' = IF m.kind = "data" THEN [fate EXCEPT ![m.load] = "delivered"] ELSE fate
  BY DEF Arrive
<1>2. DOMAIN fate = world.packets
  BY DEF PlacesInv
<1>3. NextGrows /\ MaintFresh /\ MaintKeeps
  BY <1>1, SameNext, SameMaint, ShrinksFresh
<1>4. ASSUME NEW p \in world.packets, Carries(m, p) PROVE Further(fate', maint', p, m.to)
  <2>1. fate'[p] = "delivered"
    BY <1>1, <1>2, <1>4 DEF Carries
  <2> QED BY <2>1 DEF Further
<1>5. ASSUME NEW a \in Acks(n, m) PROVE NewAck(a)
  <2>1. a.type = "ack" /\ a.to = Sender(m) /\ a.id = m.ack /\ m.ack # 0
    BY AcksAre
  <2> QED BY <1>1, <1>4, <2>1 DEF NewAck
<1>6. MsgsFresh
  BY <1>1, <1>5 DEF MsgsFresh
<1>7. \A p \in world.packets : fate'[p] = fate[p] \/ fate'[p] = "delivered"
  BY <1>1, <1>2
<1>8. FurtherStays
  BY <1>3, <1>7, FurtherKept
<1>9. ASSUME NEW p \in world.packets, Waits(p)' PROVE Waits(p) /\ (Held(p) => Held(p)')
  <2>1. Waits(p)
    BY <1>7, <1>9 DEF Waits
  <2> QED BY <1>1, <1>3, <2>1, HeldKept
<1>10. KeptStep
  BY <1>9 DEF KeptStep
<1> QED BY <1>3, <1>6, <1>8, <1>10, AllStep


LEMMA HandleAckKept ==
    ASSUME RoutesInv, RoutesInv', world' = world, AllKept, NEW n \in Node, NEW m \in msgs,
           HandleAck(n, m)
    PROVE  AllKept'
<1>1. /\ m.type = "ack" /\ m.to = n
      /\ maint' = [maint EXCEPT ![n] = {e \in @ : e.msg.ack # m.id}]
      /\ UNCHANGED <<fate, sendbuf, nextId, jobs, msgs>>
  BY DEF HandleAck, history
<1>2. /\ maint'[n] = {e \in maint[n] : e.msg.ack # m.id}
      /\ \A k \in Node : k # n => maint'[k] = maint[k]
  BY <1>1 DEF RoutesInv, MaintOK
<1>3. MaintShrinks
  BY <1>2 DEF MaintShrinks
<1>4. NextGrows /\ MaintFresh /\ MsgsFresh
  BY <1>1, <1>3, SameNext, ShrinksFresh, SameMsgs
<1>5. \A k \in Node : \A e \in maint[k] : e.msg.to \in Int
  BY DEF RoutesInv, MaintOK, RoutedOK
\* The packet of an element that goes is done with or further along.
<1>6. ASSUME NEW p \in world.packets, NEW e \in maint[n], e.msg.ack = m.id,
             Carries(e.msg, p)
      PROVE  \/ fate[p] \in {"delivered", "lost"}
             \/ \E k \in Node : \E f \in maint'[k] : Carries(f.msg, p) /\ f.msg.to > e.msg.to
  <2>1. Further(fate, maint, p, e.msg.to)
    BY <1>1, <1>6 DEF AllKept, AcksInv
  <2>2. ASSUME NEW k \in Node, NEW f \in maint[k], Carries(f.msg, p), f.msg.to > e.msg.to
        PROVE  f \in maint'[k]
    <3>1. CASE k # n
      BY <1>2, <3>1
    <3>2. CASE k = n
      <4>1. f.msg.ack = m.id => f.msg = e.msg
        BY <1>6, <3>2 DEF AllKept, IdsInv
      <4>2. f.msg # e.msg
        BY <1>5, <2>2
      <4> QED BY <1>2, <3>2, <4>1, <4>2
    <3> QED BY <3>1, <3>2
  <2> QED BY <2>1, <2>2 DEF Further
<1>7. FurtherStays
  <2> SUFFICES ASSUME NEW p \in world.packets, NEW i \in Int, Further(fate, maint, p, i)
               PROVE  Further(fate', maint', p, i)
    BY DEF FurtherStays
  <2>1. CASE fate[p] \in {"delivered", "lost"}
    BY <1>1, <2>1 DEF Further
  <2>2. ASSUME NEW k \in Node, NEW e \in maint[k], Carries(e.msg, p), e.msg.to > i
        PROVE  Further(fate', maint', p, i)
    <3>1. CASE e \in maint'[k]
      BY <2>2, <3>1 DEF Further
    <3>2. CASE e \notin maint'[k]
      <4>1. k = n /\ e.msg.ack = m.id
        BY <1>2, <3>2
      <4>2. CASE fate[p] \in {"delivered", "lost"}
        BY <2>1, <4>2
      <4>3. ASSUME NEW h \in Node, NEW f \in maint'[h], Carries(f.msg, p),
                   f.msg.to > e.msg.to
            PROVE  Further(fate', maint', p, i)
        <5>1. f.msg.to \in Int
          BY DEF RoutesInv, MaintOK, RoutedOK
        <5>2. f.msg.to > i
          BY <1>5, <2>2, <4>3, <5>1
        <5> QED BY <4>3, <5>2 DEF Further
      <4> QED BY <1>6, <2>2, <4>1, <4>2, <4>3
    <3> QED BY <3>1, <3>2
  <2> QED BY <2>1, <2>2 DEF Further
<1>8. ASSUME NEW p \in world.packets, Waits(p)' PROVE Held(p)'
  <2>1. Waits(p) /\ Held(p) /\ fate[p] \notin {"delivered", "lost"}
    BY <1>1, <1>8 DEF Waits, AllKept, Kept
  <2>2. PICK k \in Node : Holds(k, p)
    BY <2>1 DEF Held
  <2>3. CASE \E e \in maint[k] : e.msg.kind = "data" /\ e.msg.load = p
    <3>1. PICK e \in maint[k] : e.msg.kind = "data" /\ e.msg.load = p
      BY <2>3
    <3>2. Carries(e.msg, p)
      BY <3>1 DEF Carries, RoutesInv, MaintOK, RoutedOK
    <3>3. CASE e \in maint'[k]
      BY <3>1, <3>3 DEF Held, Holds
    <3>4. CASE e \notin maint'[k]
      <4>1. k = n /\ e.msg.ack = m.id
        BY <1>2, <3>4
      <4>2. PICK h \in Node : \E f \in maint'[h] : Carries(f.msg, p)
        BY <1>6, <2>1, <3>2, <4>1
      <4> QED BY <4>2 DEF Held, Holds, Carries
    <3> QED BY <3>3, <3>4
  <2>4. CASE ~\E e \in maint[k] : e.msg.kind = "data" /\ e.msg.load = p
    BY <1>1, <2>2, <2>4 DEF Held, Holds
  <2> QED BY <2>3, <2>4
<1>9. KeptStep
  BY <1>8 DEF KeptStep
<1> QED BY <1>4, <1>7, <1>9, AllStep

LEMMA LinkErrorKept ==
    ASSUME RoutesInv, RoutesInv', PlacesInv, world' = world, AllKept, NEW n \in Node,
           NEW e \in maint[n], LinkError(n, e)
    PROVE  AllKept'
<1> DEFINE gone == {x \in maint[n] : NextHop(x.msg) = NextHop(e.msg)}
           Taken(p) == \E x \in gone : x.msg.kind = "data" /\ x.msg.load = p
<1>1. /\ maint' = [maint EXCEPT ![n] = @ \ gone]
      /\ msgs' = msgs \cup Report(n, e)
      /\ fate' = [p \in world.packets |->
                    IF fate[p] # "delivered" /\ Taken(p) THEN "lost" ELSE fate[p]]
      /\ UNCHANGED <<sendbuf, nextId, jobs>>
  BY DEF LinkError
<1>2. gone \subseteq maint[n]
  OBVIOUS
<1>3. \A p : Taken(p) <=> \E x \in gone : x.msg.kind = "data" /\ x.msg.load = p
  OBVIOUS
<1> HIDE DEF gone, Taken
<1>4. maint'[n] = maint[n] \ gone /\ \A k \in Node : k # n => maint'[k] = maint[k]
  BY <1>1 DEF RoutesInv, MaintOK
<1>5. MaintShrinks
  BY <1>4 DEF MaintShrinks
<1>6. NextGrows /\ MaintFresh
  BY <1>1, <1>5, SameNext, ShrinksFresh
<1>7. MsgsFresh
  BY <1>1, ReportIs DEF MsgsFresh
<1>8. ASSUME NEW p \in world.packets, NEW k \in Node, NEW x \in maint[k],
             x.msg.kind = "data", x.msg.load = p, x \notin maint'[k]
      PROVE  fate'[p] \in {"delivered", "lost"}
  <2>1. Taken(p)
    BY <1>3, <1>4, <1>8
  <2> QED BY <1>1, <2>1
<1>9. ASSUME NEW p \in world.packets PROVE fate'[p] \in {fate[p], "lost"}
  BY <1>1
<1>10. ASSUME NEW p \in world.packets, fate[p] \in {"delivered", "lost"}
       PROVE  fate'[p] \in {"delivered", "lost"}
  BY <1>9, <1>10
<1>11. FurtherStays
  <2> SUFFICES ASSUME NEW p \in world.packets, NEW i \in Int, Further(fate, maint, p, i)
               PROVE  Further(fate', maint', p, i)
    BY DEF FurtherStays
  <2>1. CASE fate[p] \in {"delivered", "lost"}
    BY <1>10, <2>1 DEF Further
  <2>2. ASSUME NEW k \in Node, NEW x \in maint[k], Carries(x.msg, p), x.msg.to > i
        PROVE  Further(fate', maint', p, i)
    <3>1. CASE x \in maint'[k]
      BY <2>2, <3>1 DEF Further
    <3>2. CASE x \notin maint'[k]
      BY <1>8, <2>2, <3>2 DEF Further, Carries
    <3> QED BY <3>1, <3>2
  <2> QED BY <2>1, <2>2 DEF Further
<1>12. ASSUME NEW p \in world.packets, Waits(p)' PROVE Held(p)'
  <2>1. fate'[p] \notin {"delivered", "lost"}
    BY <1>12 DEF Waits
  <2>2. Waits(p) /\ Held(p)
    BY <1>9, <1>12, <2>1 DEF Waits, AllKept, Kept
  <2>3. PICK k \in Node : Holds(k, p)
    BY <2>2 DEF Held
  <2>4. CASE \E x \in maint[k] : x.msg.kind = "data" /\ x.msg.load = p
    BY <1>8, <2>1, <2>4 DEF Held, Holds
  <2>5. CASE ~\E x \in maint[k] : x.msg.kind = "data" /\ x.msg.load = p
    BY <1>1, <2>3, <2>5 DEF Held, Holds
  <2> QED BY <2>4, <2>5
<1>13. KeptStep
  BY <1>12 DEF KeptStep
<1> QED BY <1>6, <1>7, <1>11, <1>13, AllStep

\* A packet in a send buffer was not sent, so that nobody is further with it.
LEMMA ExpireKept ==
    ASSUME RoutesInv, RoutesInv', PlacesInv, world' = world, AllKept, NEW n \in Node,
           NEW p \in world.packets, Expire(n, p)
    PROVE  AllKept'
<1>1. /\ p \in sendbuf[n] /\ sendbuf' = [sendbuf EXCEPT ![n] = @ \ {p}]
      /\ fate' = [fate EXCEPT ![p] = "expired"]
      /\ UNCHANGED <<maint, nextId, jobs, msgs>>
  BY DEF Expire
<1>2. NextGrows /\ MaintFresh /\ MaintKeeps /\ MsgsFresh
  BY <1>1, SameNext, SameMaint, ShrinksFresh, SameMsgs
<1>3. DOMAIN fate = world.packets /\ ~Sent(msgs, maint, p)
  BY <1>1 DEF PlacesInv, PlaceOK
<1>4. fate'[p] = "expired" /\ \A q \in world.packets : q # p => fate'[q] = fate[q]
  BY <1>1, <1>3
<1>5. FurtherStays
  BY <1>2, <1>3, <1>4, FurtherKept
<1>6. ASSUME NEW q \in world.packets, Waits(q)' PROVE Waits(q) /\ (Held(q) => Held(q)')
  <2>1. q # p /\ Waits(q)
    BY <1>4, <1>6 DEF Waits
  <2>2. \A k \in Node : q \in sendbuf[k] => q \in sendbuf'[k]
    BY <1>1, <2>1 DEF RoutesInv, SendbufOK
  <2> QED BY <1>1, <1>2, <2>1, <2>2, HeldKept
<1>7. KeptStep
  BY <1>6 DEF KeptStep
<1> QED BY <1>2, <1>5, <1>7, AllStep

LEMMA GiveUpKept ==
    ASSUME RoutesInv, RoutesInv', PlacesInv, world' = world, AllKept, NEW n \in Node,
           NEW d \in Node, GiveUp(n, d)
    PROVE  AllKept'
<1>1. /\ fate' = [p \in world.packets |->
                    IF p \in sendbuf[n] /\ p[2] = d THEN "given up" ELSE fate[p]]
      /\ UNCHANGED <<sendbuf, maint, nextId, jobs, msgs>>
  BY DEF GiveUp
<1>2. NextGrows /\ MaintFresh /\ MaintKeeps /\ MsgsFresh
  BY <1>1, SameNext, SameMaint, ShrinksFresh, SameMsgs
<1>3. ASSUME NEW p \in world.packets, Sent(msgs, maint, p) PROVE fate'[p] = fate[p]
  <2>1. p \notin sendbuf[n]
    BY <1>3 DEF PlacesInv, PlaceOK
  <2> QED BY <1>1, <2>1
<1>4. FurtherStays
  BY <1>2, <1>3, FurtherKept
<1>5. ASSUME NEW p \in world.packets, Waits(p)'
      PROVE  Held(p)' \/ (Waits(p) /\ (Held(p) => Held(p)'))
  <2>1. CASE p \in sendbuf[n]
    BY <1>1, <2>1 DEF Held, Holds
  <2>2. CASE p \notin sendbuf[n]
    <3>1. Waits(p)
      BY <1>1, <1>5, <2>2 DEF Waits
    <3> QED BY <1>1, <1>2, <3>1, HeldKept
  <2> QED BY <2>1, <2>2
<1>6. KeptStep
  BY <1>5 DEF KeptStep
<1> QED BY <1>2, <1>4, <1>6, AllStep

LEMMA SendRreqFresh ==
    ASSUME RoutesInv, NEW n \in Node, NEW d \in Node, n # d, SendRreq(n, d)
    PROVE  MsgsFresh /\ \A k \in Node : nextId'[k].ack = nextId[k].ack
<1>1. /\ \A k \in Node : nextId'[k].ack = nextId[k].ack
      /\ \A m \in msgs' : m \in msgs \/
            (m.type = "rreq" /\ Head(m.route) = n /\ m.target = d)
  BY SendRreqRoutes
<1> QED BY <1>1 DEF MsgsFresh

LEMMA DiscoverKept ==
    ASSUME RoutesInv, RoutesInv', world' = world, AllKept, NEW t \in world.threads,
           Discover(t)
    PROVE  AllKept'
<1> PICK n, d : n = jobs[t].at /\ d = jobs[t].arg
  OBVIOUS
<1>1. /\ jobs[t].do = "discover" /\ jobs' = [jobs EXCEPT ![t] = Idle]
      /\ SendRreq(n, d) \/ (nextId' = nextId /\ msgs' = msgs)
      /\ UNCHANGED <<fate, sendbuf, maint>>
  BY DEF Discover, history
<1>2. jobs[t] # Idle
  BY <1>1 DEF Idle
<1>3. n \in Node /\ d \in Node /\ n # d
  BY <1>1, <1>2 DEF RoutesInv, JobsOK, JobOK
<1>4. MsgsFresh /\ \A k \in Node : nextId'[k].ack = nextId[k].ack
  BY <1>1, <1>3, SendRreqFresh, SameMsgs
<1>5. MaintKeeps /\ MaintShrinks
  BY <1>1, SameMaint
<1>6. JobsKeep
  BY <1>1, JobChanges
<1> QED BY <1>1, <1>4, <1>5, <1>6, IdleKept

LEMMA RetryKept ==
    ASSUME RoutesInv, RoutesInv', world' = world, AllKept, NEW n \in Node, NEW d \in Node,
           Retry(n, d)
    PROVE  AllKept'
<1>1. /\ reqs[n][d] > 0 /\ SendRreq(n, d)
      /\ UNCHANGED <<fate, sendbuf, maint, jobs>>
  BY DEF Retry, history
<1>2. n # d
  BY <1>1 DEF RoutesInv, ReqsOK
<1>3. MsgsFresh /\ \A k \in Node : nextId'[k].ack = nextId[k].ack
  BY <1>1, <1>2, SendRreqFresh
<1>4. MaintKeeps /\ MaintShrinks /\ JobsKeep
  BY <1>1, SameMaint, JobsSame
<1> QED BY <1>1, <1>3, <1>4, IdleKept

LEMMA PropagateKept ==
    ASSUME RoutesInv, RoutesInv', world' = world, AllKept, NEW t \in world.threads,
           Propagate(t)
    PROVE  AllKept'
<1> DEFINE s == SentOn(jobs[t].arg, jobs[t].at)
<1>1. /\ jobs[t].do = "propagate" /\ jobs' = [jobs EXCEPT ![t] = Idle]
      /\ msgs' = msgs \cup {s}
      /\ UNCHANGED <<fate, sendbuf, maint, nextId>>
  BY DEF Propagate, SentOn, history
<1>2. s.type = "rreq"
  BY RreqFields DEF SentOn
<1> HIDE DEF s
<1>3. MsgsFresh
  BY <1>1, <1>2 DEF MsgsFresh
<1>4. MaintKeeps /\ MaintShrinks
  BY <1>1, SameMaint
<1>5. JobsKeep
  BY <1>1, JobChanges
<1> QED BY <1>1, <1>3, <1>4, <1>5, IdleKept

LEMMA AnswerRreqKept ==
    ASSUME RoutesInv, RoutesInv', world' = world, AllKept, NEW n \in Node, NEW m \in msgs,
           AnswerRreq(n, m)
    PROVE  AllKept'
<1> DEFINE route == Append(m.route, n)
           r == Routed("repl", route, Reverse(route), 2, 0)
<1>1. msgs' = msgs \cup {r} /\ UNCHANGED <<fate, sendbuf, maint, nextId, jobs>>
  BY DEF AnswerRreq, tables, history
<1>2. r.type = "routed" /\ r.ack = 0
  BY RoutedFields
<1> HIDE DEF r
<1>3. MsgsFresh
  BY <1>1, <1>2 DEF MsgsFresh
<1>4. MaintKeeps /\ MaintShrinks /\ JobsKeep
  BY <1>1, SameMaint, JobsSame
<1> QED BY <1>1, <1>3, <1>4, IdleKept

LEMMA ResendKept ==
    ASSUME RoutesInv, RoutesInv', world' = world, AllKept, NEW n \in Node,
           NEW e \in maint[n], Resend(n, e)
    PROVE  AllKept'
<1>1. msgs' = msgs \cup {e.msg} /\ UNCHANGED <<fate, sendbuf, nextId, jobs>>
  BY DEF Resend, history
<1>2. /\ \A k \in Node : k # n => maint'[k] = maint[k]
      /\ \A x \in maint'[n] : \E y \in maint[n] : x.msg = y.msg
      /\ \A y \in maint[n] : \E x \in maint'[n] : x.msg = y.msg
  BY Resent
<1>3. MaintKeeps /\ MaintShrinks /\ JobsKeep
  BY <1>1, <1>2, JobsSame DEF MaintKeeps, MaintShrinks
<1>4. e.msg.type = "routed" /\ \E f \in maint'[n] : f.msg = e.msg
  BY <1>2 DEF RoutesInv, MaintOK, RoutedOK
<1>5. MsgsFresh
  BY <1>1, <1>4 DEF MsgsFresh
<1> QED BY <1>1, <1>3, <1>5, IdleKept

\* A thread goes on to the next part of its handler.
LEMMA HandlerKept ==
    ASSUME RoutesInv, RoutesInv', world' = world, AllKept, NEW t \in world.threads,
           \/ \E n \in Node, m \in msgs : CheckRreq(t, n, m) \/ CacheRepl(t, n, m)
           \/ GotRepl(t) /\ ~Abort(jobs[t].at)
    PROVE  AllKept'
<1>1. PICK j : /\ jobs' = [jobs EXCEPT ![t] = j]
               /\ jobs[t] = Idle \/ jobs[t].do = "reset"
               /\ UNCHANGED <<fate, sendbuf, maint, nextId, msgs>>
  <2>1. CASE \E n \in Node, m \in msgs : CheckRreq(t, n, m)
    BY <2>1 DEF CheckRreq, tables, history
  <2>2. CASE \E n \in Node, m \in msgs : CacheRepl(t, n, m)
    BY <2>2 DEF CacheRepl, history
  <2>3. CASE GotRepl(t) /\ ~Abort(jobs[t].at)
    BY <2>3 DEF GotRepl, history
  <2> QED BY <2>1, <2>2, <2>3
<1>2. Idle.do # "buffer"
  BY DEF Idle
<1>3. jobs[t].do # "buffer"
  BY <1>1, <1>2
<1>4. JobsKeep
  BY <1>1, <1>3, JobChanges
<1>5. MaintKeeps /\ MaintShrinks /\ MsgsFresh
  BY <1>1, SameMaint, SameMsgs
<1> QED BY <1>1, <1>4, <1>5, IdleKept

\* Steps that concern neither packets nor messages.
LEMMA ElseKept ==
    ASSUME RoutesInv, RoutesInv', world' = world, AllKept,
           UNCHANGED <<fate, sendbuf, maint, nextId, jobs, msgs>>
    PROVE  AllKept'
<1>1. MaintKeeps /\ MaintShrinks /\ MsgsFresh /\ JobsKeep
  BY SameMaint, SameMsgs, JobsSame
<1> QED BY <1>1, IdleKept

-----------------------------------------------------------------------------
(* No packet vanishes. *)

KeptInv == NoRestart => AllKept

IInv == RoutesInv /\ AbortInv /\ PlacesInv /\ BufferedHasDiscovery /\ KeptInv

StaysUp == aborted' = aborted /\ budget'.restart = budget.restart

LEMMA StepStaysUp ==
    ASSUME RoutesInv, BudgetInv, Step, ~\E n \in Node : Abort(n) \/ Restart(n)
    PROVE  StaysUp
<1>1. ASSUME NEW t \in world.threads, GotRepl(t) \/ Flush(t) PROVE StaysUp
  <2>1. jobs[t].at \in Node
    BY <1>1, ReplJob DEF GotRepl, Flush
  <2>2. ~Abort(jobs[t].at)
    BY <2>1
  <2> QED BY <1>1, <2>2 DEF StaysUp, GotRepl, Flush, history
<1>2. ASSUME NEW t \in world.threads,
             BufferPacket(t) \/ Discover(t) \/ Propagate(t)
      PROVE  StaysUp
  BY <1>2 DEF StaysUp, BufferPacket, Discover, Propagate, history
<1>3. ASSUME NEW p \in world.packets, SendPacket(p) PROVE StaysUp
  BY <1>3 DEF StaysUp, SendPacket
<1>4. ASSUME NEW p \in world.packets, NEW t \in world.threads, MissPath(t, p) PROVE StaysUp
  BY <1>4 DEF StaysUp, MissPath
<1>5. ASSUME NEW n \in Node, NEW m \in msgs,
             \/ AnswerRreq(n, m) \/ Forward(n, m) \/ Arrive(n, m)
             \/ OverhearRerr(n, m) \/ HandleAck(n, m)
      PROVE  StaysUp
  BY <1>5 DEF StaysUp, AnswerRreq, Forward, Arrive, OverhearRerr, HandleAck, history
<1>6. ASSUME NEW n \in Node, NEW m \in msgs, NEW t \in world.threads,
             CheckRreq(t, n, m) \/ CacheRepl(t, n, m)
      PROVE  StaysUp
  BY <1>6 DEF StaysUp, CheckRreq, CacheRepl, history
<1>7. ASSUME NEW n \in Node, NEW e \in maint[n], Resend(n, e) \/ LinkError(n, e)
      PROVE  StaysUp
  BY <1>7 DEF StaysUp, Resend, LinkError, history
<1>8. ASSUME NEW n \in Node, NEW p \in world.packets, Expire(n, p) PROVE StaysUp
  BY <1>8 DEF StaysUp, Expire
<1>9. ASSUME NEW n \in Node, NEW d \in Node,
             Retry(n, d) \/ GiveUp(n, d) \/ Forgive(n, d)
      PROVE  StaysUp
  BY <1>9 DEF StaysUp, Retry, GiveUp, Forgive, history
<1>10. ASSUME NEW n \in Node, NEW d \in Node, ForgetEntry(n, d) PROVE StaysUp
  <2>1. budget' = [budget EXCEPT !.forget = @ - 1] /\ aborted' = aborted
    BY <1>10 DEF ForgetEntry, history
  <2> QED BY <2>1 DEF BudgetInv, StaysUp
<1> QED BY <1>1, <1>2, <1>3, <1>4, <1>5, <1>6, <1>7, <1>8, <1>9,
           <1>10 DEF Step

\* What no step undoes: a restart and an abort.
LEMMA NoRestartBefore ==
    ASSUME BudgetInv, RoutesInv, [Next]_vars, NoRestart'
    PROVE  /\ NoRestart
           /\ ~\E n \in Node : Abort(n) \/ Restart(n)
<1>1. /\ budget.restart \in Nat /\ world.restart \in Nat /\ budget.restart <= world.restart
      /\ budget \in [forget : Nat, restart : Nat]
  BY WorldTypes DEF BudgetInv, RoutesInv
<1>2. world' = world
  BY DEF Next, vars
<1>3. budget'.restart = world.restart /\ aborted' = {}
  BY <1>2 DEF NoRestart
<1>4. ASSUME NEW n \in Node, Abort(n) PROVE FALSE
  BY <1>3, <1>4 DEF Abort
<1>5. ASSUME NEW n \in Node, Restart(n) PROVE FALSE
  <2>1. budget' = [budget EXCEPT !.restart = @ - 1]
    BY <1>5 DEF Restart
  <2> QED BY <1>1, <1>3, <2>1
<1>6. aborted' = aborted /\ budget'.restart = budget.restart
  BY <1>4, <1>5, StepStaysUp DEF StaysUp, Next, vars, history
<1> QED BY <1>2, <1>3, <1>4, <1>5, <1>6 DEF NoRestart

LEMMA NextKept ==
    RoutesInv /\ RoutesInv' /\ AbortInv /\ PlacesInv /\ KeptInv /\ [Next]_vars => KeptInv'
<1> SUFFICES ASSUME RoutesInv, RoutesInv', AbortInv, PlacesInv, KeptInv, [Next]_vars,
                    NoRestart'
             PROVE  AllKept'
  BY DEF KeptInv
<1>1. NoRestart /\ ~\E n \in Node : Abort(n) \/ Restart(n)
  BY NoRestartBefore DEF AbortInv
<1>2. AllKept
  BY <1>1 DEF KeptInv
<1>3. world' = world
  BY DEF Next, vars
<1>4. CASE UNCHANGED vars
  BY <1>2, <1>3, <1>4, ElseKept DEF vars, tables, history
<1>5. CASE Step
  <2>1. ASSUME NEW p \in world.packets, SendPacket(p) PROVE AllKept'
    BY <1>2, <1>3, <2>1, SendPacketKept
  <2>2. ASSUME NEW p \in world.packets, NEW t \in world.threads, MissPath(t, p)
        PROVE  AllKept'
    BY <1>2, <1>3, <2>2, MissPathKept
  <2>3. ASSUME NEW t \in world.threads, BufferPacket(t) PROVE AllKept'
    BY <1>2, <1>3, <2>3, BufferPacketKept
  <2>4. ASSUME NEW t \in world.threads, Discover(t) \/ Propagate(t) PROVE AllKept'
    BY <1>2, <1>3, <2>4, DiscoverKept, PropagateKept
  <2>5. ASSUME NEW t \in world.threads, GotRepl(t) PROVE AllKept'
    <3>1. jobs[t].at \in Node
      BY <2>5, ReplJob DEF GotRepl
    <3> QED BY <1>1, <1>2, <1>3, <2>5, <3>1, HandlerKept
  <2>6. ASSUME NEW t \in world.threads, Flush(t) PROVE AllKept'
    <3>1. jobs[t].at \in Node
      BY <2>6, ReplJob DEF Flush
    <3>2. cache[jobs[t].at][Target(jobs[t].arg)] # <<>>
      BY <1>1, <2>6, <3>1 DEF Flush
    <3> QED BY <1>2, <1>3, <2>6, <3>2, FlushKept
  <2>7. ASSUME NEW n \in Node, NEW m \in msgs, AnswerRreq(n, m) \/ Forward(n, m)
        PROVE  AllKept'
    BY <1>2, <1>3, <2>7, AnswerRreqKept, ForwardKept
  <2>8. ASSUME NEW n \in Node, NEW m \in msgs, Arrive(n, m) \/ HandleAck(n, m)
        PROVE  AllKept'
    BY <1>2, <1>3, <2>8, ArriveKept, HandleAckKept
  <2>9. ASSUME NEW n \in Node, NEW m \in msgs, NEW t \in world.threads,
               CheckRreq(t, n, m) \/ CacheRepl(t, n, m)
        PROVE  AllKept'
    BY <1>2, <1>3, <2>9, HandlerKept
  <2>10. ASSUME NEW n \in Node, NEW e \in maint[n], Resend(n, e) \/ LinkError(n, e)
         PROVE  AllKept'
    BY <1>2, <1>3, <2>10, ResendKept, LinkErrorKept
  <2>11. ASSUME NEW n \in Node, NEW p \in world.packets, Expire(n, p) PROVE AllKept'
    BY <1>2, <1>3, <2>11, ExpireKept
  <2>12. ASSUME NEW n \in Node, NEW d \in Node, Retry(n, d) \/ GiveUp(n, d)
         PROVE  AllKept'
    BY <1>2, <1>3, <2>12, RetryKept, GiveUpKept
  <2>13. ASSUME \/ \E n \in Node, m \in msgs : OverhearRerr(n, m)
                \/ \E n, d \in Node : ForgetEntry(n, d) \/ Forgive(n, d)
         PROVE  AllKept'
    <3>1. UNCHANGED <<fate, sendbuf, maint, nextId, jobs, msgs>>
      BY <2>13 DEF OverhearRerr, ForgetEntry, Forgive, history
    <3> QED BY <1>2, <1>3, <3>1, ElseKept
  <2> QED BY <1>1, <1>5, <2>1, <2>2, <2>3, <2>4, <2>5, <2>6, <2>7, <2>8, <2>9, <2>10,
             <2>11, <2>12, <2>13 DEF Step
<1> QED BY <1>4, <1>5 DEF Next

LEMMA InitKept == Init => KeptInv
<1> SUFFICES ASSUME Init PROVE AllKept
  BY DEF KeptInv
<1>1. msgs = {} /\ \A n \in Node : maint[n] = {}
  BY DEF Init
<1>2. \A p \in world.packets : fate[p] = "host"
  BY DEF Init
<1>3. IdsInv /\ AcksInv
  BY <1>1 DEF IdsInv, AcksInv
<1>4. Kept
  BY <1>2 DEF Kept, Waits
<1> QED BY <1>3, <1>4 DEF AllKept

\* The inductive invariant: all parts hold of every state.
THEOREM Invariance == Spec => []IInv
<1>1. Init => IInv
  BY InitRoutes, InitAbort, InitPlaces, InitKept DEF IInv, Init, BufferedHasDiscovery
<1>2. IInv /\ [Next]_vars => IInv'
  <2> SUFFICES ASSUME IInv, [Next]_vars PROVE IInv'
    OBVIOUS
  <2>1. RoutesInv /\ AbortInv /\ PlacesInv /\ BufferedHasDiscovery /\ KeptInv
    BY DEF IInv
  <2>2. RoutesInv' /\ AbortInv' /\ PlacesInv' /\ BufferedHasDiscovery'
    BY <2>1, NextRoutes, NextAbort, NextPlaces, NextCared
  <2>3. KeptInv'
    BY <2>1, <2>2, NextKept
  <2> QED BY <2>2, <2>3 DEF IInv
<1> QED BY <1>1, <1>2, PTL DEF Spec

\* No packet vanishes while no daemon is started again: until it is delivered,
\* expired or lost with a link that was given up, the send buffer or the
\* maintenance buffer of some node, or a thread about to put it there, holds it.
\* The node that acknowledges a packet passes it on before, and no
\* acknowledgement, however late or often it comes, frees another message
\* (dsr_msg_send_with_route_maintenance, ack_meshrx_cb,
\* cleanup_maintenance_buffer, dsr_sendbuffer_send_msgs_to).
THEOREM NoPacketVanishes == Spec => []PacketsKept
<1>1. IInv => PacketsKept
  BY DEF IInv, KeptInv, AllKept, Kept, Waits, Held, PacketsKept
<1> QED BY <1>1, Invariance, PTL
=============================================================================
