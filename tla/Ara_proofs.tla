----------------------------- MODULE Ara_proofs -----------------------------
(***************************************************************************)
(* Proofs about a mesh of des-ara nodes, for any network, requests and     *)
(* settings.  The inductive invariant adds to the checked properties that  *)
(* what a node took is still in its window of sequence numbers, as long as *)
(* no number came too late for 16 bits, and, until a next hop is given up, *)
(* that every frame in the air, and every packet waiting for an            *)
(* acknowledgement, comes from a node with a way.                          *)
(***************************************************************************)
EXTENDS Ara, SequenceTheorems, FiniteSetTheorems, TLAPS

Hop == [ttl : 0..DefTtl, credit : Int]
HopTables == UNION {[D -> Hop] : D \in SUBSET Host}
Entries == [hop : HopTables, bant : BOOLEAN]

TablesOK ==
    /\ rt \in [Host -> [Host -> Entries]]
    /\ \A x \in Hops(rt) : <<x[3], x[1]>> \in Link

SeenEntries == [last : Nat, seen : SUBSET (0..Window - 1), late : BOOLEAN]

SeenOK == lp \in [Host -> [Host -> SeenEntries]]

\* The entry still tells that number q was seen: by its bit, or because q is
\* behind the window.
Remembered(e, q) ==
    e.seen # {} /\ q <= e.last /\ (e.last - q < Window => e.last - q \in e.seen)

\* Packets that node n holds, of its own host and without flags.
Held(n) == {p \in Frames : /\ p.kind = "data" /\ p.src = n /\ p.dst # n /\ p.ttl > 0
                           /\ ~p.loop /\ ~p.fail}
HeldFor(n, d) == {p \in Held(n) : p.dst = d}
InTrap(S) == [packet : S, count : 1..RetryMax]

Waits == [src : Host, seq : Nat, hop : Host, dst : Host]

QueuesOK ==
    /\ trap \in [Host -> [Host -> Seq(InTrap(Frames))]]
    /\ \A n, d \in Host : trap[n][d] \in Seq(InTrap(HeldFor(n, d)))
    /\ hand \in [Host -> Seq(InTrap(Frames))]
    /\ \A n \in Host : hand[n] \in Seq(InTrap(Held(n)))
    /\ timer \in [Host -> SUBSET Host]
    /\ wait \in [Host -> SUBSET Waits]
    /\ next \in [Host -> Nat]

Fates == {"on the way", "delivered", "discarded"}

\* fate is a record of some packets.
FateOK(f) == f \in UNION {[D -> Fates] : D \in SUBSET (Host \X Nat)}

\* A frame in the air can be heard by whom it reaches; no packet is addressed
\* to its own source.
FrameOK(x) ==
    /\ x \in Host \X Frames
    /\ x[2].ttl > 0 /\ <<x[2].from, x[1]>> \in Link
    /\ x[2].kind = "data" => x[2].src # x[2].dst

AirOK == \A x \in air : FrameOK(x)

\* What a node took it remembers until a number of this source came too late.
TookKnown ==
    /\ again \subseteq took /\ took \subseteq Host \X Host \X Nat
    /\ \A id \in took : LET e == lp[id[1]][id[2]] IN e.late \/ Remembered(e, id[3])

\* With the routes t, node h has a way to d.
Way(t, h, d) == h = d \/ t[h][d].hop # <<>>

\* With the routes t, the sender of frame f has the route that a node may learn
\* from it, and a packet goes along a next hop, or back when it is returned.
Leads(t, f) ==
    /\ f.kind \in {"fant", "bant"} => Way(t, f.from, f.src)
    /\ f.kind = "data" =>
          /\ ~f.fail /\ f.to \in Host
          /\ IF f.loop THEN <<f.to, f.dst, f.from>> \in Hops(t)
             ELSE Way(t, f.from, f.src) /\ <<f.from, f.dst, f.to>> \in Hops(t)

FramesLead == ~cut => \A x \in air : Leads(rt, x[2])
WaitsLead == ~cut => \A n \in Host : \A w \in wait[n] : Way(rt, w.hop, w.dst)

IInv ==
    /\ TablesOK /\ SeenOK /\ QueuesOK /\ AirOK /\ FateOK(fate) /\ cut \in BOOLEAN
    /\ TookKnown /\ TakenOnce
    /\ NextHopKnows /\ FramesLead /\ WaitsLead

-----------------------------------------------------------------------------
(* Loop protection. *)

LEMMA MaxOfTwo ==
    ASSUME NEW i \in Int, NEW j \in Int
    PROVE  Max({i, j}) = IF i >= j THEN i ELSE j
BY DEF Max

LEMMA MinOfTwo ==
    ASSUME NEW i \in Int, NEW j \in Int
    PROVE  Min({i, j}) = IF i <= j THEN i ELSE j
BY DEF Min

LEMMA Division ==
    ASSUME NEW S \in Nat \ {0}, NEW a \in Int
    PROVE  a \div S \in Int /\ a % S \in 0..S - 1 /\ a = S * (a \div S) + (a % S)
OBVIOUS

LEMMA SmallMod ==
    ASSUME NEW S \in Nat \ {0}, NEW a \in 0..S - 1
    PROVE  a % S = a
OBVIOUS

Half == (Seqs - 1) \div 2

LEMMA Sizes == /\ Seqs \in Nat \ {0} /\ Window \in Nat \ {0}
               /\ Half \in Nat /\ 2 * Half <= Seqs - 1
BY AraAssumption DEF Half

LEMMA WireType ==
    ASSUME NEW q \in Nat
    PROVE  Wire(q) \in Nat
<1>1. q % Seqs \in 0..Seqs - 1
  BY Sizes, Division
<1> QED BY <1>1, Sizes DEF Wire

\* Multiples of the number of sequence numbers are that far apart.
LEMMA Multiples ==
    ASSUME NEW S \in Nat \ {0}, NEW i \in Int, NEW j \in Int, i < j
    PROVE  S * i \in Int /\ S * j \in Int /\ S * j >= S * i + S
<1>1. j - i \in Nat /\ j - i >= 1
  OBVIOUS
<1>2. S * (j - i) >= S
  BY <1>1
<1>3. S * (j - i) = S * j - S * i
  OBVIOUS
<1>4. S * i \in Int /\ S * j \in Int
  OBVIOUS
<1> QED BY <1>2, <1>3, <1>4

\* A number that is not late is new just when it is ahead of the last one.
LEMMA NewIsAhead ==
    ASSUME NEW e \in SeenEntries, NEW q \in Nat, e.seen # {}, ~Late(e, q)
    PROVE  /\ New(e, q) <=> e.last < q
           /\ e.last - q <= Half /\ q - e.last <= Half
           /\ q <= e.last => Behind(e, q) = e.last - q
<1> DEFINE x == e.last
           i == x \div Seqs
           j == q \div Seqs
           wx == x % Seqs
           wq == q % Seqs
<1>0. x \in Nat
  BY DEF SeenEntries
<1>1. /\ i \in Int /\ wx \in 0..Seqs - 1 /\ x = Seqs * i + wx
      /\ j \in Int /\ wq \in 0..Seqs - 1 /\ q = Seqs * j + wq
  <2> HIDE DEF x
  <2>1. x \in Int /\ q \in Int /\ Seqs \in Nat \ {0}
    BY <1>0, Sizes
  <2>2. i \in Int /\ wx \in 0..Seqs - 1 /\ x = Seqs * i + wx
    BY <2>1, Division
  <2>3. j \in Int /\ wq \in 0..Seqs - 1 /\ q = Seqs * j + wq
    BY <2>1, Division
  <2> QED BY <2>2, <2>3
<1>2. x - q <= Half /\ q - x <= Half
  BY <1>0, Sizes DEF Late, Overflow, Half
<1>3. New(e, q) <=> wx < wq \/ wx - wq > Half
  BY DEF New, Wire, Overflow, Half
<1>4. q < x => i = j
  BY DEF Late
<1>5. i < j => Seqs * i \in Int /\ Seqs * j \in Int /\ Seqs * j >= Seqs * i + Seqs
  BY <1>1, Sizes, Multiples
<1>6. j < i => Seqs * i \in Int /\ Seqs * j \in Int /\ Seqs * i >= Seqs * j + Seqs
  BY <1>1, Sizes, Multiples
<1> DEFINE si == Seqs * i
           sj == Seqs * j
<1>7. si \in Int /\ sj \in Int /\ (i = j => si = sj)
  <2> HIDE DEF i, j
  <2> QED BY <1>1, Sizes
<1>8. q <= x => i = j
  <2>1. CASE q < x
    BY <2>1, <1>4
  <2>2. CASE q = x
    BY <2>2
  <2> QED BY <2>1, <2>2, <1>0
<1>9. New(e, q) <=> x < q
  <2> HIDE DEF x, i, j, wx, wq, si, sj
  <2>1. i < j => sj >= si + Seqs
    BY <1>5 DEF si, sj
  <2>2. j < i => si >= sj + Seqs
    BY <1>6 DEF si, sj
  <2>3. x = si + wx /\ q = sj + wq
    BY <1>1 DEF si, sj
  <2> QED BY <1>0, <1>1, <1>2, <1>3, <1>7, <1>8, <2>1, <2>2, <2>3, Sizes
<1>10. q <= x => Behind(e, q) = x - q
  <2>1. ASSUME q <= x PROVE x - q \in 0..Seqs - 1
    BY <2>1, <1>0, <1>2, Sizes
  <2> QED BY <2>1, Sizes, SmallMod DEF Behind
<1> QED BY <1>2, <1>9, <1>10

\* As long as nothing comes late, a number that was seen is known, and is
\* remembered whatever is noted later: it keeps its bit, or leaves the window.
LEMMA NoteRemembers ==
    ASSUME NEW e \in SeenEntries, NEW q \in Nat
    PROVE  /\ Note(e, q) \in SeenEntries
           /\ e.late => Note(e, q).late
           /\ ~Note(e, q).late =>
                 /\ Remembered(e, q) => Known(e, q)
                 /\ Remembered(Note(e, q), q)
                 /\ \A y \in Nat : Remembered(e, y) => Remembered(Note(e, q), y)
<1> DEFINE shift == (q - e.last) % Window
           d == Note(e, q)
<1>0. e.last \in Nat /\ e.seen \in SUBSET (0..Window - 1) /\ e.late \in BOOLEAN
  BY DEF SeenEntries
<1>1. shift \in 0..Window - 1 /\ Behind(e, q) \in Nat
  <2>1. q - e.last \in Int /\ e.last - q \in Int
    BY <1>0
  <2>2. shift \in 0..Window - 1
    BY <2>1, Sizes, Division
  <2>3. Behind(e, q) \in 0..Seqs - 1
    BY <2>1, Sizes, Division DEF Behind
  <2> QED BY <2>2, <2>3, Sizes
<1>2. CASE New(e, q)
  <2>1. d = [last |-> q,
             seen |-> {0} \cup {b \in 0..Window - 1 : b - shift \in e.seen},
             late |-> e.late \/ Late(e, q)]
    BY <1>2 DEF Note, Advance
  <2>2. Late(e, q) \in BOOLEAN
    BY DEF Late
  <2>3. d \in SeenEntries /\ (e.late => d.late)
    BY <1>0, <2>1, <2>2, Sizes DEF SeenEntries
  <2>4. Remembered(d, q)
    BY <2>1, Sizes DEF Remembered
  <2>5. ASSUME ~d.late, NEW y \in Nat, Remembered(e, y)
        PROVE  y < q /\ Remembered(d, y)
    <3>1. e.seen # {} /\ y <= e.last /\ ~Late(e, q)
      <4>1. d.late = (e.late \/ Late(e, q))
        BY <2>1
      <4> HIDE DEF d
      <4> QED BY <2>5, <4>1 DEF Remembered
    <3>2. e.last < q
      BY <1>2, <3>1, NewIsAhead
    <3>3. ASSUME q - y < Window PROVE q - y \in d.seen
      <4>1. q - e.last \in 0..Window - 1
        BY <1>0, <3>1, <3>2, <3>3, Sizes
      <4>2. shift = q - e.last
        BY <4>1, Sizes, SmallMod
      <4>3. e.last - y \in e.seen
        BY <1>0, <2>5, <3>2, <3>3, Sizes DEF Remembered
      <4> HIDE DEF shift, d
      <4>4. (q - y) - shift = e.last - y
        BY <1>0, <4>2
      <4>5. q - y \in 0..Window - 1
        BY <1>0, <3>1, <3>2, <3>3, Sizes
      <4> QED BY <2>1, <4>3, <4>4, <4>5
    <3> HIDE DEF shift, d
    <3>4. d.last = q /\ 0 \in d.seen
      BY <2>1
    <3> QED BY <1>0, <3>1, <3>2, <3>3, <3>4 DEF Remembered
  <2>6. ~d.late => (Remembered(e, q) => Known(e, q))
    BY <2>5
  <2> QED BY <2>3, <2>4, <2>5, <2>6
<1>3. CASE ~New(e, q)
  <2>1. /\ e.seen # {}
        /\ d = [last |-> e.last,
                seen |-> IF Behind(e, q) < Window THEN e.seen \cup {Behind(e, q)}
                         ELSE e.seen,
                late |-> e.late \/ Late(e, q)]
    BY <1>3 DEF Note, New, SeenEntries
  <2>2. Late(e, q) \in BOOLEAN
    BY DEF Late
  <2>3. d \in SeenEntries /\ (e.late => d.late)
    <3>1. Behind(e, q) < Window => Behind(e, q) \in 0..Window - 1
      BY <1>1, Sizes
    <3> HIDE DEF d
    <3> QED BY <1>0, <2>1, <2>2, <3>1 DEF SeenEntries
  <2>4. ASSUME ~d.late
        PROVE  q <= e.last /\ Behind(e, q) = e.last - q
    <3>1. ~Late(e, q)
      <4>1. d.late = (e.late \/ Late(e, q))
        BY <2>1
      <4> HIDE DEF d
      <4> QED BY <2>4, <4>1
    <3> QED BY <1>0, <1>3, <2>1, <3>1, NewIsAhead
  <2> HIDE DEF d
  <2>5. ~d.late => (Remembered(e, q) => Known(e, q))
    BY <1>0, <1>3, <2>4, Sizes DEF Remembered, Known
  <2>6. ~d.late => Remembered(d, q)
    BY <1>0, <2>1, <2>4, Sizes DEF Remembered
  <2>7. \A y \in Nat : Remembered(e, y) => Remembered(d, y)
    BY <2>1 DEF Remembered
  <2> QED BY <2>3, <2>5, <2>6, <2>7 DEF d
<1> QED BY <1>2, <1>3

-----------------------------------------------------------------------------
(* Routing table. *)

LEMMA NoHops ==
    ASSUME NEW e \in HopTables
    PROVE  (e = <<>>) <=> (DOMAIN e = {})
BY DEF HopTables

LEMMA NoRouteType == NoRoute \in Entries /\ DOMAIN NoRoute.hop = {}
<1>1. <<>> \in [1..0 -> Hop]
  BY EmptySeq, LenProperties
<1>2. <<>> \in [{} -> Hop] /\ {} \in SUBSET Host
  BY <1>1
<1>3. <<>> \in HopTables
  BY <1>2 DEF HopTables
<1> QED BY <1>3, NoHops DEF NoRoute, Entries

LEMMA HopsOf ==
    ASSUME NEW t, NEW n \in Host, NEW d \in Host, NEW h \in Host
    PROVE  <<n, d, h>> \in Hops(t) <=> h \in DOMAIN t[n][d].hop
<1> DEFINE x == <<n, d, h>>
<1>1. x \in Host \X Host \X Host /\ x[1] = n /\ x[2] = d /\ x[3] = h
  OBVIOUS
<1> HIDE DEF x
<1>2. x \in Hops(t) <=> h \in DOMAIN t[n][d].hop
  BY <1>1 DEF Hops
<1> QED BY <1>2 DEF x

LEMMA UpdateEntry ==
    ASSUME NEW e \in Entries, NEW h \in Host, NEW ttl \in 0..DefTtl
    PROVE  /\ Update(e, h, ttl) \in Entries
           /\ DOMAIN e.hop \subseteq DOMAIN Update(e, h, ttl).hop
           /\ DOMAIN Update(e, h, ttl).hop \subseteq DOMAIN e.hop \cup {h}
           /\ e.hop = <<>> => Update(e, h, ttl).hop # <<>>
<1> DEFINE new == IF h \in DOMAIN e.hop
               THEN [ttl |-> Max({ttl, e.hop[h].ttl}),
                     credit |-> Min({e.hop[h].credit + 1, CreditMax})]
               ELSE [ttl |-> ttl, credit |-> MissCredit]
           u == [e EXCEPT !.hop = With(@, h, new)]
<1>0. DefTtl \in Nat /\ MissCredit \in Int /\ CreditMax \in Int /\ Prune \in Nat
  BY AraAssumption
<1>1. new \in Hop
  <2>1. CASE h \in DOMAIN e.hop
    <3>1. e.hop[h] \in Hop
      BY <2>1 DEF Entries, HopTables
    <3> QED BY <2>1, <3>1, <1>0, MaxOfTwo, MinOfTwo DEF Hop
  <2>2. CASE h \notin DOMAIN e.hop
    BY <2>2, <1>0 DEF Hop
  <2> QED BY <2>1, <2>2
<1>2. u \in Entries /\ DOMAIN u.hop = DOMAIN e.hop \cup {h}
  <2> HIDE DEF new
  <2>1. PICK D \in SUBSET Host : e.hop \in [D -> Hop]
    BY DEF Entries, HopTables
  <2>2. With(e.hop, h, new) \in [D \cup {h} -> Hop]
    BY <1>1, <2>1 DEF With
  <2>3. With(e.hop, h, new) \in HopTables
    BY <2>2 DEF HopTables
  <2> QED BY <2>1, <2>2, <2>3 DEF Entries
<1>3. Update(e, h, ttl) = IF Pruned(e, ttl) THEN e ELSE u
  BY DEF Update
<1>4. ASSUME e.hop = <<>> PROVE ~Pruned(e, ttl)
  <2>1. DOMAIN e.hop = {}
    BY <1>4, NoHops DEF Entries
  <2>2. Ttls(e) \cup {0} = {0}
    BY <2>1 DEF Ttls
  <2>3. MaxTtl(e) = 0
    BY <2>2, MaxOfTwo DEF MaxTtl, Max
  <2> QED BY <2>3, <1>0 DEF Pruned
<1>5. u.hop # <<>>
  BY <1>2, NoHops DEF Entries
<1> QED BY <1>2, <1>3, <1>4, <1>5

LEMMA DeleteEntry ==
    ASSUME NEW e \in Entries, NEW h
    PROVE  /\ Delete(e, h) \in Entries
           /\ DOMAIN Delete(e, h).hop = DOMAIN e.hop \ {h}
<1> DEFINE left == DOMAIN e.hop \ {h}
<1>1. CASE left = {}
  BY <1>1, NoRouteType DEF Delete
<1>2. CASE left # {}
  <2>1. PICK D \in SUBSET Host : e.hop \in [D -> Hop]
    BY DEF Entries, HopTables
  <2>2. Restrict(e.hop, left) \in [left -> Hop] /\ left \in SUBSET Host
    BY <2>1 DEF Restrict
  <2>3. Restrict(e.hop, left) \in HopTables
    BY <2>2 DEF HopTables
  <2>4. Delete(e, h) = [e EXCEPT !.hop = Restrict(@, left)]
    BY <1>2 DEF Delete
  <2> QED BY <2>2, <2>3, <2>4 DEF Entries
<1> QED BY <1>1, <1>2

-----------------------------------------------------------------------------
(* A step, by what it changes. *)

\* The new next hops of a step were justified by the routes before it.
NewHopsOK ==
    /\ rt' \in [Host -> [Host -> Entries]]
    /\ \A x \in Hops(rt') \ Hops(rt) :
          <<x[3], x[1]>> \in Link /\ (~cut => Way(rt, x[3], x[2]))

NewFramesOK ==
    \A x \in air' \ air : FrameOK(x) /\ (~cut' => Leads(rt', x[2]))

NewWaitsOK ==
    \A n \in Host : \A w \in wait'[n] \ wait[n] : ~cut' => Way(rt', w.hop, w.dst)

\* What a step takes it also notes; it takes nothing twice that is known.
NotesOK ==
    \/ lp' = lp /\ took' = took /\ again' = again
    \/ \E n, s \in Host, q \in Nat :
          LET id == <<n, s, q>> IN
          /\ lp' = [lp EXCEPT ![n][s] = Note(@, q)]
          /\ took' \in {took, took \cup {id}}
          /\ again' # again =>
                again' = again \cup {id} /\ id \in took /\ ~Known(lp[n][s], q)

CutStep == cut' = (cut \/ ~(Hops(rt) \subseteq Hops(rt')))

StepOK ==
    NewHopsOK /\ NewFramesOK /\ NewWaitsOK /\ NotesOK /\ QueuesOK' /\ FateOK(fate')

LEMMA WayStays ==
    ASSUME NEW t \in [Host -> [Host -> Entries]], NEW u \in [Host -> [Host -> Entries]],
           Hops(t) \subseteq Hops(u), NEW h \in Host, NEW d \in Host, Way(t, h, d)
    PROVE  Way(u, h, d)
<1>1. CASE t[h][d].hop # <<>>
  <2>0. t[h][d].hop \in HopTables /\ u[h][d].hop \in HopTables
    BY DEF Entries
  <2>1. PICK g \in DOMAIN t[h][d].hop : TRUE
    BY <1>1, <2>0, NoHops
  <2>2. g \in Host
    BY <2>0 DEF HopTables
  <2>3. g \in DOMAIN u[h][d].hop
    BY <2>1, <2>2, HopsOf
  <2> QED BY <2>0, <2>3, NoHops DEF Way
<1> QED BY <1>1 DEF Way

LEMMA JustifiedHops ==
    ASSUME rt' \in [Host -> [Host -> Entries]],
           \A n, d, h \in Host : h \in DOMAIN rt'[n][d].hop =>
               \/ h \in DOMAIN rt[n][d].hop
               \/ <<h, n>> \in Link /\ (~cut => Way(rt, h, d))
    PROVE  NewHopsOK
<1> SUFFICES ASSUME NEW x \in Hops(rt') \ Hops(rt)
             PROVE  <<x[3], x[1]>> \in Link /\ (~cut => Way(rt, x[3], x[2]))
  BY DEF NewHopsOK
<1>1. x[1] \in Host /\ x[2] \in Host /\ x[3] \in Host
  BY DEF Hops
<1>2. x[3] \in DOMAIN rt'[x[1]][x[2]].hop /\ x[3] \notin DOMAIN rt[x[1]][x[2]].hop
  BY DEF Hops
<1> QED BY <1>1, <1>2

LEMMA HopsLead ==
    ASSUME IInv, NewHopsOK, CutStep
    PROVE  TablesOK' /\ NextHopKnows'
<1>1. TablesOK'
  BY DEF IInv, TablesOK, NewHopsOK
<1>2. ASSUME ~cut', NEW x \in Hops(rt')
      PROVE  Way(rt', x[3], x[2])
  <2>1. x[2] \in Host /\ x[3] \in Host
    BY DEF Hops
  <2>2. Way(rt, x[3], x[2])
    BY <1>2 DEF IInv, CutStep, NewHopsOK, NextHopKnows, Way
  <2>3. Hops(rt) \subseteq Hops(rt')
    BY <1>2 DEF CutStep
  <2> QED BY <2>1, <2>2, <2>3, WayStays DEF IInv, TablesOK, NewHopsOK
<1> QED BY <1>1, <1>2 DEF NextHopKnows, Way

LEMMA FrameFields ==
    ASSUME NEW x, FrameOK(x)
    PROVE  /\ x[1] \in Host /\ x[2] \in Frames
           /\ x[2].kind \in {"data", "fant", "bant", "ack"}
           /\ x[2].src \in Host /\ x[2].dst \in Host /\ x[2].from \in Host
           /\ x[2].to \in Host \cup {All} /\ x[2].seq \in Nat
           /\ x[2].ttl \in 1..DefTtl /\ <<x[2].from, x[1]>> \in Link
           /\ x[2].kind = "data" => x[2].src # x[2].dst
<1>1. DefTtl \in Nat
  BY AraAssumption
<1> QED BY <1>1 DEF FrameOK, Frames

LEMMA FramesStep ==
    ASSUME IInv, NewHopsOK, NewFramesOK, CutStep
    PROVE  AirOK' /\ FramesLead'
<1>1. AirOK'
  BY DEF IInv, AirOK, NewFramesOK, FrameOK
<1>2. ASSUME ~cut', NEW x \in air' PROVE Leads(rt', x[2])
  <2>1. ~cut /\ Hops(rt) \subseteq Hops(rt')
    BY <1>2 DEF CutStep
  <2>2. CASE x \in air
    <3>1. x[2].from \in Host /\ x[2].src \in Host /\ Leads(rt, x[2])
      BY <2>1, <2>2, FrameFields DEF IInv, AirOK, FramesLead
    <3>2. Way(rt, x[2].from, x[2].src) => Way(rt', x[2].from, x[2].src)
      BY <2>1, <3>1, WayStays DEF IInv, TablesOK, NewHopsOK
    <3> QED BY <2>1, <3>1, <3>2 DEF Leads
  <2>3. CASE x \notin air
    BY <1>2, <2>3 DEF NewFramesOK
  <2> QED BY <2>2, <2>3
<1> QED BY <1>1, <1>2 DEF FramesLead

LEMMA WaitsStep ==
    ASSUME IInv, NewHopsOK, NewWaitsOK, QueuesOK', CutStep
    PROVE  WaitsLead'
<1> SUFFICES ASSUME ~cut', NEW n \in Host, NEW w \in wait'[n]
             PROVE  Way(rt', w.hop, w.dst)
  BY DEF WaitsLead
<1>1. ~cut /\ Hops(rt) \subseteq Hops(rt')
  BY DEF CutStep
<1>2. CASE w \in wait[n]
  <2>0. wait[n] \in SUBSET Waits
    BY DEF IInv, QueuesOK
  <2>1. w.hop \in Host /\ w.dst \in Host
    BY <1>2, <2>0 DEF Waits
  <2>2. Way(rt, w.hop, w.dst)
    BY <1>1, <1>2 DEF IInv, WaitsLead
  <2> QED BY <1>1, <2>1, <2>2, WayStays DEF IInv, TablesOK, NewHopsOK
<1>3. CASE w \notin wait[n]
  BY <1>3 DEF NewWaitsOK
<1> QED BY <1>2, <1>3

LEMMA NotesStep ==
    ASSUME IInv, NotesOK
    PROVE  SeenOK' /\ TookKnown' /\ TakenOnce'
<1>1. CASE lp' = lp /\ took' = took /\ again' = again
  BY <1>1 DEF IInv, SeenOK, TookKnown, TakenOnce
<1>2. ASSUME NEW n \in Host, NEW s \in Host, NEW q \in Nat,
             lp' = [lp EXCEPT ![n][s] = Note(@, q)],
             took' \in {took, took \cup {<<n, s, q>>}},
             again' # again =>
                /\ again' = again \cup {<<n, s, q>>} /\ <<n, s, q>> \in took
                /\ ~Known(lp[n][s], q)
      PROVE  SeenOK' /\ TookKnown' /\ TakenOnce'
  <2> DEFINE e == lp[n][s]
             d == Note(e, q)
             new == <<n, s, q>>
  <2>0. lp \in [Host -> [Host -> SeenEntries]] /\ e \in SeenEntries
    BY DEF IInv, SeenOK
  <2>1. /\ d \in SeenEntries /\ (e.late => d.late)
        /\ ~d.late => /\ Remembered(e, q) => Known(e, q)
                      /\ Remembered(d, q)
                      /\ \A y \in Nat : Remembered(e, y) => Remembered(d, y)
    BY <2>0, NoteRemembers
  <2> HIDE DEF d
  <2>2. lp' \in [Host -> [Host -> SeenEntries]]
    BY <1>2, <2>0, <2>1 DEF d
  <2>3. \A m, r \in Host : lp'[m][r] = IF m = n /\ r = s THEN d ELSE lp[m][r]
    BY <1>2, <2>0 DEF d
  <2>4. new[1] = n /\ new[2] = s /\ new[3] = q /\ new \in Host \X Host \X Nat
    OBVIOUS
  <2>5. again' \subseteq took' /\ took' \subseteq Host \X Host \X Nat
    BY <1>2, <2>4 DEF IInv, TookKnown
  <2>6. ASSUME NEW id \in took'
        PROVE  LET f == lp'[id[1]][id[2]] IN f.late \/ Remembered(f, id[3])
    <3>1. id[1] \in Host /\ id[2] \in Host /\ id[3] \in Nat
      BY <2>5
    <3>2. CASE id \in took
      <4>1. LET f == lp[id[1]][id[2]] IN f.late \/ Remembered(f, id[3])
        BY <3>2 DEF IInv, TookKnown
      <4> QED BY <2>1, <2>3, <3>1, <4>1
    <3>3. CASE id = new
      BY <2>1, <2>3, <2>4, <3>3
    <3> QED BY <1>2, <3>2, <3>3
  <2>7. ASSUME NEW id \in again' PROVE lp'[id[1]][id[2]].late
    <3>1. id[1] \in Host /\ id[2] \in Host
      BY <2>5
    <3>2. CASE id \in again
      <4>1. lp[id[1]][id[2]].late
        BY <3>2 DEF IInv, TakenOnce
      <4> QED BY <2>1, <2>3, <3>1, <4>1
    <3>3. CASE id \notin again
      <4> HIDE DEF new
      <4>1. id = new /\ new \in took /\ ~Known(e, q)
        BY <1>2, <3>3 DEF new
      <4>2. e.late \/ Remembered(e, q)
        BY <2>4, <4>1 DEF IInv, TookKnown
      <4> QED BY <2>1, <2>3, <2>4, <3>1, <4>1, <4>2
    <3> QED BY <3>2, <3>3
  <2> QED BY <2>2, <2>5, <2>6, <2>7 DEF SeenOK, TookKnown, TakenOnce
<1> QED BY <1>1, <1>2 DEF NotesOK

LEMMA StepInv ==
    ASSUME IInv, StepOK, CutStep
    PROVE  IInv'
<1>1. cut' \in BOOLEAN
  BY DEF CutStep
<1> QED BY <1>1, HopsLead, FramesStep, WaitsStep, NotesStep DEF StepOK, IInv

-----------------------------------------------------------------------------
(* Frames that a step sends. *)

LEMMA OnAirFrames ==
    ASSUME NEW F, NEW x \in OnAir(F)
    PROVE  x[1] \in Host /\ x[2] \in F /\ x[2].ttl > 0 /\ <<x[2].from, x[1]>> \in Link
           /\ x = <<x[1], x[2]>>
BY DEF OnAir

LEMMA SentFrames ==
    ASSUME NEW F \in SUBSET Frames, NEW x \in OnAir(F),
           \A f \in F : f.kind = "data" => f.src # f.dst
    PROVE  FrameOK(x)
BY OnAirFrames DEF FrameOK

LEMMA AntFrame ==
    ASSUME NEW kind \in {"fant", "bant"}, NEW n \in Host, NEW d \in Host, NEW q \in Nat
    PROVE  /\ Ant(kind, n, d, q) \in Frames /\ Ant(kind, n, d, q).kind # "data"
           /\ \A t : Leads(t, Ant(kind, n, d, q))
<1>1. DefTtl \in 0..DefTtl
  BY AraAssumption
<1> QED BY <1>1 DEF Ant, Frame, Frames, Leads, Way

LEMMA AckFrame ==
    ASSUME NEW f \in Frames, NEW n \in Host, NEW g \in Acks(n, f)
    PROVE  g \in Frames /\ g.kind # "data" /\ \A t : Leads(t, g)
<1>1. 1 \in 0..DefTtl
  BY AraAssumption
<1>2. g = Frame("ack", f.src, f.dst, f.seq, 1, n, f.from)
  BY DEF Acks
<1> QED BY <1>1, <1>2 DEF Frame, Frames, Leads

LEMMA OutgoingFrame ==
    ASSUME NEW p \in Frames, p.ttl > 0, NEW n \in Host, NEW h \in Host, NEW e
    PROVE  LET f == Outgoing(n, p, e, h) IN
           /\ f \in Frames /\ f.kind = p.kind /\ f.src = p.src /\ f.dst = p.dst
           /\ f.from = n /\ f.to = h /\ f.loop = p.loop /\ f.fail = p.fail
<1>1. (p.req \/ e.hop[h].ttl = DefTtl) \in BOOLEAN
  OBVIOUS
<1>2. p.ttl - 1 \in 0..DefTtl
  BY AraAssumption DEF Frames
<1> HIDE DEF Frames
<1> DEFINE r == p.req \/ e.hop[h].ttl = DefTtl
<1>3. Outgoing(n, p, e, h) = [p EXCEPT !.from = n, !.to = h, !.ttl = @ - 1, !.req = r]
  BY DEF Outgoing, Frames
<1> HIDE DEF r
<1>4. r \in BOOLEAN
  BY <1>1 DEF r
<1> QED BY <1>2, <1>3, <1>4 DEF Frames

-----------------------------------------------------------------------------
(* Packets of a node. *)

\* The table after a BANT was sent to d.
BantSent(t, n, d) == [t EXCEPT ![n][d].bant = FALSE]

\* ... and no next hop is another one.
LEMMA BantHop ==
    ASSUME NEW t \in [Host -> [Host -> Entries]], NEW n \in Host, NEW d \in Host
    PROVE  \A m, b \in Host : BantSent(t, n, d)[m][b].hop = t[m][b].hop
<1>1. t[n] \in [Host -> Entries] /\ t[n][d] \in Entries
  OBVIOUS
<1>2. [t[n][d] EXCEPT !.bant = FALSE].hop = t[n][d].hop
  BY <1>1 DEF Entries
<1> QED BY <1>1, <1>2 DEF BantSent

LEMMA BantOff ==
    ASSUME NEW t \in [Host -> [Host -> Entries]], NEW n \in Host, NEW d \in Host,
           NEW u, u = BantSent(t, n, d)
    PROVE  /\ u \in [Host -> [Host -> Entries]] /\ Hops(u) = Hops(t)
           /\ \A m, b \in Host : u[m][b].hop = t[m][b].hop
<1> DEFINE e == [t[n][d] EXCEPT !.bant = FALSE]
<1>0. t[n] \in [Host -> Entries] /\ t[n][d] \in Entries
  OBVIOUS
<1>1. e \in Entries /\ e.hop = t[n][d].hop
  BY <1>0 DEF Entries
<1>2. u = [t EXCEPT ![n] = [t[n] EXCEPT ![d] = e]]
  BY DEF BantSent
<1> HIDE DEF e
<1>3. u \in [Host -> [Host -> Entries]]
  <2>1. [t[n] EXCEPT ![d] = e] \in [Host -> Entries]
    BY <1>0, <1>1
  <2> QED BY <1>2, <2>1
<1>4. \A m, b \in Host : u[m][b].hop = t[m][b].hop
  BY <1>1, <1>2
<1>5. Hops(u) = Hops(t)
  BY <1>4 DEF Hops
<1> QED BY <1>3, <1>4, <1>5

LEMMA HeldFrame ==
    ASSUME NEW n, NEW p \in Held(n)
    PROVE  /\ p \in Frames /\ p.kind = "data" /\ p.src = n /\ p.dst # n /\ p.ttl > 0
           /\ p.dst \in Host /\ p.seq \in Nat /\ p.loop = FALSE /\ p.fail = FALSE
BY DEF Held, Frames

LEMMA SameHops ==
    ASSUME rt' \in [Host -> [Host -> Entries]], Hops(rt') = Hops(rt)
    PROVE  NewHopsOK
BY DEF NewHopsOK

LEMMA DepartStep ==
    ASSUME IInv, CutStep, NEW n \in Host, NEW p \in Held(n), NEW q \in Nat,
           Depart(n, p, q)
    PROVE  /\ NewHopsOK /\ NewFramesOK /\ NewWaitsOK
           /\ wait' \in [Host -> SUBSET Waits] /\ next' \in [Host -> Nat]
           /\ trap' = trap /\ timer' = timer
<1> DEFINE d == p.dst
           e == rt[n][d]
           bants == IF e.bant THEN {Ant("bant", n, d, q)} ELSE {}
<1>1. PICK h \in DOMAIN e.hop :
         /\ rt' = [rt EXCEPT ![n][d].bant = FALSE]
         /\ next' = [next EXCEPT ![n] = q + Cardinality(bants)]
         /\ wait' = [wait EXCEPT ![n] = @ \cup {Waiting(p.src, p.seq, h, d)}]
         /\ air' = air \cup OnAir(bants \cup {Outgoing(n, p, e, h)})
         /\ trap' = trap /\ timer' = timer
  BY DEF Depart
<1>2. p \in Frames /\ p.kind = "data" /\ p.src = n /\ d # n /\ p.ttl > 0
      /\ d \in Host /\ p.seq \in Nat /\ p.loop = FALSE /\ p.fail = FALSE
  BY HeldFrame
<1> HIDE DEF d
<1>3. rt \in [Host -> [Host -> Entries]] /\ h \in Host
  BY <1>1, <1>2 DEF IInv, TablesOK, Entries, HopTables
<1>4. NewHopsOK /\ Hops(rt') = Hops(rt)
  <2>0. rt' = BantSent(rt, n, d) /\ d \in Host /\ rt \in [Host -> [Host -> Entries]]
    BY <1>1, <1>2, <1>3 DEF BantSent
  <2>1. rt' \in [Host -> [Host -> Entries]] /\ Hops(rt') = Hops(rt)
    BY <2>0, BantOff
  <2> QED BY <2>1, SameHops
<1>5. <<n, d, h>> \in Hops(rt')
  BY <1>1, <1>2, <1>3, <1>4, HopsOf
<1>6. NextHopKnows'
  BY <1>4, HopsLead
<1>7. ~cut' => Way(rt', h, d)
  <2> DEFINE x == <<n, d, h>>
  <2>1. x \in Hops(rt') /\ x[2] = d /\ x[3] = h
    BY <1>5
  <2> HIDE DEF x
  <2> QED BY <1>6, <2>1 DEF NextHopKnows, Way
<1>8. bants \subseteq Frames /\ \A g \in bants : g.kind # "data" /\ \A t : Leads(t, g)
  BY <1>2, AntFrame
<1>9. Cardinality(bants) \in Nat
  BY FS_EmptySet, FS_Singleton
<1> HIDE DEF bants
<1>10. Outgoing(n, p, e, h) \in Frames
       /\ Outgoing(n, p, e, h).src # Outgoing(n, p, e, h).dst
       /\ (~cut' => Leads(rt', Outgoing(n, p, e, h)))
  <2> DEFINE f == Outgoing(n, p, e, h)
  <2>1. /\ f \in Frames /\ f.kind = "data" /\ f.src = n /\ f.dst = d
        /\ f.from = n /\ f.to = h /\ f.loop = FALSE /\ f.fail = FALSE
    BY <1>2, <1>3, OutgoingFrame DEF d
  <2> HIDE DEF f
  <2>2. f.src # f.dst /\ Leads(rt', f)
    BY <1>2, <1>3, <1>5, <2>1 DEF Leads, Way
  <2> QED BY <2>1, <2>2 DEF f
<1>11. NewFramesOK
  <2> SUFFICES ASSUME NEW x \in air' \ air
               PROVE  FrameOK(x) /\ (~cut' => Leads(rt', x[2]))
    BY DEF NewFramesOK
  <2> DEFINE F == bants \cup {Outgoing(n, p, e, h)}
  <2>1. x \in OnAir(F) /\ F \subseteq Frames /\ \A f \in F : f.kind = "data" => f.src # f.dst
    BY <1>1, <1>8, <1>10
  <2>2. \A f \in F : ~cut' => Leads(rt', f)
    BY <1>8, <1>10
  <2> HIDE DEF F
  <2> QED BY <2>1, <2>2, SentFrames, OnAirFrames
<1>12. NewWaitsOK
  <2> DEFINE w == Waiting(p.src, p.seq, h, d)
  <2>1. w.hop = h /\ w.dst = d
    BY DEF Waiting
  <2>2. \A m \in Host : wait'[m] \subseteq wait[m] \cup {w}
    BY <1>1 DEF IInv, QueuesOK
  <2> HIDE DEF w
  <2> QED BY <1>7, <2>1, <2>2 DEF NewWaitsOK
<1>13. wait' \in [Host -> SUBSET Waits]
  <2>1. Waiting(p.src, p.seq, h, d) \in Waits
    BY <1>2, <1>3, WireType DEF Waiting, Waits
  <2> QED BY <1>1, <2>1 DEF IInv, QueuesOK
<1>14. next' \in [Host -> Nat]
  BY <1>1, <1>9 DEF IInv, QueuesOK
<1> QED BY <1>1, <1>4, <1>11, <1>12, <1>13, <1>14

LEMMA TrapStep ==
    ASSUME IInv, NEW n \in Host, NEW p \in Held(n), NEW count \in Nat, NEW q \in Nat,
           NEW rest, TrapPacket(n, p, count, q, rest)
    PROVE  /\ trap' \in [Host -> [Host -> Seq(InTrap(Frames))]]
           /\ \A m, d \in Host : trap'[m][d] \in Seq(InTrap(HeldFor(m, d)))
           /\ timer' \in [Host -> SUBSET Host] /\ next' \in [Host -> Nat]
           /\ \A x \in air' \ rest : FrameOK(x) /\ \A t : Leads(t, x[2])
<1> DEFINE d == p.dst
           first == trap[n][d] = <<>>
<1>1. p \in Frames /\ d \in Host /\ p \in HeldFor(n, d)
  BY HeldFrame DEF HeldFor
<1>2. CASE count + 1 > RetryMax
  BY <1>2 DEF TrapPacket, IInv, QueuesOK
<1>3. CASE ~(count + 1 > RetryMax)
  <2>1. /\ trap' = [trap EXCEPT ![n][d] = Append(@, Trapped(p, count + 1))]
        /\ timer' = IF first THEN [timer EXCEPT ![n] = @ \cup {d}] ELSE timer
        /\ next' = [next EXCEPT ![n] = IF first THEN q + 1 ELSE q]
        /\ air' = IF first THEN rest \cup OnAir({Ant("fant", n, d, q)}) ELSE rest
    BY <1>3 DEF TrapPacket
  <2> HIDE DEF first, d
  <2>2. Trapped(p, count + 1) \in InTrap(Frames)
        /\ Trapped(p, count + 1) \in InTrap(HeldFor(n, d))
    BY <1>1, <1>3, AraAssumption DEF Trapped, InTrap
  <2>3. Append(trap[n][d], Trapped(p, count + 1)) \in Seq(InTrap(Frames))
        /\ Append(trap[n][d], Trapped(p, count + 1)) \in Seq(InTrap(HeldFor(n, d)))
    BY <1>1, <2>2, AppendProperties DEF IInv, QueuesOK
  <2>4. trap' \in [Host -> [Host -> Seq(InTrap(Frames))]]
    BY <2>1, <2>3, <1>1 DEF IInv, QueuesOK
  <2>5. \A m, b \in Host : trap'[m][b] \in Seq(InTrap(HeldFor(m, b)))
    <3> SUFFICES ASSUME NEW m \in Host, NEW b \in Host
                 PROVE  trap'[m][b] \in Seq(InTrap(HeldFor(m, b)))
      OBVIOUS
    <3>1. CASE m = n /\ b = d
      BY <2>1, <2>3, <3>1, <1>1 DEF IInv, QueuesOK
    <3>2. CASE ~(m = n /\ b = d)
      <4>1. trap'[m][b] = trap[m][b]
        BY <2>1, <3>2, <1>1 DEF IInv, QueuesOK
      <4> QED BY <4>1 DEF IInv, QueuesOK
    <3> QED BY <3>1, <3>2
  <2>6. timer' \in [Host -> SUBSET Host] /\ next' \in [Host -> Nat]
    BY <1>1, <2>1 DEF IInv, QueuesOK
  <2>7. ASSUME NEW x \in air' \ rest
        PROVE  FrameOK(x) /\ \A t : Leads(t, x[2])
    <3>1. x \in OnAir({Ant("fant", n, d, q)})
      BY <2>1
    <3>2. Ant("fant", n, d, q) \in Frames /\ Ant("fant", n, d, q).kind # "data"
          /\ \A t : Leads(t, Ant("fant", n, d, q))
      BY <1>1, AntFrame
    <3> DEFINE F == {Ant("fant", n, d, q)}
    <3>3. x \in OnAir(F) /\ F \subseteq Frames /\ \A f \in F : f.kind # "data"
          /\ \A t : Leads(t, f)
      BY <3>1, <3>2
    <3> HIDE DEF F
    <3> QED BY <3>3, SentFrames, OnAirFrames
  <2> QED BY <2>4, <2>5, <2>6, <2>7
<1> QED BY <1>2, <1>3

-----------------------------------------------------------------------------
(* Steps of hosts and timers. *)

LEMMA FateGrows ==
    ASSUME FateOK(fate), NEW id \in Host \X Nat, fate' = With(fate, id, "on the way")
    PROVE  FateOK(fate')
<1>1. PICK D \in SUBSET (Host \X Nat) : fate \in [D -> Fates]
  BY DEF FateOK
<1>2. fate' \in [D \cup {id} -> Fates] /\ D \cup {id} \in SUBSET (Host \X Nat)
  BY <1>1 DEF With, Fates
<1> QED BY <1>2 DEF FateOK

LEMMA FateChanges ==
    ASSUME FateOK(fate), NEW id, NEW v \in Fates, fate' = [fate EXCEPT ![id] = v]
    PROVE  FateOK(fate')
<1>1. PICK D \in SUBSET (Host \X Nat) : fate \in [D -> Fates]
  BY DEF FateOK
<1>2. fate' \in [D -> Fates]
  BY <1>1
<1> QED BY <1>2 DEF FateOK

LEMMA HostSendsStep ==
    ASSUME IInv, CutStep, NEW r \in Request, HostSends(r)
    PROVE  StepOK
<1> DEFINE n == r[1]
           p == Frame("data", n, r[2], next[n], DefTtl, n, All)
<1>1. n \in Host /\ r[2] \in Host /\ n # r[2]
  BY AraAssumption
<1>2. next[n] \in Nat
  BY <1>1 DEF IInv, QueuesOK
<1>3. p \in Held(n) /\ p.dst = r[2]
  BY <1>1, <1>2, AraAssumption DEF Frame, Frames, Held
<1>4. lp' = lp /\ hand' = hand /\ took' = took /\ again' = again
      /\ fate' = With(fate, <<n, next[n]>>, "on the way")
  BY DEF HostSends
<1>5. FateOK(fate')
  <2> DEFINE id == <<n, next[n]>>
  <2>1. id \in Host \X Nat /\ fate' = With(fate, id, "on the way")
    BY <1>1, <1>2, <1>4
  <2>2. FateOK(fate)
    BY DEF IInv
  <2> HIDE DEF id
  <2> QED BY <2>1, <2>2, FateGrows
<1>6. NotesOK
  BY <1>4 DEF NotesOK
<1>7. CASE TrapPacket(n, p, 0, next[n] + 1, air) /\ rt' = rt /\ wait' = wait
  <2> HIDE DEF n, p
  <2>1. NewHopsOK /\ NewWaitsOK
    BY <1>7 DEF NewHopsOK, NewWaitsOK, IInv, TablesOK
  <2>2. next[n] + 1 \in Nat
    BY <1>2
  <2>3. /\ trap' \in [Host -> [Host -> Seq(InTrap(Frames))]]
        /\ \A m, d \in Host : trap'[m][d] \in Seq(InTrap(HeldFor(m, d)))
        /\ timer' \in [Host -> SUBSET Host] /\ next' \in [Host -> Nat]
        /\ \A x \in air' \ air : FrameOK(x) /\ \A t : Leads(t, x[2])
    BY <1>1, <1>3, <1>7, <2>2, TrapStep
  <2>4. NewFramesOK
    BY <2>3 DEF NewFramesOK
  <2>5. QueuesOK'
    BY <1>4, <1>7, <2>3 DEF IInv, QueuesOK
  <2> QED BY <1>5, <1>6, <2>1, <2>4, <2>5 DEF StepOK
<1>8. CASE Depart(n, p, next[n] + 1)
  <2> HIDE DEF n, p
  <2>1. next[n] + 1 \in Nat
    BY <1>2
  <2>2. /\ NewHopsOK /\ NewFramesOK /\ NewWaitsOK
        /\ wait' \in [Host -> SUBSET Waits] /\ next' \in [Host -> Nat]
        /\ trap' = trap /\ timer' = timer
    BY <1>1, <1>3, <1>8, <2>1, DepartStep
  <2>3. QueuesOK'
    BY <1>4, <2>2 DEF IInv, QueuesOK
  <2> QED BY <1>5, <1>6, <2>2, <2>3 DEF StepOK
<1> QED BY <1>7, <1>8 DEF HostSends

LEMMA TimerFiresStep ==
    ASSUME IInv, NEW n \in Host, NEW d \in Host, TimerFires(n, d)
    PROVE  StepOK
<1>1. /\ timer' = [timer EXCEPT ![n] = @ \ {d}]
      /\ hand' = [hand EXCEPT ![n] = trap[n][d]]
      /\ trap' = [trap EXCEPT ![n][d] = <<>>]
      /\ rt' = rt /\ lp' = lp /\ wait' = wait /\ next' = next /\ air' = air
      /\ fate' = fate /\ took' = took /\ again' = again
  BY DEF TimerFires, history
<1>2. NewHopsOK /\ NewFramesOK /\ NewWaitsOK /\ NotesOK /\ FateOK(fate')
  BY <1>1 DEF NewHopsOK, NewFramesOK, NewWaitsOK, NotesOK, IInv, TablesOK
<1>3. trap[n][d] \in Seq(InTrap(Frames)) /\ trap[n][d] \in Seq(InTrap(Held(n)))
  <2>1. trap[n][d] \in Seq(InTrap(HeldFor(n, d)))
    BY DEF IInv, QueuesOK
  <2>2. InTrap(HeldFor(n, d)) \subseteq InTrap(Held(n))
    BY DEF InTrap, HeldFor
  <2>3. trap[n][d] \in Seq(InTrap(Frames))
    BY DEF IInv, QueuesOK
  <2> QED BY <2>1, <2>2, <2>3, SeqMonotonic
<1>4. trap' \in [Host -> [Host -> Seq(InTrap(Frames))]]
  BY <1>1, EmptySeq DEF IInv, QueuesOK
<1>5. \A m, b \in Host : trap'[m][b] \in Seq(InTrap(HeldFor(m, b)))
  <2>1. \A m, b \in Host : trap'[m][b] = IF m = n /\ b = d THEN <<>> ELSE trap[m][b]
    BY <1>1 DEF IInv, QueuesOK
  <2> QED BY <2>1, EmptySeq DEF IInv, QueuesOK
<1>6. hand' \in [Host -> Seq(InTrap(Frames))]
      /\ \A m \in Host : hand'[m] \in Seq(InTrap(Held(m)))
  <2>1. \A m \in Host : hand'[m] = IF m = n THEN trap[n][d] ELSE hand[m]
    BY <1>1 DEF IInv, QueuesOK
  <2> QED BY <1>1, <1>3, <2>1 DEF IInv, QueuesOK
<1>7. timer' \in [Host -> SUBSET Host]
  BY <1>1 DEF IInv, QueuesOK
<1>8. QueuesOK'
  BY <1>1, <1>4, <1>5, <1>6, <1>7 DEF IInv, QueuesOK
<1> QED BY <1>2, <1>8 DEF StepOK

LEMMA RetryStep ==
    ASSUME IInv, CutStep, NEW n \in Host, Retry(n)
    PROVE  StepOK
<1> DEFINE t == Head(hand[n])
           p == t.packet
<1>1. t \in InTrap(Held(n)) /\ Tail(hand[n]) \in Seq(InTrap(Held(n)))
      /\ Tail(hand[n]) \in Seq(InTrap(Frames))
  BY HeadTailProperties DEF Retry, IInv, QueuesOK
<1>2. p \in Held(n) /\ t.count \in Nat /\ next[n] \in Nat
  BY <1>1 DEF InTrap, IInv, QueuesOK
<1>3. hand' = [hand EXCEPT ![n] = Tail(@)] /\ lp' = lp /\ took' = took /\ again' = again
  BY DEF Retry
<1>4. hand' \in [Host -> Seq(InTrap(Frames))]
      /\ \A m \in Host : hand'[m] \in Seq(InTrap(Held(m)))
  <2>1. \A m \in Host : hand'[m] = IF m = n THEN Tail(hand[n]) ELSE hand[m]
    BY <1>3 DEF IInv, QueuesOK
  <2> QED BY <1>1, <1>3, <2>1 DEF IInv, QueuesOK
<1>5. NotesOK
  BY <1>3 DEF NotesOK
<1>6. FateOK(fate')
  <2>1. fate' = fate \/ fate' = [fate EXCEPT ![<<p.src, p.seq>>] = "discarded"]
    BY DEF Retry
  <2> QED BY <2>1, FateChanges DEF IInv, Fates
<1> HIDE DEF t
<1>7. CASE TrapPacket(n, p, t.count, next[n], air) /\ rt' = rt /\ wait' = wait
  <2> HIDE DEF p
  <2>1. NewHopsOK /\ NewWaitsOK
    BY <1>7 DEF NewHopsOK, NewWaitsOK, IInv, TablesOK
  <2>3. /\ trap' \in [Host -> [Host -> Seq(InTrap(Frames))]]
        /\ \A m, d \in Host : trap'[m][d] \in Seq(InTrap(HeldFor(m, d)))
        /\ timer' \in [Host -> SUBSET Host] /\ next' \in [Host -> Nat]
        /\ \A x \in air' \ air : FrameOK(x) /\ \A u : Leads(u, x[2])
    BY <1>2, <1>7, TrapStep
  <2>4. NewFramesOK
    BY <2>3 DEF NewFramesOK
  <2>5. QueuesOK'
    BY <1>4, <1>7, <2>3 DEF IInv, QueuesOK
  <2> QED BY <1>5, <1>6, <2>1, <2>4, <2>5 DEF StepOK
<1>8. CASE Depart(n, p, next[n])
  <2> HIDE DEF p
  <2>2. /\ NewHopsOK /\ NewFramesOK /\ NewWaitsOK
        /\ wait' \in [Host -> SUBSET Waits] /\ next' \in [Host -> Nat]
        /\ trap' = trap /\ timer' = timer
    BY <1>2, <1>8, DepartStep
  <2>3. QueuesOK'
    BY <1>4, <2>2 DEF IInv, QueuesOK
  <2> QED BY <1>5, <1>6, <2>2, <2>3 DEF StepOK
<1> QED BY <1>7, <1>8 DEF Retry, t

-----------------------------------------------------------------------------
(* Handlers of the frame x; rest is what is left in the air. *)

LEMMA SameTable ==
    ASSUME IInv, rt' = rt
    PROVE  NewHopsOK
BY DEF IInv, TablesOK, NewHopsOK

\* A handler that sends the frames F and adds no wait.
LEMMA SendStep ==
    ASSUME NEW rest \in SUBSET air, NEW F \in SUBSET Frames,
           \A f \in F : f.kind = "data" => f.src # f.dst,
           \A f \in F : ~cut' => Leads(rt', f),
           air' = rest \cup OnAir(F)
    PROVE  NewFramesOK
<1> SUFFICES ASSUME NEW x \in air' \ air
             PROVE  FrameOK(x) /\ (~cut' => Leads(rt', x[2]))
  BY DEF NewFramesOK
<1>1. x \in OnAir(F)
  OBVIOUS
<1> QED BY <1>1, SentFrames, OnAirFrames

LEMMA OverhearStep ==
    ASSUME IInv, NEW x \in air, NEW rest \in SUBSET air, Overhear(x[1], x[2], rest)
    PROVE  StepOK
<1> DEFINE n == x[1]
           f == x[2]
           acked == {w \in wait[n] : w.src = f.src /\ w.seq = Wire(f.seq) /\ w.hop = f.from}
           t == [d \in Host |-> IF \E w \in acked : w.dst = d
                               THEN Update(rt[n][d], f.from, 0) ELSE rt[n][d]]
<1>1. n \in Host /\ f.from \in Host /\ <<f.from, n>> \in Link
  BY FrameFields DEF IInv, AirOK
<1>2. /\ wait' = [wait EXCEPT ![n] = @ \ acked]
      /\ rt' = [rt EXCEPT ![n] = t]
      /\ air' = rest /\ trap' = trap /\ timer' = timer /\ hand' = hand /\ next' = next
      /\ fate' = fate /\ took' = took /\ again' = again /\ lp' = lp
  BY DEF Overhear, history
<1> HIDE DEF n, f
<1>3. \A m \in Host : wait'[m] \subseteq wait[m]
  BY <1>2 DEF IInv, QueuesOK
<1>4. NewWaitsOK /\ NewFramesOK /\ NotesOK /\ FateOK(fate')
  BY <1>2, <1>3 DEF NewWaitsOK, NewFramesOK, NotesOK, IInv
<1>5. QueuesOK'
  <2>1. wait' \in [Host -> SUBSET Waits]
    BY <1>2 DEF IInv, QueuesOK
  <2> QED BY <1>2, <2>1 DEF IInv, QueuesOK
<1>6. ASSUME NEW d \in Host
      PROVE  /\ t[d] \in Entries
             /\ \A h \in Host : h \in DOMAIN t[d].hop =>
                   h \in DOMAIN rt[n][d].hop \/ (h = f.from /\ (~cut => Way(rt, h, d)))
  <2>1. rt[n][d] \in Entries /\ 0 \in 0..DefTtl
    BY <1>1, AraAssumption DEF IInv, TablesOK
  <2>2. CASE \E w \in acked : w.dst = d
    <3>1. ~cut => Way(rt, f.from, d)
      BY <1>1, <2>2 DEF IInv, WaitsLead
    <3>2. t[d] = Update(rt[n][d], f.from, 0)
      BY <2>2
    <3> HIDE DEF t
    <3> QED BY <1>1, <2>1, <3>1, <3>2, UpdateEntry
  <2>3. CASE ~\E w \in acked : w.dst = d
    BY <2>1, <2>3
  <2> QED BY <2>2, <2>3
<1>7. NewHopsOK
  <2>1. t \in [Host -> Entries]
    BY <1>6
  <2> HIDE DEF t
  <2>2. rt' \in [Host -> [Host -> Entries]]
    BY <1>2, <2>1 DEF IInv, TablesOK
  <2>3. \A m \in Host : rt'[m] = IF m = n THEN t ELSE rt[m]
    BY <1>2 DEF IInv, TablesOK
  <2> QED BY <1>1, <1>6, <2>2, <2>3, JustifiedHops
<1> QED BY <1>4, <1>5, <1>7 DEF StepOK

LEMMA ReceiveAntStep ==
    ASSUME IInv, CutStep, NEW x \in air, NEW rest \in SUBSET air,
           ReceiveAnt(x[1], x[2], rest)
    PROVE  StepOK
<1> DEFINE n == x[1]
           f == x[2]
           known == Known(lp[n][f.src], f.seq)
           target == f.dst = n
           bants == IF f.kind = "fant" /\ target /\ ~known
                    THEN {Ant("bant", n, f.src, next[n])} ELSE {}
           onward == IF target \/ known THEN {}
                     ELSE {[f EXCEPT !.from = n, !.ttl = @ - 1]}
<1>1. /\ n \in Host /\ f \in Frames /\ f.src \in Host /\ f.from \in Host /\ f.seq \in Nat
      /\ f.ttl \in 1..DefTtl /\ <<f.from, n>> \in Link
  BY FrameFields DEF IInv, AirOK
<1>2. /\ f.kind \in {"fant", "bant"} /\ f.src # n
      /\ lp' = [lp EXCEPT ![n][f.src] = Note(@, f.seq)]
      /\ rt' = IF Learns(n, f)
               THEN [rt EXCEPT ![n][f.src] = Update(@, f.from, f.ttl)] ELSE rt
      /\ next' = [next EXCEPT ![n] = @ + Cardinality(bants)]
      /\ air' = rest \cup OnAir(bants \cup onward)
      /\ trap' = trap /\ timer' = timer /\ hand' = hand /\ wait' = wait
      /\ fate' = fate /\ took' = took /\ again' = again
  BY DEF ReceiveAnt, history
<1>3. next[n] \in Nat /\ rt[n][f.src] \in Entries
  BY <1>1 DEF IInv, QueuesOK, TablesOK
<1>4. Cardinality(bants) \in Nat
  <2>1. bants = {} \/ \E g : bants = {g}
    OBVIOUS
  <2> HIDE DEF n, f, known, target, bants
  <2>2. CASE bants = {}
    BY <2>2, FS_EmptySet
  <2>3. ASSUME NEW g, bants = {g} PROVE Cardinality(bants) \in Nat
    <3>1. Cardinality({g}) = 1
      BY FS_Singleton
    <3> QED BY <2>3, <3>1
  <2> QED BY <2>1, <2>2, <2>3
<1>5. NotesOK /\ NewWaitsOK /\ FateOK(fate')
  BY <1>1, <1>2 DEF NotesOK, NewWaitsOK, IInv
<1>6. QueuesOK'
  <2>0. next' = [next EXCEPT ![n] = @ + Cardinality(bants)]
    BY <1>2
  <2> HIDE DEF n, f, bants
  <2>1. next' \in [Host -> Nat]
    <3>1. next \in [Host -> Nat] /\ next[n] + Cardinality(bants) \in Nat
      BY <1>3, <1>4 DEF IInv, QueuesOK
    <3> QED BY <2>0, <3>1
  <2> QED BY <1>2, <2>1 DEF IInv, QueuesOK
<1>7. ~cut => Way(rt, f.from, f.src)
  BY <1>2 DEF IInv, FramesLead, Leads
<1>8. /\ Update(rt[n][f.src], f.from, f.ttl) \in Entries
      /\ DOMAIN Update(rt[n][f.src], f.from, f.ttl).hop \subseteq
            DOMAIN rt[n][f.src].hop \cup {f.from}
      /\ rt[n][f.src].hop = <<>> => Update(rt[n][f.src], f.from, f.ttl).hop # <<>>
  BY <1>1, <1>3, UpdateEntry
<1>9. NewHopsOK /\ (~target /\ ~known => rt'[n][f.src].hop # <<>>)
  <2> HIDE DEF n, f, known, target
  <2>0. rt \in [Host -> [Host -> Entries]]
    BY DEF IInv, TablesOK
  <2>1. CASE Learns(n, f)
    <3> DEFINE u == Update(rt[n][f.src], f.from, f.ttl)
    <3>1. rt' = [rt EXCEPT ![n] = [rt[n] EXCEPT ![f.src] = u]]
      BY <1>2, <2>1
    <3>2. u \in Entries /\ DOMAIN u.hop \subseteq DOMAIN rt[n][f.src].hop \cup {f.from}
          /\ (rt[n][f.src].hop = <<>> => u.hop # <<>>)
      BY <1>8
    <3> HIDE DEF u
    <3>3. [rt[n] EXCEPT ![f.src] = u] \in [Host -> Entries]
      BY <1>1, <2>0, <3>2
    <3>4. rt' \in [Host -> [Host -> Entries]]
      BY <2>0, <3>1, <3>3
    <3>5. \A m, d \in Host : rt'[m][d] = IF m = n /\ d = f.src THEN u ELSE rt[m][d]
      BY <1>1, <2>0, <3>1
    <3>6. NewHopsOK
      <4>1. ASSUME NEW m \in Host, NEW d \in Host, NEW h \in Host,
                   h \in DOMAIN rt'[m][d].hop, h \notin DOMAIN rt[m][d].hop
            PROVE  <<h, m>> \in Link /\ (~cut => Way(rt, h, d))
        <5>1. m = n /\ d = f.src /\ h = f.from
          BY <3>2, <3>5, <4>1
        <5> QED BY <1>1, <1>7, <5>1
      <4> QED BY <3>4, <4>1, JustifiedHops
    <3>7. ~target /\ ~known => rt[n][f.src].hop = <<>>
      BY <2>1 DEF Learns, target, known
    <3> QED BY <1>1, <3>2, <3>5, <3>6, <3>7
  <2>2. CASE ~Learns(n, f)
    BY <1>2, <2>2, SameTable DEF Learns, target, known
  <2> QED BY <2>1, <2>2
<1>10. NewFramesOK
  <2>1. \A g \in bants : g \in Frames /\ g.kind # "data" /\ \A t : Leads(t, g)
    BY <1>1, <1>3, AntFrame
  <2>2. ASSUME NEW g \in onward
        PROVE  g \in Frames /\ g.kind # "data" /\ Leads(rt', g)
    <3>1. g = [f EXCEPT !.from = n, !.ttl = @ - 1] /\ ~target /\ ~known
      OBVIOUS
    <3>2. f.ttl - 1 \in 0..DefTtl
      BY <1>1, AraAssumption
    <3>3. g \in Frames /\ g.kind = f.kind /\ g.from = n /\ g.src = f.src
      BY <1>1, <3>1, <3>2 DEF Frames
    <3>4. rt'[n][f.src].hop # <<>>
      BY <1>9, <3>1
    <3> HIDE DEF n, f, onward
    <3> QED BY <1>2, <3>3, <3>4 DEF Leads, Way
  <2> DEFINE F == bants \cup onward
  <2>3. F \in SUBSET Frames /\ (\A g \in F : g.kind # "data" /\ Leads(rt', g))
    BY <2>1, <2>2
  <2>4. air' = rest \cup OnAir(F)
    BY <1>2
  <2> HIDE DEF F
  <2> QED BY <2>3, <2>4, SendStep
<1> QED BY <1>5, <1>6, <1>9, <1>10 DEF StepOK

LEMMA DropOwnAntStep ==
    ASSUME IInv, NEW x \in air, NEW rest \in SUBSET air, DropOwnAnt(x[1], x[2], rest)
    PROVE  StepOK
<1>1. air' = rest /\ UNCHANGED <<rt, lp, trap, timer, hand, wait, next, fate, took, again>>
  BY DEF DropOwnAnt, tables, history
<1> QED BY <1>1, SameTable DEF StepOK, NewFramesOK, NewWaitsOK, NotesOK, IInv, QueuesOK

-----------------------------------------------------------------------------
(* Routes after a packet. *)

LEMMA LearntEntry ==
    ASSUME NEW n \in Host, NEW f \in Frames, NEW e \in Entries, NEW u \in Learnt(n, f, e)
    PROVE  /\ u \in Entries
           /\ DOMAIN u.hop \subseteq DOMAIN e.hop \cup {f.from}
           /\ f.src = n \/ Failed(n, f) => u = e
           /\ f.src # n /\ ~Failed(n, f) /\ f.dst # n => u.hop # <<>>
<1>1. f.from \in Host /\ f.ttl \in 0..DefTtl
  BY DEF Frames
<1>2. /\ Update(e, f.from, f.ttl) \in Entries
      /\ DOMAIN e.hop \subseteq DOMAIN Update(e, f.from, f.ttl).hop
      /\ DOMAIN Update(e, f.from, f.ttl).hop \subseteq DOMAIN e.hop \cup {f.from}
      /\ e.hop = <<>> => Update(e, f.from, f.ttl).hop # <<>>
  BY <1>1, UpdateEntry
<1>3. CASE f.src = n \/ Failed(n, f)
  BY <1>3 DEF Learnt
<1>4. CASE ~(f.src = n \/ Failed(n, f)) /\ (f.dst = n \/ e.hop = <<>>)
  BY <1>2, <1>4 DEF Learnt
<1>5. CASE ~(f.src = n \/ Failed(n, f)) /\ f.dst # n /\ e.hop # <<>>
  <2>1. u \in {IF f.from = best THEN Update(e, best, f.ttl) ELSE e : best \in DOMAIN e.hop}
    BY <1>5 DEF Learnt
  <2>2. u = e \/ u = Update(e, f.from, f.ttl)
    BY <2>1
  <2>3. DOMAIN e.hop # {}
    BY <1>5, NoHops DEF Entries
  <2>4. DOMAIN e.hop \subseteq DOMAIN u.hop /\ u \in Entries
    BY <1>2, <2>2
  <2>5. u.hop # <<>>
    BY <2>3, <2>4, NoHops DEF Entries
  <2> QED BY <1>2, <1>5, <2>2, <2>5
<1> QED BY <1>3, <1>4, <1>5

\* The table t after the packet f was handled at n.
AfterOK(t, n, f) ==
    /\ t \in [Host -> [Host -> Entries]]
    /\ \A m, d, h \in Host : h \in DOMAIN t[m][d].hop =>
          \/ h \in DOMAIN rt[m][d].hop
          \/ m = n /\ d = f.src /\ h = f.from /\ f.src # n /\ ~Failed(n, f)
    /\ Failed(n, f) => f.from \notin DOMAIN t[n][f.dst].hop
    /\ f.src # n /\ ~Failed(n, f) /\ f.dst # n => t[n][f.src].hop # <<>>

LEMMA AfterDataOK ==
    ASSUME IInv, NEW n \in Host, NEW f \in Frames, f.src # f.dst,
           NEW u \in Learnt(n, f, rt[n][f.src])
    PROVE  AfterOK(AfterData(n, f, u), n, f)
<1> DEFINE v == IF Failed(n, f) THEN Delete(rt[n][f.dst], f.from) ELSE rt[n][f.dst]
           t == AfterData(n, f, u)
<1>1. rt \in [Host -> [Host -> Entries]] /\ rt[n] \in [Host -> Entries]
      /\ f.src \in Host /\ f.dst \in Host /\ f.from \in Host
  BY DEF IInv, TablesOK, Frames
<1>2. rt[n][f.src] \in Entries /\ rt[n][f.dst] \in Entries
  BY <1>1
<1>3. /\ u \in Entries
      /\ DOMAIN u.hop \subseteq DOMAIN rt[n][f.src].hop \cup {f.from}
      /\ f.src = n \/ Failed(n, f) => u = rt[n][f.src]
      /\ f.src # n /\ ~Failed(n, f) /\ f.dst # n => u.hop # <<>>
  BY <1>2, LearntEntry
<1>4. v \in Entries /\ DOMAIN v.hop \subseteq DOMAIN rt[n][f.dst].hop
      /\ (Failed(n, f) => f.from \notin DOMAIN v.hop)
  BY <1>2, DeleteEntry
<1> HIDE DEF v
<1>5. t = [rt EXCEPT ![n] = [rt[n] EXCEPT ![f.src] = u, ![f.dst] = v]]
  <2>1. AfterData(n, f, u) =
          [rt EXCEPT ![n][f.src] = u,
                     ![n][f.dst] = IF Failed(n, f) THEN Delete(@, f.from) ELSE @]
    BY DEF AfterData
  <2> QED BY <1>1, <2>1 DEF v
<1> HIDE DEF t
<1>6. [rt[n] EXCEPT ![f.src] = u, ![f.dst] = v] \in [Host -> Entries]
  BY <1>1, <1>3, <1>4
<1>7. t \in [Host -> [Host -> Entries]]
  BY <1>1, <1>5, <1>6
<1>8. \A m, d \in Host : t[m][d] = IF m = n /\ d = f.dst THEN v
                                   ELSE IF m = n /\ d = f.src THEN u ELSE rt[m][d]
  BY <1>1, <1>5
<1>9. AfterOK(t, n, f)
  <2>1. ASSUME NEW m \in Host, NEW d \in Host, NEW h \in Host,
               h \in DOMAIN t[m][d].hop, h \notin DOMAIN rt[m][d].hop
        PROVE  m = n /\ d = f.src /\ h = f.from /\ f.src # n /\ ~Failed(n, f)
    BY <1>3, <1>4, <1>8, <2>1
  <2>2. Failed(n, f) => f.from \notin DOMAIN t[n][f.dst].hop
    BY <1>1, <1>4, <1>8
  <2>3. f.src # n /\ ~Failed(n, f) /\ f.dst # n => t[n][f.src].hop # <<>>
    BY <1>1, <1>3, <1>8
  <2> QED BY <1>7, <2>1, <2>2, <2>3 DEF AfterOK
<1> QED BY <1>9 DEF t

\* What a node learns from a packet is justified by the frame.
LEMMA DataHops ==
    ASSUME IInv, NEW x \in air, x[2].kind = "data", NEW t, AfterOK(t, x[1], x[2]),
           rt' \in [Host -> [Host -> Entries]], Hops(rt') = Hops(t)
    PROVE  NewHopsOK
<1> DEFINE n == x[1]
           f == x[2]
<1>1. n \in Host /\ f.from \in Host /\ <<f.from, n>> \in Link
  BY FrameFields DEF IInv, AirOK
<1>2. ~cut /\ ~Failed(n, f) => Way(rt, f.from, f.src)
  BY DEF IInv, FramesLead, Leads, Failed
<1>3. \A m, d, h \in Host : h \in DOMAIN t[m][d].hop =>
          \/ h \in DOMAIN rt[m][d].hop
          \/ m = n /\ d = f.src /\ h = f.from /\ ~Failed(n, f)
  BY DEF AfterOK
<1> HIDE DEF n, f
<1>4. ASSUME NEW m \in Host, NEW d \in Host, NEW h \in Host,
             h \in DOMAIN rt'[m][d].hop, h \notin DOMAIN rt[m][d].hop
      PROVE  <<h, m>> \in Link /\ (~cut => Way(rt, h, d))
  <2>1. h \in DOMAIN t[m][d].hop
    BY <1>4, HopsOf
  <2>2. m = n /\ d = f.src /\ h = f.from /\ ~Failed(n, f)
    BY <1>3, <1>4, <2>1
  <2> QED BY <1>1, <1>2, <2>2
<1> QED BY <1>4, JustifiedHops

\* Before a next hop is given up a packet that a node has to send on came by
\* unicast and without flags, and the node knows where to.
LEMMA DataUncut ==
    ASSUME IInv, CutStep, NEW x \in air, ForMe(x[1], x[2]), x[2].dst # x[1],
           NEW t, AfterOK(t, x[1], x[2]), Hops(rt') = Hops(t), NewHopsOK, ~cut'
    PROVE  /\ ~x[2].loop /\ ~x[2].fail /\ ~Failed(x[1], x[2])
           /\ rt'[x[1]][x[2].dst].hop # <<>>
<1> DEFINE n == x[1]
           f == x[2]
<1>1. /\ n \in Host /\ f.from \in Host /\ f.dst \in Host /\ f.src \in Host
      /\ f.kind = "data"
  BY FrameFields DEF IInv, AirOK, ForMe
<1>2. ~cut /\ Hops(rt) \subseteq Hops(rt')
  BY DEF CutStep
<1>3. /\ ~f.fail /\ f.to \in Host
      /\ IF f.loop THEN <<f.to, f.dst, f.from>> \in Hops(rt)
         ELSE Way(rt, f.from, f.src) /\ <<f.from, f.dst, f.to>> \in Hops(rt)
  BY <1>1, <1>2 DEF IInv, FramesLead, Leads
<1>4. f.to = n
  BY <1>3, AraAssumption DEF ForMe
<1>5. ~f.loop
  <2> SUFFICES ASSUME f.loop PROVE FALSE
    OBVIOUS
  <2>1. f.from \notin DOMAIN t[n][f.dst].hop
    BY DEF AfterOK, Failed
  <2>2. <<n, f.dst, f.from>> \in Hops(t)
    BY <1>2, <1>3, <1>4
  <2> QED BY <1>1, <2>1, <2>2, HopsOf
<1>6. Way(rt, n, f.dst)
  <2> DEFINE y == <<f.from, f.dst, f.to>>
  <2>1. y \in Hops(rt) /\ y[2] = f.dst /\ y[3] = n
    BY <1>3, <1>4, <1>5
  <2> HIDE DEF y
  <2> QED BY <1>2, <2>1 DEF IInv, NextHopKnows, Way
<1>7. Way(rt', n, f.dst)
  BY <1>1, <1>2, <1>6, WayStays DEF IInv, TablesOK, NewHopsOK
<1> QED BY <1>3, <1>5, <1>7 DEF Failed, Way

-----------------------------------------------------------------------------
(* Handlers of packets. *)

LEMMA ReturnStep ==
    ASSUME IInv, CutStep, NEW x \in air, NEW rest \in SUBSET air, Return(x[1], x[2], rest)
    PROVE  StepOK
<1> DEFINE n == x[1]
           f == x[2]
           back == [f EXCEPT !.from = n, !.to = f.from, !.ttl = @ - 1, !.loop = TRUE,
                             !.req = FALSE]
           F == {back} \cup Acks(n, f)
<1>1. /\ n \in Host /\ f \in Frames /\ f.from \in Host /\ f.ttl \in 1..DefTtl
      /\ f.kind = "data" /\ f.src # f.dst /\ f.dst # n /\ ~f.loop /\ ~f.fail
  BY FrameFields DEF IInv, AirOK, Return, ForMe, Loops
<1>2. air' = rest \cup OnAir(F) /\ rt' = rt /\ trap' = trap /\ timer' = timer
      /\ UNCHANGED <<lp, hand, wait, next, fate, took, again>>
  BY DEF Return, tables, history
<1>3. NewHopsOK /\ NewWaitsOK /\ NotesOK /\ FateOK(fate') /\ QueuesOK'
  BY <1>2, SameTable DEF NewWaitsOK, NotesOK, IInv, QueuesOK
<1>4. /\ back \in Frames /\ back.kind = "data" /\ back.src = f.src /\ back.dst = f.dst
      /\ back.from = n /\ back.to = f.from /\ back.loop = TRUE /\ back.fail = f.fail
  <2>1. f.ttl - 1 \in 0..DefTtl
    BY <1>1, AraAssumption
  <2> QED BY <1>1, <2>1 DEF Frames
<1>5. ~cut' => Leads(rt', back)
  <2> SUFFICES ASSUME ~cut' PROVE Leads(rt', back)
    OBVIOUS
  <2>1. f.to \in Host /\ <<f.from, f.dst, f.to>> \in Hops(rt)
    BY <1>1 DEF IInv, FramesLead, Leads, CutStep
  <2>2. f.to = n
    BY <1>1, <2>1, AraAssumption DEF Return, ForMe
  <2> HIDE DEF back, n, f
  <2> QED BY <1>1, <1>2, <1>4, <2>1, <2>2 DEF Leads
<1>6. \A g \in Acks(n, f) : g \in Frames /\ g.kind # "data" /\ Leads(rt', g)
  BY <1>1, AckFrame
<1>7. NewFramesOK
  <2> HIDE DEF n, f, back
  <2>1. F \in SUBSET Frames /\ (\A g \in F : g.kind = "data" => g.src # g.dst)
        /\ (\A g \in F : ~cut' => Leads(rt', g))
    BY <1>1, <1>4, <1>5, <1>6
  <2> HIDE DEF F
  <2> QED BY <1>2, <2>1, SendStep
<1> QED BY <1>3, <1>7 DEF StepOK

\* A node takes what it did not know, or what was returned to it.
LEMMA TakeNotes ==
    ASSUME IInv, NEW n \in Host, NEW f \in Frames, ~Drops(n, f), Take(n, f),
           lp' = [lp EXCEPT ![n][f.src] = Note(@, f.seq)]
    PROVE  NotesOK
<1> DEFINE id == <<n, f.src, f.seq>>
<1>1. f.src \in Host /\ f.seq \in Nat
  BY DEF Frames
<1>2. took' = took \cup {id}
  BY DEF Take
<1>3. again' # again =>
        again' = again \cup {id} /\ id \in took /\ ~Known(lp[n][f.src], f.seq)
  BY DEF Take, Drops
<1> QED BY <1>1, <1>2, <1>3 DEF NotesOK

LEMMA EndOfDataStep ==
    ASSUME IInv, CutStep, NEW x \in air, NEW rest \in SUBSET air,
           EndOfData(x[1], x[2], rest)
    PROVE  StepOK
<1> DEFINE n == x[1]
           f == x[2]
<1>1. /\ n \in Host /\ f \in Frames /\ f.kind = "data" /\ f.src # f.dst
      /\ f.src \in Host /\ f.seq \in Nat
  BY FrameFields DEF IInv, AirOK, EndOfData, ForMe
<1>2. PICK u \in Learnt(n, f, rt[n][f.src]) : rt' = AfterData(n, f, u)
  BY DEF EndOfData
<1>3. AfterOK(rt', n, f)
  BY <1>1, <1>2, AfterDataOK
<1>4. NewHopsOK
  BY <1>1, <1>3, DataHops DEF AfterOK
<1>5. /\ lp' = [lp EXCEPT ![n][f.src] = Note(@, f.seq)]
      /\ air' = rest \cup OnAir(Acks(n, f))
      /\ trap' = trap /\ timer' = timer /\ hand' = hand /\ wait' = wait /\ next' = next
  BY DEF EndOfData
<1>6. NotesOK /\ FateOK(fate')
  <2>1. CASE Drops(n, f)
    <3>1. fate' = fate /\ took' = took /\ again' = again
      BY <2>1 DEF EndOfData, history
    <3> QED BY <1>1, <1>5, <3>1 DEF NotesOK, IInv
  <2>2. CASE ~Drops(n, f)
    <3>1. Take(n, f) /\ fate' = [fate EXCEPT ![<<f.src, f.seq>>] = "delivered"]
      BY <2>2 DEF EndOfData
    <3> QED BY <1>1, <1>5, <2>2, <3>1, TakeNotes, FateChanges DEF IInv, Fates
  <2> QED BY <2>1, <2>2
<1>7. NewWaitsOK /\ QueuesOK'
  BY <1>5 DEF NewWaitsOK, IInv, QueuesOK
<1>8. NewFramesOK
  <2>1. \A g \in Acks(n, f) : g \in Frames /\ g.kind # "data" /\ Leads(rt', g)
    BY <1>1, AckFrame
  <2> QED BY <1>5, <2>1, SendStep
<1> QED BY <1>4, <1>6, <1>7, <1>8 DEF StepOK

LEMMA RelayStep ==
    ASSUME IInv, CutStep, NEW x \in air, NEW rest \in SUBSET air, Relay(x[1], x[2], rest)
    PROVE  StepOK
<1> DEFINE n == x[1]
           f == x[2]
           p == [f EXCEPT !.loop = FALSE, !.req = FALSE]
<1>1. /\ n \in Host /\ f \in Frames /\ f.kind = "data" /\ f.src # f.dst
      /\ f.src \in Host /\ f.dst \in Host /\ f.seq \in Nat /\ f.dst # n /\ f.ttl > 0
  BY FrameFields DEF IInv, AirOK, FrameOK, Relay, Passes, ForMe
<1>2. PICK u \in Learnt(n, f, rt[n][f.src]) :
        \E h \in DOMAIN AfterData(n, f, u)[n][f.dst].hop :
           LET after == AfterData(n, f, u) IN
           /\ rt' = [after EXCEPT ![n][f.dst].bant = FALSE]
           /\ wait' = [wait EXCEPT ![n] = @ \cup {Waiting(f.src, f.seq, h, f.dst)}]
           /\ air' = rest \cup OnAir({Outgoing(n, p, after[n][f.dst], h)} \cup Acks(n, f))
  BY DEF Relay
<1> DEFINE after == AfterData(n, f, u)
<1>3. PICK h \in DOMAIN after[n][f.dst].hop :
        /\ rt' = [after EXCEPT ![n][f.dst].bant = FALSE]
        /\ wait' = [wait EXCEPT ![n] = @ \cup {Waiting(f.src, f.seq, h, f.dst)}]
        /\ air' = rest \cup OnAir({Outgoing(n, p, after[n][f.dst], h)} \cup Acks(n, f))
  BY <1>2
<1>4. AfterOK(after, n, f)
  BY <1>1, AfterDataOK
<1> HIDE DEF after
<1>5. after \in [Host -> [Host -> Entries]] /\ h \in Host
  BY <1>1, <1>3, <1>4 DEF AfterOK, Entries, HopTables
<1>6. /\ rt' \in [Host -> [Host -> Entries]] /\ Hops(rt') = Hops(after)
      /\ \A m, b \in Host : rt'[m][b].hop = after[m][b].hop
  <2>1. rt' = BantSent(after, n, f.dst)
    BY <1>3 DEF BantSent
  <2> DEFINE d == f.dst
  <2>2. rt' = BantSent(after, n, d) /\ n \in Host /\ d \in Host
        /\ after \in [Host -> [Host -> Entries]]
    BY <1>1, <1>5, <2>1
  <2> HIDE DEF n, f, d
  <2>3. rt' \in [Host -> [Host -> Entries]] /\ Hops(rt') = Hops(after)
    BY <2>2, BantOff
  <2>4. \A m, b \in Host : BantSent(after, n, d)[m][b].hop = after[m][b].hop
    BY <2>2, BantHop
  <2> QED BY <2>2, <2>3, <2>4
<1>7. NewHopsOK
  BY <1>1, <1>4, <1>6, DataHops
<1>8. NotesOK
  BY <1>1, TakeNotes DEF Relay, Passes
<1>9. <<n, f.dst, h>> \in Hops(rt')
  BY <1>1, <1>3, <1>5, <1>6, HopsOf
<1>10. NewWaitsOK
  <2> DEFINE w == Waiting(f.src, f.seq, h, f.dst)
             y == <<n, f.dst, h>>
  <2>1. w.hop = h /\ w.dst = f.dst
    BY DEF Waiting
  <2>2. \A m \in Host : wait'[m] \subseteq wait[m] \cup {w}
    BY <1>3 DEF IInv, QueuesOK
  <2>3. y \in Hops(rt') /\ y[2] = f.dst /\ y[3] = h
    BY <1>9
  <2> HIDE DEF w, y
  <2>4. ~cut' => Way(rt', h, f.dst)
    BY <1>7, <2>3, HopsLead DEF NextHopKnows, Way
  <2> QED BY <2>1, <2>2, <2>4 DEF NewWaitsOK
<1>11. QueuesOK'
  <2>1. Waiting(f.src, f.seq, h, f.dst) \in Waits
    BY <1>1, <1>5, WireType DEF Waiting, Waits
  <2>2. wait' \in [Host -> SUBSET Waits]
    BY <1>3, <2>1 DEF IInv, QueuesOK
  <2>3. trap' = trap /\ timer' = timer /\ hand' = hand /\ next' = next
    BY DEF Relay
  <2> QED BY <2>2, <2>3 DEF IInv, QueuesOK
<1>12. p \in Frames /\ p.ttl > 0 /\ p.kind = "data" /\ p.src = f.src /\ p.dst = f.dst
       /\ p.loop = FALSE /\ p.fail = f.fail
  BY <1>1 DEF Frames
<1> DEFINE g == Outgoing(n, p, after[n][f.dst], h)
<1>13. /\ g \in Frames /\ g.kind = "data" /\ g.src = f.src /\ g.dst = f.dst
       /\ g.from = n /\ g.to = h /\ g.loop = FALSE /\ g.fail = f.fail
  <2> HIDE DEF n, f, p
  <2> QED BY <1>1, <1>5, <1>12, OutgoingFrame
<1> HIDE DEF g
<1>14. ~cut' => Leads(rt', g)
  <2> SUFFICES ASSUME ~cut' PROVE Leads(rt', g)
    OBVIOUS
  <2>1. ~f.fail /\ ~Failed(n, f)
    BY <1>1, <1>4, <1>6, <1>7, DataUncut DEF Relay, Passes
  <2>2. Way(rt', n, f.src)
    BY <1>1, <1>4, <1>6, <2>1 DEF AfterOK, Way
  <2> HIDE DEF n, f
  <2> QED BY <1>5, <1>9, <1>13, <2>1, <2>2 DEF Leads
<1>15. \A a \in Acks(n, f) : a \in Frames /\ a.kind # "data" /\ Leads(rt', a)
  BY <1>1, AckFrame
<1>16. NewFramesOK
  <2> DEFINE F == {g} \cup Acks(n, f)
  <2>1. air' = rest \cup OnAir(F)
    BY <1>3 DEF g
  <2>2. F \in SUBSET Frames /\ (\A a \in F : a.kind = "data" => a.src # a.dst)
        /\ (\A a \in F : ~cut' => Leads(rt', a))
    BY <1>1, <1>13, <1>14, <1>15
  <2> HIDE DEF F
  <2> QED BY <2>1, <2>2, SendStep
<1>17. FateOK(fate')
  BY DEF Relay, IInv
<1> QED BY <1>7, <1>8, <1>10, <1>11, <1>16, <1>17 DEF StepOK

LEMMA FloodStep ==
    ASSUME IInv, CutStep, NEW x \in air, NEW rest \in SUBSET air, Flood(x[1], x[2], rest)
    PROVE  StepOK
<1> DEFINE n == x[1]
           f == x[2]
           g == [f EXCEPT !.from = n, !.to = IF f.fail THEN @ ELSE All,
                          !.ttl = IF f.fail THEN @ - 1 ELSE @,
                          !.loop = FALSE, !.fail = TRUE, !.req = FALSE]
<1>1. /\ n \in Host /\ f \in Frames /\ f.kind = "data" /\ f.src # f.dst
      /\ f.src \in Host /\ f.dst \in Host /\ f.seq \in Nat /\ f.dst # n
      /\ f.ttl \in 1..DefTtl
  BY FrameFields DEF IInv, AirOK, Flood, Passes, ForMe
<1>2. PICK u \in Learnt(n, f, rt[n][f.src]) :
        rt' = AfterData(n, f, u) /\ rt'[n][f.dst].hop = <<>>
  BY DEF Flood
<1>3. AfterOK(rt', n, f)
  BY <1>1, <1>2, AfterDataOK
<1>4. NewHopsOK
  BY <1>1, <1>3, DataHops DEF AfterOK
<1>5. NotesOK
  BY <1>1, TakeNotes DEF Flood, Passes
<1>6. /\ air' = rest \cup OnAir({g} \cup Acks(n, f))
      /\ trap' = trap /\ timer' = timer /\ hand' = hand /\ wait' = wait /\ next' = next
      /\ fate' = fate
  BY DEF Flood
<1>7. NewWaitsOK /\ QueuesOK' /\ FateOK(fate')
  BY <1>6 DEF NewWaitsOK, IInv, QueuesOK
<1>8. cut'
  <2>1. rt'[n][f.dst].hop # <<>> \/ cut'
    BY <1>1, <1>3, <1>4, DataUncut DEF Flood, Passes
  <2> QED BY <1>2, <2>1
<1>9. g \in Frames /\ g.src = f.src /\ g.dst = f.dst
  <2>1. (IF f.fail THEN f.ttl - 1 ELSE f.ttl) \in 0..DefTtl
    BY <1>1, AraAssumption
  <2> QED BY <1>1, <2>1 DEF Frames
<1>10. \A a \in Acks(n, f) : a \in Frames /\ a.kind # "data"
  BY <1>1, AckFrame
<1>11. NewFramesOK
  <2> DEFINE F == {g} \cup Acks(n, f)
  <2>1. air' = rest \cup OnAir(F)
    BY <1>6
  <2> HIDE DEF g
  <2>2. F \in SUBSET Frames /\ (\A a \in F : a.kind = "data" => a.src # a.dst)
    BY <1>1, <1>9, <1>10
  <2> HIDE DEF F
  <2> QED BY <1>8, <2>1, <2>2, SendStep
<1> QED BY <1>4, <1>5, <1>7, <1>11 DEF StepOK

LEMMA TrapReturnedStep ==
    ASSUME IInv, CutStep, NEW x \in air, NEW rest \in SUBSET air,
           TrapReturned(x[1], x[2], rest)
    PROVE  StepOK
<1> DEFINE n == x[1]
           f == x[2]
           p == [f EXCEPT !.fail = FALSE, !.loop = FALSE, !.req = FALSE]
           all == rest \cup OnAir(Acks(n, f))
<1>1. /\ n \in Host /\ f \in Frames /\ f.kind = "data" /\ f.src # f.dst
      /\ f.src \in Host /\ f.dst \in Host /\ f.seq \in Nat /\ f.dst # n
      /\ f.ttl > 0 /\ f.src = n /\ f.fail
  BY FrameFields DEF IInv, AirOK, FrameOK, TrapReturned, Passes, ForMe
<1>2. rt[n][f.src] \in Learnt(n, f, rt[n][f.src])
  BY <1>1 DEF Learnt
<1>3. rt' = AfterData(n, f, rt[n][f.src])
  BY <1>1 DEF TrapReturned
<1>4. AfterOK(rt', n, f)
  BY <1>1, <1>2, <1>3, AfterDataOK
<1>5. NewHopsOK
  BY <1>1, <1>4, DataHops DEF AfterOK
<1>6. NotesOK
  BY <1>1, TakeNotes DEF TrapReturned, Passes
<1>7. cut'
  BY <1>1, <1>4, <1>5, DataUncut DEF TrapReturned, Passes
<1>8. p \in Held(n)
  BY <1>1 DEF Held, Frames
<1>9. TrapPacket(n, p, 0, next[n], all) /\ hand' = hand /\ wait' = wait /\ fate' = fate
  BY DEF TrapReturned
<1>10. next[n] \in Nat
  BY <1>1 DEF IInv, QueuesOK
<1>11. \A a \in Acks(n, f) : a \in Frames /\ a.kind # "data"
  BY <1>1, AckFrame
<1>12. \A y \in all \ air : FrameOK(y)
  <2> DEFINE F == Acks(n, f)
  <2>1. \A y \in all \ air : y \in OnAir(F)
    OBVIOUS
  <2>2. F \in SUBSET Frames /\ \A a \in F : a.kind # "data"
    BY <1>11
  <2> HIDE DEF F
  <2> QED BY <2>1, <2>2, SentFrames
<1> HIDE DEF p, all, n, f
<1>13. /\ trap' \in [Host -> [Host -> Seq(InTrap(Frames))]]
       /\ \A m, d \in Host : trap'[m][d] \in Seq(InTrap(HeldFor(m, d)))
       /\ timer' \in [Host -> SUBSET Host] /\ next' \in [Host -> Nat]
       /\ \A y \in air' \ all : FrameOK(y) /\ \A t : Leads(t, y[2])
  BY <1>1, <1>8, <1>9, <1>10, TrapStep
<1>14. NewFramesOK
  BY <1>7, <1>12, <1>13 DEF NewFramesOK
<1>15. NewWaitsOK /\ QueuesOK' /\ FateOK(fate')
  BY <1>9, <1>13 DEF NewWaitsOK, IInv, QueuesOK
<1> QED BY <1>5, <1>6, <1>14, <1>15 DEF StepOK

LEMMA HandleStep ==
    ASSUME IInv, CutStep, NEW x \in air, NEW rest \in SUBSET air, Handle(x[1], x[2], rest)
    PROVE  StepOK
BY OverhearStep, ReceiveAntStep, DropOwnAntStep, ReturnStep, EndOfDataStep, RelayStep,
   FloodStep, TrapReturnedStep DEF Handle

-----------------------------------------------------------------------------
(* Faults and timeouts. *)

\* A route to d that only gets worse.
LEMMA EntryShrinks ==
    ASSUME IInv, NEW n \in Host, NEW d \in Host, NEW u \in Entries,
           DOMAIN u.hop \subseteq DOMAIN rt[n][d].hop,
           rt' = [rt EXCEPT ![n][d] = u]
    PROVE  NewHopsOK
<1>1. rt \in [Host -> [Host -> Entries]] /\ rt[n] \in [Host -> Entries]
  BY DEF IInv, TablesOK
<1>2. rt' \in [Host -> [Host -> Entries]]
  <2>1. [rt[n] EXCEPT ![d] = u] \in [Host -> Entries]
    BY <1>1
  <2>2. rt' = [rt EXCEPT ![n] = [rt[n] EXCEPT ![d] = u]]
    OBVIOUS
  <2> QED BY <1>1, <2>1, <2>2
<1>3. \A m, b \in Host : rt'[m][b] = IF m = n /\ b = d THEN u ELSE rt[m][b]
  BY <1>1
<1> QED BY <1>2, <1>3, JustifiedHops

LEMMA LoseStep ==
    ASSUME IInv, Lose
    PROVE  StepOK
<1>1. air' \subseteq air /\ UNCHANGED <<rt, lp, trap, timer, hand, wait, next, fate, took, again>>
  BY DEF Lose, tables, history
<1> QED BY <1>1, SameTable DEF StepOK, NewFramesOK, NewWaitsOK, NotesOK, IInv, QueuesOK

LEMMA AckMissedStep ==
    ASSUME IInv, NEW n \in Host, NEW w \in wait[n], AckMissed(n, w)
    PROVE  StepOK
<1> DEFINE e == rt[n][w.dst]
           Paid(h) == [e EXCEPT !.hop[h].credit = @ - 1]
           Left(h) == IF e.hop[h].credit <= 1 THEN Delete(Paid(h), w.hop) ELSE Paid(h)
<1>1. /\ wait' = [wait EXCEPT ![n] = @ \ {w}]
      /\ UNCHANGED <<lp, trap, timer, hand, next, air, fate, took, again>>
      /\ rt' = rt \/ \E h \in DOMAIN e.hop : rt' = [rt EXCEPT ![n][w.dst] = Left(h)]
  BY DEF AckMissed, history
<1>2. wait[n] \in SUBSET Waits
  BY DEF IInv, QueuesOK
<1>3. w.dst \in Host /\ e \in Entries
  BY <1>2 DEF Waits, IInv, TablesOK
<1>4. NewHopsOK
  <2>1. CASE rt' = rt
    BY <2>1, SameTable
  <2>2. ASSUME NEW h \in DOMAIN e.hop, rt' = [rt EXCEPT ![n][w.dst] = Left(h)]
        PROVE  NewHopsOK
    <3>1. Paid(h) \in Entries /\ DOMAIN Paid(h).hop = DOMAIN e.hop
      <4>1. PICK D \in SUBSET Host : e.hop \in [D -> Hop]
        BY <1>3 DEF Entries, HopTables
      <4> DEFINE g == [e.hop EXCEPT ![h].credit = @ - 1]
      <4>2. e.hop[h] \in Hop
        BY <4>1
      <4>3. [e.hop[h] EXCEPT !.credit = @ - 1] \in Hop
        BY <4>2 DEF Hop
      <4>4. g \in [D -> Hop] /\ DOMAIN g = DOMAIN e.hop
        BY <4>1, <4>3
      <4>5. Paid(h) = [e EXCEPT !.hop = g]
        BY <1>3
      <4> HIDE DEF g
      <4>6. g \in HopTables
        BY <4>4 DEF HopTables
      <4> QED BY <1>3, <4>4, <4>5, <4>6 DEF Entries
    <3>2. Left(h) \in Entries /\ DOMAIN Left(h).hop \subseteq DOMAIN e.hop
      <4> HIDE DEF Paid, e
      <4> QED BY <3>1, DeleteEntry
    <3> DEFINE u == Left(h)
    <3>3. u \in Entries /\ DOMAIN u.hop \subseteq DOMAIN rt[n][w.dst].hop
          /\ rt' = [rt EXCEPT ![n][w.dst] = u]
      BY <2>2, <3>2
    <3> HIDE DEF u
    <3> QED BY <1>3, <3>3, EntryShrinks
  <2> QED BY <1>1, <2>1, <2>2
<1>5. \A m \in Host : wait'[m] \subseteq wait[m]
  BY <1>1 DEF IInv, QueuesOK
<1>6. QueuesOK'
  <2>1. wait' \in [Host -> SUBSET Waits]
    BY <1>1 DEF IInv, QueuesOK
  <2> QED BY <1>1, <2>1 DEF IInv, QueuesOK
<1> QED BY <1>1, <1>4, <1>5, <1>6 DEF StepOK, NewFramesOK, NewWaitsOK, NotesOK, IInv

LEMMA EvaporateStep ==
    ASSUME IInv, NEW n \in Host, NEW d \in Host, NEW h, Evaporate(n, d, h)
    PROVE  StepOK
<1> DEFINE u == Delete(rt[n][d], h)
<1>1. /\ rt' = [rt EXCEPT ![n][d] = u]
      /\ UNCHANGED <<lp, trap, timer, hand, wait, next, air, fate, took, again>>
  BY DEF Evaporate, history
<1>2. rt[n][d] \in Entries
  BY DEF IInv, TablesOK
<1>3. u \in Entries /\ DOMAIN u.hop \subseteq DOMAIN rt[n][d].hop
  BY <1>2, DeleteEntry
<1> HIDE DEF u
<1>4. NewHopsOK
  BY <1>1, <1>3, EntryShrinks
<1> QED BY <1>1, <1>4 DEF StepOK, NewFramesOK, NewWaitsOK, NotesOK, IInv, QueuesOK

-----------------------------------------------------------------------------
(* Results. *)

LEMMA InitInv == Init => IInv
<1> SUFFICES ASSUME Init PROVE IInv
  OBVIOUS
<1>1. NoRoute \in Entries /\ DOMAIN NoRoute.hop = {}
  BY NoRouteType
<1>2. TablesOK /\ Hops(rt) = {}
  BY <1>1 DEF Init, TablesOK, Hops
<1>3. SeenOK
  BY DEF Init, SeenOK, SeenEntries
<1>4. QueuesOK
  BY EmptySeq, AraAssumption DEF Init, QueuesOK
<1>5. FateOK(fate)
  <2>1. <<>> \in [1..0 -> Fates]
    BY EmptySeq, LenProperties
  <2>2. fate \in [{} -> Fates] /\ {} \in SUBSET (Host \X Nat)
    BY <2>1 DEF Init
  <2> QED BY <2>2 DEF FateOK
<1>6. AirOK /\ TookKnown /\ TakenOnce /\ FramesLead /\ cut \in BOOLEAN
  BY DEF Init, AirOK, TookKnown, TakenOnce, FramesLead
<1>7. NextHopKnows
  BY <1>2 DEF NextHopKnows
<1>8. WaitsLead
  BY DEF Init, WaitsLead
<1> QED BY <1>2, <1>3, <1>4, <1>5, <1>6, <1>7, <1>8 DEF IInv

\* Every step keeps the invariant: each handler, host, timer and fault.
LEMMA NextInv ==
    ASSUME IInv, Next
    PROVE  IInv'
<1>1. CutStep
  BY DEF Next, CutStep
<1>2. StepOK
  <2>1. CASE \E r \in Request : HostSends(r)
    BY <1>1, <2>1, HostSendsStep
  <2>2. ASSUME NEW n \in Host, Retry(n) \/ \E d \in Host : TimerFires(n, d)
        PROVE  StepOK
    BY <1>1, <2>2, RetryStep, TimerFiresStep
  <2>3. CASE Receive
    BY <1>1, <2>3, HandleStep DEF Receive
  <2>4. CASE Repeat
    BY <1>1, <2>4, HandleStep DEF Repeat
  <2>5. CASE Lose
    BY <2>5, LoseStep
  <2>6. ASSUME NEW n \in Host, NEW w \in wait[n], AckMissed(n, w) PROVE StepOK
    BY <2>6, AckMissedStep
  <2>7. ASSUME NEW n \in Host, NEW d \in Host, NEW h, Evaporate(n, d, h) PROVE StepOK
    BY <2>7, EvaporateStep
  <2> QED BY <2>1, <2>2, <2>3, <2>4, <2>5, <2>6, <2>7 DEF Next, Step
<1> QED BY <1>1, <1>2, StepInv

LEMMA StutterInv == IInv /\ UNCHANGED vars => IInv'
BY DEF IInv, vars, state, tables, history, TablesOK, SeenOK, QueuesOK, AirOK, TookKnown,
       TakenOnce, NextHopKnows, FramesLead, WaitsLead

\* In every mesh the tables, queues and frames are well-formed, what was taken
\* stays known until a number of its source came too late for 16 bits, and until
\* a next hop is given up all frames come from nodes that know a way.
THEOREM Invariance == Spec => []IInv
<1>1. IInv /\ [Next]_vars => IInv'
  BY NextInv, StutterInv
<1> QED BY InitInv, <1>1, PTL DEF Spec

LEMMA IInvTypeOK == IInv => TypeOK
<1> SUFFICES ASSUME IInv PROVE TypeOK
  OBVIOUS
<1>1. ASSUME NEW n \in Host, NEW d \in Host
      PROVE  LET e == rt[n][d] IN
             /\ DOMAIN e.hop \subseteq {h \in Host : <<h, n>> \in Link}
             /\ e.bant \in BOOLEAN
             /\ \A h \in DOMAIN e.hop : e.hop[h] \in Hop
  <2> DEFINE e == rt[n][d]
  <2>1. e \in Entries
    BY DEF IInv, TablesOK
  <2>2. DOMAIN e.hop \subseteq Host /\ \A h \in DOMAIN e.hop : e.hop[h] \in Hop
    BY <2>1 DEF Entries, HopTables
  <2>3. ASSUME NEW h \in DOMAIN e.hop PROVE <<h, n>> \in Link
    <3> DEFINE x == <<n, d, h>>
    <3>1. h \in Host /\ x[1] = n /\ x[3] = h
      BY <2>2
    <3>2. x \in Hops(rt)
      BY <3>1, HopsOf
    <3> HIDE DEF x
    <3> QED BY <3>1, <3>2 DEF IInv, TablesOK
  <2> QED BY <2>1, <2>2, <2>3 DEF Entries
<1>2. ASSUME NEW n \in Host, NEW d \in Host, NEW x \in ToSet(trap[n][d])
      PROVE  x.packet \in Frames /\ x.packet.dst = d /\ x.count \in 1..RetryMax
  <2>1. trap[n][d] \in Seq(InTrap(HeldFor(n, d)))
    BY DEF IInv, QueuesOK
  <2>2. x \in InTrap(HeldFor(n, d))
    BY <2>1 DEF ToSet
  <2> QED BY <2>2 DEF InTrap, HeldFor, Held
<1>3. \A n, d \in Host : lp[n][d] \in SeenEntries
  BY DEF IInv, SeenOK
<1>4. \A n \in Host : timer[n] \subseteq Host /\ next[n] \in Nat
  BY DEF IInv, QueuesOK
<1>5. \A x \in air : x[1] \in Host /\ x[2] \in Frames
  BY DEF IInv, AirOK, FrameOK
<1>6. \A id \in DOMAIN fate : fate[id] \in Fates
  BY DEF IInv, FateOK
<1> QED BY <1>1, <1>2, <1>3, <1>4, <1>5, <1>6 DEF TypeOK, Hop, Fates, SeenEntries

\* In every mesh the tables, the queues and the frames keep their types: next
\* hops are neighbours, trapped packets wait for their own destination, and
\* the bits of seen sequence numbers fit the window.
THEOREM TypeCorrect == Spec => []TypeOK
BY Invariance, IInvTypeOK, PTL

\* "The message will be dropped if this node did forward exactly this message":
\* nobody takes a packet twice but what was returned to it, for every network,
\* window and order of frames, until a number of its source came in after one
\* from behind a wrap of the numbers or after half of all numbers.
THEOREM NeverTakenTwice == Spec => []TakenOnce
<1>1. IInv => TakenOnce
  BY DEF IInv
<1> QED BY Invariance, <1>1, PTL

\* Routes of ants and packets lead on in every mesh, until the first next hop
\* is given up.
THEOREM NextHopsLeadOn == Spec => []NextHopKnows
<1>1. IInv => NextHopKnows
  BY DEF IInv
<1> QED BY Invariance, <1>1, PTL
=============================================================================
