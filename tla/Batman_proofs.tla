--------------------------- MODULE Batman_proofs ---------------------------
(***************************************************************************)
(* Proofs about des-batman, for any mesh, window size, number of OGMs and  *)
(* faults: the route that batman_db_rt_getbestroute reads without a check  *)
(* is there, as long as the numbers that meet in a window lie so close     *)
(* together that their order is plain.  EntryOk is what every entry keeps. *)
(* The types, at the end, need no condition on the numbers: StateTyped is  *)
(* TypeOK with the threads and the list of interfaces of an entry.         *)
(***************************************************************************)
EXTENDS Batman, FiniteSetTheorems, SequenceTheorems, WellFoundedInduction, TLAPS

\* Every set of numbers has a least one: how the inductions below are done.
LEMMA LeastNat ==
    ASSUME NEW T, T \subseteq Nat, T # {}
    PROVE  \E x \in T : \A y \in T : x <= y
<1> DEFINE R == {ss \in Nat \X Nat : ss[1] < ss[2]}
<1>1. IsWellFoundedOn(R, Nat)
    BY NatLessThanWellFounded DEF OpToRel
<1>2. \E x \in T : \A y \in T : <<y, x>> \notin R
    <2> HIDE DEF R
    <2> QED
        BY <1>1, WFMin
<1>3. PICK x \in T : \A y \in T : <<y, x>> \notin R
    BY <1>2
<1>4. ASSUME NEW y \in T PROVE x <= y
    <2>1. <<y, x>> \notin R /\ x \in Nat /\ y \in Nat
        BY <1>3
    <2> QED
        BY <2>1
<1> QED
    BY <1>4

-----------------------------------------------------------------------------

LEMMA ModOfDiff ==
    ASSUME NEW S \in Nat \ {0}, NEW x \in 0 .. S - 1, NEW q \in Int
    PROVE  (x - S * q) % S = x
OBVIOUS

LEMMA Division ==
    ASSUME NEW S \in Nat \ {0}, NEW a \in Int
    PROVE  a \div S \in Int /\ a % S \in 0 .. S - 1 /\ a = S * (a \div S) + (a % S)
OBVIOUS

LEMMA CompOfNear ==
    ASSUME NEW a \in Int, NEW d \in Nat, d < (SeqMod - 1) \div 2
    PROVE  /\ d # 0 => Comp((a + d) % SeqMod, a % SeqMod) = 1
           /\ d # 0 => Comp(a % SeqMod, (a + d) % SeqMod) = -1
           /\ d # 0 => (a + d) % SeqMod # a % SeqMod
<1> DEFINE S == SeqMod
           b == a + d
           qa == a \div S
           qb == b \div S
           ra == a % S
           rb == b % S
           half == (S - 1) \div 2
<1>1. S \in Nat \ {0} /\ S >= 8 /\ half \in Nat /\ 2 * half <= S - 1
    BY SeqModAssumption
<1>2. b \in Int
    OBVIOUS
<1>3. qa \in Int /\ ra \in 0 .. S - 1 /\ a = S * qa + ra
    BY <1>1, Division
<1>4. qb \in Int /\ rb \in 0 .. S - 1 /\ b = S * qb + rb
    <2> HIDE DEF b
    <2> QED
        BY <1>1, <1>2, Division
<1>5. d < half
    OBVIOUS
<1> HIDE DEF S, qa, qb, ra, rb, half
<1>6. rb - ra = d - S * (qb - qa)
    <2> DEFINE pa == S * qa
               pb == S * qb
    <2>1. S * (qb - qa) = pb - pa
        BY <1>1, <1>3, <1>4
    <2>2. pb \in Int /\ pa \in Int
        BY <1>1, <1>3, <1>4
    <2>3. a = pa + ra /\ a + d = pb + rb
        BY <1>3, <1>4
    <2> HIDE DEF pa, pb
    <2>4. rb - ra = d - (pb - pa)
        BY <1>3, <1>4, <2>2, <2>3
    <2> QED
        BY <2>1, <2>4
<1>7. (rb - ra) % S = d
    <2>1. d \in 0 .. S - 1 /\ qb - qa \in Int
        BY <1>1, <1>3, <1>4, <1>5
    <2> QED
        BY <1>1, <1>6, <2>1, ModOfDiff
<1>8. ASSUME d # 0 PROVE (ra - rb) % S = S - d
    <2> DEFINE pa == S * qa
               pb == S * qb
    <2>1. S * (qa - qb + 1) = pa - pb + S
        BY <1>1, <1>3, <1>4
    <2>2. pb \in Int /\ pa \in Int /\ a = pa + ra /\ a + d = pb + rb
        BY <1>1, <1>3, <1>4
    <2>3. ra - rb = (S - d) - S * (qa - qb + 1)
        <3> HIDE DEF pa, pb
        <3>1. ra - rb = (S - d) - (pa - pb + S)
            BY <1>1, <1>3, <1>4, <2>2
        <3> QED
            BY <2>1, <3>1
    <2>4. S - d \in 0 .. S - 1 /\ qa - qb + 1 \in Int
        BY <1>1, <1>3, <1>4, <1>5, <1>8
    <2> QED
        BY <1>1, <2>3, <2>4, ModOfDiff
<1>9. ra % S = ra /\ rb % S = rb
    BY <1>1, <1>3, <1>4
<1>10. ASSUME d # 0 PROVE ra # rb
    <2>1. 0 % S = 0
        BY <1>1
    <2>2. ra = rb => ra - rb = 0
        BY <1>3
    <2>3. S - d # 0
        BY <1>1, <1>5
    <2> QED
        BY <2>1, <2>2, <2>3, <1>8, <1>10
<1>11. ASSUME d # 0 PROVE Comp(rb, ra) = 1 /\ Comp(ra, rb) = -1
    <2>1. ~(S - d < half)
        BY <1>1, <1>5
    <2> QED
        BY <1>5, <1>7, <1>8, <1>9, <1>10, <1>11, <2>1 DEF Comp, S, half
<1> QED
    BY <1>10, <1>11 DEF ra, rb, S

LEMMA LeastOf ==
    ASSUME NEW C, NEW m \in [C -> Nat], C # {}
    PROVE  \E x \in C : \A y \in C : m[x] <= m[y]
<1> DEFINE T == {m[e] : e \in C}
<1>1. T \subseteq Nat /\ T # {}
    OBVIOUS
<1>2. \E h \in T : \A g \in T : h <= g
    <2> HIDE DEF T
    <2> QED
        BY <1>1, LeastNat
<1>3. PICK h \in T : \A g \in T : h <= g
    BY <1>2
<1>4. PICK x \in C : m[x] = h
    OBVIOUS
<1>5. \A y \in C : m[y] \in T
    OBVIOUS
<1> HIDE DEF T
<1> QED
    BY <1>3, <1>4, <1>5


-----------------------------------------------------------------------------
(* Numbers that are close together. *)

Half == (SeqMod - 1) \div 2

LEMMA HalfFacts == SeqMod \in Nat /\ SeqMod >= 8 /\ Half \in Nat /\ 2 * Half <= SeqMod - 1
BY SeqModAssumption DEF Half

\* The r-th number behind base.
Num(base, r) == (base + r) % SeqMod

Arc(base, span) == {Num(base, r) : r \in 0 .. span}

LEMMA ModFacts ==
    ASSUME NEW a \in Int
    PROVE  a % SeqMod \in SeqNum /\ (a % SeqMod) % SeqMod = a % SeqMod
<1> DEFINE b == a % SeqMod
<1>1. b \in 0 .. SeqMod - 1
    BY HalfFacts, Division
<1> HIDE DEF b
<1>2. b % SeqMod = b
    BY <1>1, HalfFacts
<1> QED
    BY <1>1, <1>2 DEF b, SeqNum

LEMMA SameMod ==
    ASSUME NEW a \in Int, NEW b \in Int, NEW q \in Int, a = b + SeqMod * q
    PROVE  a % SeqMod = b % SeqMod
<1> DEFINE x == b % SeqMod
           p == b \div SeqMod
<1>1. p \in Int /\ x \in 0 .. SeqMod - 1 /\ b = SeqMod * p + x
    BY HalfFacts, Division
<1> HIDE DEF x, p
<1>2. SeqMod * (- (p + q)) = - (SeqMod * p + SeqMod * q)
    BY <1>1, HalfFacts
<1>3. a = x - SeqMod * (- (p + q))
    <2> DEFINE u == SeqMod * p
               v == SeqMod * q
               w == SeqMod * (- (p + q))
    <2>1. u \in Int /\ v \in Int /\ w \in Int
        BY <1>1, HalfFacts
    <2>2. w = - (u + v) /\ a = b + v /\ b = u + x
        BY <1>1, <1>2
    <2> HIDE DEF u, v, w
    <2>3. a = x - w
        BY <1>1, <2>1, <2>2
    <2> QED
        BY <2>3 DEF w
<1>4. SeqMod \in Nat \ {0} /\ - (p + q) \in Int
    BY <1>1, HalfFacts
<1>5. (x - SeqMod * (- (p + q))) % SeqMod = x
    BY <1>1, <1>4, ModOfDiff
<1> QED
    BY <1>3, <1>5 DEF x

\* hf_seq_comp_i_j only looks at the numbers modulo SeqMod.
LEMMA CompMod ==
    ASSUME NEW i \in Int, NEW j \in Int
    PROVE  Comp(i, j) = Comp(i % SeqMod, j % SeqMod)
<1> DEFINE x == i % SeqMod
           y == j % SeqMod
           p == i \div SeqMod
           q == j \div SeqMod
<1>1. /\ p \in Int /\ x \in 0 .. SeqMod - 1 /\ i = SeqMod * p + x
      /\ q \in Int /\ y \in 0 .. SeqMod - 1 /\ j = SeqMod * q + y
    <2>1. SeqMod \in Nat \ {0}
        BY HalfFacts
    <2>2. p \in Int /\ x \in 0 .. SeqMod - 1 /\ i = SeqMod * p + x
        BY <2>1, Division
    <2>3. q \in Int /\ y \in 0 .. SeqMod - 1 /\ j = SeqMod * q + y
        BY <2>1, Division
    <2> HIDE DEF x, y, p, q
    <2> QED
        BY <2>2, <2>3
<1>2. x % SeqMod = x /\ y % SeqMod = y
    BY ModFacts
<1>3. (i - j) % SeqMod = (x - y) % SeqMod
    <2> HIDE DEF x, y, p, q
    <2>1. i - j = (x - y) + SeqMod * (p - q)
        <3> DEFINE u == SeqMod * p
                   v == SeqMod * q
                   w == SeqMod * (p - q)
        <3>1. u \in Int /\ v \in Int /\ w \in Int /\ w = u - v
            BY <1>1, HalfFacts
        <3>2. i = u + x /\ j = v + y /\ x \in Int /\ y \in Int
            BY <1>1
        <3> HIDE DEF u, v, w
        <3>3. i - j = (x - y) + w
            BY <3>1, <3>2
        <3> QED
            BY <3>3 DEF w
    <2>2. i - j \in Int /\ x - y \in Int /\ p - q \in Int
        BY <1>1
    <2> QED
        BY <2>1, <2>2, SameMod
<1>4. Comp(i, j) = IF x = y THEN 0 ELSE IF (i - j) % SeqMod < Half THEN 1 ELSE -1
    BY DEF Comp, Half
<1> HIDE DEF x, y
<1>5. Comp(x, y) = IF x = y THEN 0 ELSE IF (x - y) % SeqMod < Half THEN 1 ELSE -1
    BY <1>2 DEF Comp, Half
<1>6. Comp(i, j) = Comp(x, y)
    BY <1>3, <1>4, <1>5
<1> QED
    BY <1>6 DEF x, y

\* Ranks that are less than half the range apart are told by their numbers.
LEMMA CompOfNums ==
    ASSUME NEW base \in Int, NEW r \in Nat, NEW p \in Nat,
           r < Half, p < Half
    PROVE  /\ r > p => Comp(Num(base, r), Num(base, p)) = 1
           /\ r < p => Comp(Num(base, r), Num(base, p)) = -1
<1>1. ASSUME r > p PROVE Comp(Num(base, r), Num(base, p)) = 1
    <2> DEFINE a == base + p
               d == r - p
    <2>1. a \in Int /\ d \in Nat /\ d < Half /\ d # 0 /\ base + r = a + d
        BY <1>1, HalfFacts
    <2> HIDE DEF a, d
    <2>2. Comp((a + d) % SeqMod, a % SeqMod) = 1
        BY <2>1, CompOfNear DEF Half
    <2> QED
        BY <2>1, <2>2 DEF Num, a
<1>2. ASSUME r < p PROVE Comp(Num(base, r), Num(base, p)) = -1
    <2> DEFINE a == base + r
               d == p - r
    <2>1. a \in Int /\ d \in Nat /\ d < Half /\ d # 0 /\ base + p = a + d
        BY <1>2, HalfFacts
    <2> HIDE DEF a, d
    <2>2. Comp(a % SeqMod, (a + d) % SeqMod) = -1
        BY <2>1, CompOfNear DEF Half
    <2> QED
        BY <2>1, <2>2 DEF Num, a
<1> QED
    BY <1>1, <1>2

LEMMA CompOfSum ==
    ASSUME NEW base \in Int, NEW r \in Nat, NEW p \in Nat, NEW size \in Nat
    PROVE  Comp(Num(base, r), Num(base, p) + size) = Comp(Num(base, r), Num(base, p + size))
<1> DEFINE x == Num(base, p)
           a == base + p
           q == a \div SeqMod
<1>1. a \in Int /\ q \in Int /\ x \in SeqNum /\ x \in Int /\ a = SeqMod * q + x
    <2>1. SeqMod \in Nat \ {0} /\ a \in Int
        BY HalfFacts
    <2>2. x = a % SeqMod
        BY DEF Num
    <2> HIDE DEF a, x
    <2>3. q \in Int /\ x \in 0 .. SeqMod - 1 /\ a = SeqMod * q + x
        BY <2>1, <2>2, Division
    <2> HIDE DEF q
    <2> QED
        BY <2>1, <2>3, HalfFacts DEF SeqNum
<1>2. (x + size) % SeqMod = Num(base, p + size)
    <2> DEFINE m == SeqMod * q
    <2>1. m \in Int /\ a = m + x
        BY <1>1, HalfFacts
    <2> HIDE DEF m, x, q
    <2>2. base + (p + size) = (x + size) + m
        BY <1>1, <2>1
    <2>3. base + (p + size) = (x + size) + SeqMod * q
        BY <2>2 DEF m
    <2>4. base + (p + size) \in Int /\ x + size \in Int
        BY <1>1
    <2> QED
        BY <1>1, <2>3, <2>4, SameMod DEF Num
<1>3. Num(base, r) \in Int /\ Num(base, r) % SeqMod = Num(base, r)
    BY ModFacts DEF Num, SeqNum
<1>4. Comp(Num(base, r), x + size) = Comp(Num(base, r), (x + size) % SeqMod)
    <2> HIDE DEF x
    <2> DEFINE n == Num(base, r)
    <2>0. n % SeqMod = n /\ n \in Int
        BY <1>3
    <2> HIDE DEF n
    <2>1. x + size \in Int
        BY <1>1
    <2>2. Comp(n, x + size) = Comp(n, (x + size) % SeqMod)
        <3>1. ((x + size) % SeqMod) % SeqMod = (x + size) % SeqMod
              /\ (x + size) % SeqMod \in Int
            BY <2>1, ModFacts DEF SeqNum
        <3>2. Comp(n, x + size) = Comp(n % SeqMod, (x + size) % SeqMod)
            BY <2>0, <2>1, CompMod
        <3> QED
            BY <2>0, <3>2
    <2> QED
        BY <2>2 DEF n
<1> QED
    BY <1>2, <1>4

-----------------------------------------------------------------------------
(* Windows. *)

LEMMA NewestIsLast ==
    ASSUME NEW base \in Int, NEW span \in Nat, span < Half,
           NEW w, w \subseteq Arc(base, span), w # {}
    PROVE  \E r \in 0 .. span :
              /\ Newest(w) = Num(base, r) /\ Num(base, r) \in w
              /\ \A p \in 0 .. span : Num(base, p) \in w => p <= r
<1> DEFINE C == {r \in 0 .. span : Num(base, r) \in w}
           m == [r \in C |-> span - r]
<1>1. C # {}
    <2>1. PICK t : t \in w
        OBVIOUS
    <2>2. PICK r \in 0 .. span : t = Num(base, r)
        BY <2>1 DEF Arc
    <2> QED
        BY <2>1, <2>2
<1>2. m \in [C -> Nat]
    OBVIOUS
<1>3. PICK b \in C : \A p \in C : m[b] <= m[p]
    <2> HIDE DEF C, m
    <2> QED
        BY <1>1, <1>2, LeastOf
<1>4. \A p \in C : p <= b
    BY <1>3
<1>5. ASSUME NEW t \in w, NEW u \in w
      PROVE  \E r, p \in C : t = Num(base, r) /\ u = Num(base, p)
    BY <1>5 DEF Arc
<1>6. ASSUME NEW r \in C, NEW p \in C
      PROVE  /\ r < p => Comp(Num(base, r), Num(base, p)) = -1
             /\ r > p => Comp(Num(base, r), Num(base, p)) = 1
    <2>1. r \in Nat /\ p \in Nat /\ r < Half /\ p < Half
        BY HalfFacts
    <2> QED
        BY <2>1, CompOfNums
<1>7. \A r \in C : r \in Nat
    OBVIOUS
<1>8. \A r \in C : Comp(Num(base, r), Num(base, r)) = 0
    BY DEF Comp
<1>9. \A u \in w : Comp(Num(base, b), u) >= 0
    <2> SUFFICES ASSUME NEW u \in w PROVE Comp(Num(base, b), u) >= 0
        OBVIOUS
    <2>1. PICK p \in C : u = Num(base, p)
        BY <1>5
    <2>2. p <= b /\ p \in Nat /\ b \in Nat
        BY <1>4, <1>7
    <2>3. CASE p = b
        BY <1>8, <2>1, <2>3
    <2>4. CASE p # b
        BY <1>6, <2>1, <2>2, <2>4
    <2> QED
        BY <2>3, <2>4
<1>10. Newest(w) \in w /\ \A u \in w : Comp(Newest(w), u) >= 0
    <2>1. Num(base, b) \in w
        BY <1>3
    <2> QED
        BY <1>9, <2>1 DEF Newest
<1>11. PICK r \in C : Newest(w) = Num(base, r)
    BY <1>5, <1>10
<1>12. ASSUME NEW p \in 0 .. span, Num(base, p) \in w PROVE p <= r
    <2>1. p \in C
        BY <1>12
    <2>2. Comp(Num(base, r), Num(base, p)) >= 0
        BY <1>10, <1>11, <1>12
    <2>3. ~(r < p)
        BY <1>6, <2>1, <2>2
    <2> QED
        BY <1>7, <2>1, <2>3
<1> QED
    BY <1>10, <1>11, <1>12

\* A number survives a shift of its window up to one that is not newer.
LEMMA NewerStays ==
    ASSUME NEW base \in Int, NEW span \in Nat, span + WindowSize < Half,
           NEW r \in 0 .. span, NEW p \in 0 .. span, r <= p,
           NEW w, Num(base, p) \in w
    PROVE  Num(base, p) \in DropSn(w, WindowSize, Num(base, r))
<1>1. WindowSize \in Nat /\ WindowSize # 0
    BY OgmAssumption
<1>2. r < p + WindowSize /\ r < Half /\ p + WindowSize < Half /\ p + WindowSize \in Nat
    BY <1>1, HalfFacts
<1>3. Comp(Num(base, r), Num(base, p + WindowSize)) = -1
    BY <1>2, CompOfNums
<1>4. Comp(Num(base, r), Num(base, p) + WindowSize) = -1
    BY <1>1, <1>3, CompOfSum
<1> QED
    BY <1>4 DEF DropSn

\* After OGM s came the window it is added to is not empty, whatever it held.
LEMMA WindowKeeps ==
    ASSUME NEW base \in Int, NEW span \in Nat, span + WindowSize < Half,
           NEW w, w \subseteq Arc(base, span), NEW s \in Arc(base, span)
    PROVE  DropSn(AddSn(w, WindowSize, s), WindowSize, s) # {}
<1>1. PICK r \in 0 .. span : s = Num(base, r)
    BY DEF Arc
<1>2. WindowSize \in Nat /\ WindowSize # 0 /\ span < Half
    BY OgmAssumption, HalfFacts
<1>3. CASE w # {} /\ Comp(Newest(w), s + WindowSize) >= 0
    <2>1. PICK p \in 0 .. span : Newest(w) = Num(base, p) /\ Num(base, p) \in w
        BY <1>2, <1>3, NewestIsLast
    <2>2. Comp(Num(base, p), Num(base, r + WindowSize)) >= 0
        BY <1>1, <1>2, <1>3, <2>1, CompOfSum
    <2>3. ~(p < r + WindowSize)
        <3>1. p < Half /\ r + WindowSize < Half /\ r + WindowSize \in Nat
            BY <1>2, HalfFacts
        <3> QED
            BY <2>2, <3>1, CompOfNums
    <2>4. r <= p
        BY <1>2, <2>3
    <2>5. AddSn(w, WindowSize, s) = w
        BY <1>3 DEF AddSn
    <2> QED
        BY <1>1, <2>1, <2>4, <2>5, NewerStays
<1>4. CASE ~(w # {} /\ Comp(Newest(w), s + WindowSize) >= 0)
    <2> DEFINE x == w \cup {s}
    <2>1. x \subseteq Arc(base, span) /\ x # {} /\ s \in x
        OBVIOUS
    <2>2. AddSn(w, WindowSize, s) = DropSn(x, WindowSize, Newest(x))
        BY <1>4 DEF AddSn
    <2> HIDE DEF x
    <2>3. PICK p \in 0 .. span :
             /\ Newest(x) = Num(base, p) /\ Num(base, p) \in x
             /\ \A q \in 0 .. span : Num(base, q) \in x => q <= p
        BY <1>2, <2>1, NewestIsLast
    <2>4. r <= p
        BY <1>1, <2>1, <2>3
    <2>5. Num(base, p) \in DropSn(x, WindowSize, Newest(x))
        <3>1. p <= p
            OBVIOUS
        <3> QED
            BY <2>3, <3>1, NewerStays
    <2> QED
        BY <1>1, <2>2, <2>4, <2>5, NewerStays
<1> QED
    BY <1>3, <1>4

-----------------------------------------------------------------------------
(* Entries. *)

Windows(win, nums) == win \in [Iface -> [Hop -> SUBSET nums]]

\* batman_db_nht_addseq and batman_db_nht_shiftuptoseq leave windows of numbers
\* that were sent, and something in that of the OGM.
LEMMA ShiftedKeeps ==
    ASSUME NEW base \in Int, NEW span \in Nat, span + WindowSize < Half,
           NEW win, Windows(win, Arc(base, span)), NEW i \in Iface, NEW h \in Hop,
           NEW s \in Arc(base, span)
    PROVE  /\ Windows(Shifted(win, i, h, s), Arc(base, span))
           /\ Shifted(win, i, h, s)[i][h] # {}
<1> DEFINE A == Arc(base, span)
           W(j, g) == IF <<j, g>> = <<i, h>> THEN AddSn(win[j][g], WindowSize, s)
                      ELSE win[j][g]
<1>1. Shifted(win, i, h, s)
         = [j \in Iface |-> [g \in Hop |-> DropSn(W(j, g), WindowSize, s)]]
    BY DEF Shifted
<1> HIDE DEF A
<1>2. \A j \in Iface, g \in Hop : win[j][g] \subseteq A
    BY DEF Windows, A
<1>3. ASSUME NEW j \in Iface, NEW g \in Hop
      PROVE  DropSn(W(j, g), WindowSize, s) \subseteq A
    <2>1. s \in A
        BY DEF A
    <2>2. AddSn(win[j][g], WindowSize, s) \subseteq A
        BY <1>2, <2>1 DEF AddSn, DropSn
    <2>3. W(j, g) \subseteq A
        BY <1>2, <2>2
    <2> HIDE DEF W
    <2> QED
        BY <2>3 DEF DropSn
<1>4. DropSn(W(i, h), WindowSize, s) # {}
    BY <1>2, WindowKeeps DEF A
<1> HIDE DEF W
<1>5. Shifted(win, i, h, s)[i][h] = DropSn(W(i, h), WindowSize, s)
    BY <1>1
<1>6. Windows(Shifted(win, i, h, s), A)
    BY <1>1, <1>3 DEF Windows
<1> QED
    BY <1>4, <1>5, <1>6 DEF A

\* f is the recursive function of OutputIface.
Walk(f, n, e, ifs, win, best) ==
    f = [k \in 0 .. n |-> IF k = 0 THEN e.out ELSE Visit(e, ifs, win, best, k, f[k - 1])]

LEMMA WalkExists ==
    ASSUME NEW e, NEW ifs, NEW win, NEW best
    PROVE  \A n \in Nat : \E f : Walk(f, n, e, ifs, win, best)
<1> DEFINE Bad == {n \in Nat : ~\E f : Walk(f, n, e, ifs, win, best)}
           V(k, x) == Visit(e, ifs, win, best, k, x)
<1>1. SUFFICES ASSUME Bad # {} PROVE FALSE
    OBVIOUS
<1>2. PICK n \in Bad : \A m \in Bad : n <= m
    <2>1. Bad \subseteq Nat
        OBVIOUS
    <2> HIDE DEF Bad
    <2> QED
        BY <1>1, <2>1, LeastNat
<1>3. \A f, m : Walk(f, m, e, ifs, win, best)
                  <=> f = [k \in 0 .. m |-> IF k = 0 THEN e.out ELSE V(k, f[k - 1])]
    BY DEF Walk
<1> HIDE DEF V
<1>4. CASE n = 0
    <2> DEFINE f == [k \in 0 .. 0 |-> e.out]
    <2>1. f = [k \in 0 .. 0 |-> IF k = 0 THEN e.out ELSE V(k, f[k - 1])]
        OBVIOUS
    <2> QED
        BY <1>2, <1>3, <1>4, <2>1
<1>5. CASE n # 0
    <2>1. n - 1 \in Nat /\ n - 1 \notin Bad
        BY <1>2, <1>5
    <2>2. PICK f : Walk(f, n - 1, e, ifs, win, best)
        BY <2>1
    <2> DEFINE g == [k \in 0 .. n |-> IF k = n THEN V(n, f[n - 1]) ELSE f[k]]
    <2>3. ASSUME NEW k \in 0 .. n
          PROVE  g[k] = IF k = 0 THEN e.out ELSE V(k, g[k - 1])
        <3>1. CASE k = n
            <4>1. g[k] = V(n, f[n - 1]) /\ g[k - 1] = f[n - 1] /\ k # 0
                BY <1>2, <1>5, <3>1
            <4> HIDE DEF g
            <4> QED
                BY <3>1, <4>1
        <3>2. CASE k # n
            <4>1. k \in 0 .. n - 1 /\ n \in Nat
                BY <1>2, <3>2
            <4>2. f[k] = IF k = 0 THEN e.out ELSE V(k, f[k - 1])
                BY <1>3, <2>2, <4>1
            <4>3. g[k] = f[k] /\ (k # 0 => g[k - 1] = f[k - 1])
                BY <3>2, <4>1
            <4> HIDE DEF g
            <4> QED
                BY <4>2, <4>3
        <3> QED
            BY <3>1, <3>2
    <2>4. g = [k \in 0 .. n |-> g[k]]
        OBVIOUS
    <2> HIDE DEF g
    <2>5. g = [k \in 0 .. n |-> IF k = 0 THEN e.out ELSE V(k, g[k - 1])]
        BY <2>3, <2>4
    <2>6. Walk(g, n, e, ifs, win, best)
        BY <1>3, <2>5
    <2> QED
        BY <1>2, <2>6
<1> QED
    BY <1>4, <1>5

\* The best interface so far is not visited yet or keeps a next hop.
Standing(ifs, best, k, o) ==
    \E l \in DOMAIN ifs : o = ifs[l] /\ (l > k \/ best[ifs[l]] # NoHop)

LEMMA VisitStands ==
    ASSUME NEW e, NEW ifs \in Seq(Iface), NEW win, NEW best, NEW k \in 1 .. Len(ifs),
           NEW p \in DOMAIN ifs, best[ifs[p]] # NoHop,
           NEW o, Standing(ifs, best, k - 1, o)
    PROVE  Standing(ifs, best, k, Visit(e, ifs, win, best, k, o))
<1> DEFINE left == {l \in DOMAIN ifs : l > k \/ best[ifs[l]] # NoHop}
           v == Visit(e, ifs, win, best, k, o)
<1>1. p \in left /\ left \subseteq Nat
    OBVIOUS
<1>2. v = IF best[ifs[k]] = NoHop
          THEN IF o # ifs[k] \/ left = {} THEN o
               ELSE ifs[CHOOSE l \in left : \A m \in left : l <= m]
          ELSE v
    BY DEF Visit
<1>3. CASE best[ifs[k]] = NoHop /\ o = ifs[k]
    <2> DEFINE l == CHOOSE l \in left : \A m \in left : l <= m
    <2>1. v = ifs[l]
        BY <1>1, <1>2, <1>3
    <2>2. \E b \in left : \A m \in left : b <= m
        <3> HIDE DEF left
        <3> QED
            BY <1>1, LeastNat
    <2>3. l \in left
        <3> HIDE DEF left
        <3> QED
            BY <2>2
    <2> HIDE DEF v, l
    <2>4. Standing(ifs, best, k, v)
        BY <2>1, <2>3 DEF Standing
    <2> QED
        BY <2>4 DEF v
<1>4. CASE best[ifs[k]] = NoHop /\ o # ifs[k]
    <2>1. v = o
        BY <1>2, <1>4
    <2>2. PICK l \in DOMAIN ifs : o = ifs[l] /\ (l > k - 1 \/ best[ifs[l]] # NoHop)
        BY DEF Standing
    <2>3. l # k
        BY <1>4, <2>2
    <2>4. l > k \/ best[ifs[l]] # NoHop
        BY <2>2, <2>3
    <2>5. Standing(ifs, best, k, o)
        BY <2>2, <2>4 DEF Standing
    <2> QED
        BY <2>1, <2>5
<1>5. CASE best[ifs[k]] # NoHop
    <2>1. v = ifs[k] \/ v = o
        BY <1>5 DEF Visit
    <2>2. Standing(ifs, best, k, ifs[k])
        BY <1>5 DEF Standing
    <2>3. Standing(ifs, best, k, o)
        <3>1. PICK l \in DOMAIN ifs : o = ifs[l] /\ (l > k - 1 \/ best[ifs[l]] # NoHop)
            BY DEF Standing
        <3>2. l > k \/ best[ifs[l]] # NoHop
            <4>1. l = k \/ l > k \/ ~(l > k - 1)
                OBVIOUS
            <4> QED
                BY <1>5, <3>1, <4>1
        <3> QED
            BY <3>1, <3>2 DEF Standing
    <2> QED
        BY <2>1, <2>2, <2>3
<1> QED
    BY <1>3, <1>4, <1>5

\* The best interface keeps a next hop, if some interface does.
LEMMA OutputStands ==
    ASSUME NEW e, NEW ifs \in Seq(Iface), NEW win, NEW best,
           NEW q \in DOMAIN ifs, e.out = ifs[q],
           NEW p \in DOMAIN ifs, best[ifs[p]] # NoHop
    PROVE  \E l \in DOMAIN ifs :
              OutputIface(e, ifs, win, best) = ifs[l] /\ best[ifs[l]] # NoHop
<1> DEFINE out[k \in 0 .. Len(ifs)] ==
              IF k = 0 THEN e.out ELSE Visit(e, ifs, win, best, k, out[k - 1])
           n == Len(ifs)
<1>1. OutputIface(e, ifs, win, best) = out[n]
    BY DEF OutputIface
<1>2. n \in Nat
    OBVIOUS
<1>3. Walk(out, n, e, ifs, win, best)
    <2>1. \E f : Walk(f, n, e, ifs, win, best)
        BY <1>2, WalkExists
    <2> QED
        BY <2>1 DEF Walk
<1> HIDE DEF out
<1>4. out[0] = e.out
    BY <1>2, <1>3 DEF Walk
<1>5. \A k \in 1 .. n : out[k] = Visit(e, ifs, win, best, k, out[k - 1])
    BY <1>2, <1>3 DEF Walk
<1> DEFINE Bad == {k \in 0 .. n : ~Standing(ifs, best, k, out[k])}
<1>6. ASSUME Bad # {} PROVE FALSE
    <2>1. PICK k \in Bad : \A m \in Bad : k <= m
        <3>1. Bad \subseteq Nat
            BY <1>2
        <3> HIDE DEF Bad
        <3> QED
            BY <1>6, <3>1, LeastNat
    <2>2. k # 0
        <3>1. Standing(ifs, best, 0, out[0])
            BY <1>4 DEF Standing
        <3> QED
            BY <2>1, <3>1
    <2>3. k \in 1 .. n /\ k - 1 \in 0 .. n /\ k - 1 \notin Bad
        BY <1>2, <2>1, <2>2
    <2>4. Standing(ifs, best, k - 1, out[k - 1])
        BY <2>3
    <2>5. Standing(ifs, best, k, Visit(e, ifs, win, best, k, out[k - 1]))
        BY <2>3, <2>4, VisitStands
    <2>6. Standing(ifs, best, k, out[k])
        BY <1>5, <2>3, <2>5
    <2> QED
        BY <2>1, <2>6
<1>7. Standing(ifs, best, n, out[n])
    BY <1>2, <1>6
<1>8. \A l \in DOMAIN ifs : ~(l > n)
    OBVIOUS
<1> QED
    BY <1>1, <1>7, <1>8 DEF Standing

\* f is the recursive function of Kept.
Keeps(f, n, ifs, best) ==
    f = [k \in 0 .. n |->
            IF k = 0 THEN <<>>
            ELSE IF best[ifs[k]] = NoHop THEN f[k - 1]
            ELSE Append(f[k - 1], ifs[k])]

LEMMA KeepsExists ==
    ASSUME NEW ifs, NEW best
    PROVE  \A n \in Nat : \E f : Keeps(f, n, ifs, best)
<1> DEFINE Bad == {n \in Nat : ~\E f : Keeps(f, n, ifs, best)}
           V(k, x) == IF best[ifs[k]] = NoHop THEN x ELSE Append(x, ifs[k])
<1>1. SUFFICES ASSUME Bad # {} PROVE FALSE
    OBVIOUS
<1>2. PICK n \in Bad : \A m \in Bad : n <= m
    <2>1. Bad \subseteq Nat
        OBVIOUS
    <2> HIDE DEF Bad
    <2> QED
        BY <1>1, <2>1, LeastNat
<1>3. \A f, m : Keeps(f, m, ifs, best)
                  <=> f = [k \in 0 .. m |-> IF k = 0 THEN <<>> ELSE V(k, f[k - 1])]
    BY DEF Keeps
<1> HIDE DEF V
<1>4. CASE n = 0
    <2> DEFINE f == [k \in 0 .. 0 |-> <<>>]
    <2>1. f = [k \in 0 .. 0 |-> IF k = 0 THEN <<>> ELSE V(k, f[k - 1])]
        OBVIOUS
    <2> QED
        BY <1>2, <1>3, <1>4, <2>1
<1>5. CASE n # 0
    <2>1. n - 1 \in Nat /\ n - 1 \notin Bad
        BY <1>2, <1>5
    <2>2. PICK f : Keeps(f, n - 1, ifs, best)
        BY <2>1
    <2> DEFINE g == [k \in 0 .. n |-> IF k = n THEN V(n, f[n - 1]) ELSE f[k]]
    <2>3. ASSUME NEW k \in 0 .. n
          PROVE  g[k] = IF k = 0 THEN <<>> ELSE V(k, g[k - 1])
        <3>1. CASE k = n
            <4>1. g[k] = V(n, f[n - 1]) /\ g[k - 1] = f[n - 1] /\ k # 0
                BY <1>2, <1>5, <3>1
            <4> HIDE DEF g
            <4> QED
                BY <3>1, <4>1
        <3>2. CASE k # n
            <4>1. k \in 0 .. n - 1 /\ n \in Nat
                BY <1>2, <3>2
            <4>2. f[k] = IF k = 0 THEN <<>> ELSE V(k, f[k - 1])
                BY <1>3, <2>2, <4>1
            <4>3. g[k] = f[k] /\ (k # 0 => g[k - 1] = f[k - 1])
                BY <3>2, <4>1
            <4> HIDE DEF g
            <4> QED
                BY <4>2, <4>3
        <3> QED
            BY <3>1, <3>2
    <2>4. g = [k \in 0 .. n |-> g[k]]
        OBVIOUS
    <2> HIDE DEF g
    <2>5. g = [k \in 0 .. n |-> IF k = 0 THEN <<>> ELSE V(k, g[k - 1])]
        BY <2>3, <2>4
    <2>6. Keeps(g, n, ifs, best)
        BY <1>3, <2>5
    <2> QED
        BY <1>2, <2>6
<1> QED
    BY <1>4, <1>5

\* s lists those of the first k interfaces that keep a next hop.
Lists(s, k, ifs, best) ==
    /\ s \in Seq(Iface)
    /\ \A x \in DOMAIN s : best[s[x]] # NoHop
    /\ \A l \in 1 .. k : best[ifs[l]] # NoHop => \E x \in DOMAIN s : s[x] = ifs[l]

LEMMA AppendLists ==
    ASSUME NEW ifs \in Seq(Iface), NEW best, NEW k \in 1 .. Len(ifs),
           NEW s, Lists(s, k - 1, ifs, best)
    PROVE  Lists(IF best[ifs[k]] = NoHop THEN s ELSE Append(s, ifs[k]), k, ifs, best)
<1>1. \A l \in 1 .. k : l \in 1 .. k - 1 \/ l = k
    OBVIOUS
<1>2. CASE best[ifs[k]] = NoHop
    <2>1. Lists(s, k, ifs, best)
        BY <1>1, <1>2 DEF Lists
    <2> QED
        BY <1>2, <2>1
<1>3. CASE best[ifs[k]] # NoHop
    <2> DEFINE i == ifs[k]
               r == Append(s, i)
    <2>1. s \in Seq(Iface) /\ i \in Iface /\ Len(s) \in Nat
        BY DEF Lists
    <2> HIDE DEF i
    <2>2. /\ r \in Seq(Iface) /\ DOMAIN r = 1 .. Len(s) + 1 /\ DOMAIN s = 1 .. Len(s)
          /\ \A x \in 1 .. Len(s) : r[x] = s[x]
          /\ r[Len(s) + 1] = i
        BY <2>1, AppendProperties
    <2> HIDE DEF r
    <2>3. ASSUME NEW x \in DOMAIN r PROVE best[r[x]] # NoHop
        <3>1. CASE x \in 1 .. Len(s)
            BY <2>2, <3>1 DEF Lists
        <3>2. CASE x = Len(s) + 1
            BY <1>3, <2>2, <3>2 DEF i
        <3> QED
            BY <2>1, <2>2, <3>1, <3>2
    <2>4. ASSUME NEW l \in 1 .. k, best[ifs[l]] # NoHop
          PROVE  \E x \in DOMAIN r : r[x] = ifs[l]
        <3>1. CASE l = k
            BY <2>1, <2>2, <3>1 DEF i
        <3>2. CASE l \in 1 .. k - 1
            <4>1. PICK x \in DOMAIN s : s[x] = ifs[l]
                BY <2>4, <3>2 DEF Lists
            <4>2. x \in DOMAIN r /\ r[x] = ifs[l]
                BY <2>1, <2>2, <4>1
            <4> QED
                BY <4>2
        <3> QED
            BY <1>1, <3>1, <3>2
    <2>5. Lists(r, k, ifs, best)
        BY <2>2, <2>3, <2>4 DEF Lists
    <2> QED
        BY <1>3, <2>5 DEF r, i
<1> QED
    BY <1>2, <1>3

LEMMA KeptLists ==
    ASSUME NEW ifs \in Seq(Iface), NEW best
    PROVE  Lists(Kept(ifs, best), Len(ifs), ifs, best)
<1> DEFINE kept[k \in 0 .. Len(ifs)] ==
              IF k = 0 THEN <<>>
              ELSE IF best[ifs[k]] = NoHop THEN kept[k - 1]
              ELSE Append(kept[k - 1], ifs[k])
           n == Len(ifs)
<1>1. Kept(ifs, best) = kept[n]
    BY DEF Kept
<1>2. n \in Nat
    OBVIOUS
<1>3. Keeps(kept, n, ifs, best)
    <2>1. \E f : Keeps(f, n, ifs, best)
        BY <1>2, KeepsExists
    <2> QED
        BY <2>1 DEF Keeps
<1> HIDE DEF kept
<1>4. kept[0] = <<>>
    BY <1>2, <1>3 DEF Keeps
<1>5. \A k \in 1 .. n :
         kept[k] = IF best[ifs[k]] = NoHop THEN kept[k - 1] ELSE Append(kept[k - 1], ifs[k])
    <2> SUFFICES ASSUME NEW k \in 1 .. n
                 PROVE  kept[k] = IF best[ifs[k]] = NoHop THEN kept[k - 1]
                                  ELSE Append(kept[k - 1], ifs[k])
        OBVIOUS
    <2>1. k \in 0 .. n /\ k # 0
        BY <1>2
    <2> HIDE DEF n
    <2> QED
        BY <1>3, <2>1 DEF Keeps
<1> DEFINE Bad == {k \in 0 .. n : ~Lists(kept[k], k, ifs, best)}
<1>6. ASSUME Bad # {} PROVE FALSE
    <2>1. PICK k \in Bad : \A m \in Bad : k <= m
        <3>1. Bad \subseteq Nat
            BY <1>2
        <3> HIDE DEF Bad
        <3> QED
            BY <1>6, <3>1, LeastNat
    <2>2. k # 0
        <3>1. Lists(<<>>, 0, ifs, best)
            BY DEF Lists
        <3> QED
            BY <1>4, <2>1, <3>1
    <2>3. k \in 1 .. n /\ k - 1 \in 0 .. n /\ k - 1 \notin Bad
        BY <1>2, <2>1, <2>2
    <2>4. Lists(kept[k - 1], k - 1, ifs, best)
        BY <2>3
    <2>5. Lists(kept[k], k, ifs, best)
        BY <1>5, <2>3, <2>4, AppendLists
    <2> QED
        BY <2>1, <2>5
<1>7. Lists(kept[n], n, ifs, best)
    BY <1>2, <1>6
<1> QED
    BY <1>1, <1>7

EntryOk(e, nums) ==
    /\ Usable(e)
    /\ e.ifs \in Seq(Iface) /\ e.seq \in nums /\ Windows(e.win, nums)

\* batman_db_rt_addroute leaves a usable entry, whichever next hops its
\* interfaces choose.
LEMMA AddOgmKeeps ==
    ASSUME NEW base \in Int, NEW span \in Nat, span + WindowSize < Half,
           NEW e, e.ifs \in Seq(Iface), Windows(e.win, Arc(base, span)),
           NEW c \in DOMAIN e.ifs, e.ifs[c] = e.out,
           NEW i \in Iface, NEW h \in Hop, NEW s \in Arc(base, span),
           NEW f \in AddOgm(e, i, h, s)
    PROVE  EntryOk(f, Arc(base, span))
<1> DEFINE ifs == IF \E k \in DOMAIN e.ifs : e.ifs[k] = i THEN e.ifs
                  ELSE Append(e.ifs, i)
           win == Shifted(e.win, i, h, s)
           nums == Arc(base, span)
<1>1. PICK b \in [Iface -> Hop \cup {NoHop}] :
         /\ \A j \in Iface : b[j] \in Longest(win[j])
         /\ f = [ifs |-> Kept(ifs, b), win |-> win, best |-> b,
                 out |-> OutputIface(e, ifs, win, b), seq |-> s]
    BY DEF AddOgm
<1>2. Windows(win, nums) /\ win[i][h] # {}
    BY ShiftedKeeps
<1>3. /\ ifs \in Seq(Iface)
      /\ \E p \in DOMAIN ifs : ifs[p] = i
      /\ \E q \in DOMAIN ifs : ifs[q] = e.out
    <2>1. CASE \E k \in DOMAIN e.ifs : e.ifs[k] = i
        BY <2>1
    <2>2. CASE ~\E k \in DOMAIN e.ifs : e.ifs[k] = i
        <3>1. ifs = Append(e.ifs, i)
            BY <2>2
        <3> HIDE DEF ifs
        <3>2. /\ ifs \in Seq(Iface) /\ DOMAIN ifs = 1 .. Len(e.ifs) + 1
              /\ DOMAIN e.ifs = 1 .. Len(e.ifs) /\ Len(e.ifs) \in Nat
              /\ \A x \in 1 .. Len(e.ifs) : ifs[x] = e.ifs[x]
              /\ ifs[Len(e.ifs) + 1] = i
            BY <3>1, AppendProperties, LenProperties
        <3>3. ifs[c] = e.out /\ c \in DOMAIN ifs
            BY <3>2
        <3> QED
            BY <3>2, <3>3
    <2> QED
        BY <2>1, <2>2
<1> HIDE DEF ifs, win, nums
<1>4. ASSUME NEW j \in Iface, b[j] # NoHop PROVE b[j] \in Hop /\ win[j][b[j]] # {}
    <2>1. b[j] \in Longest(win[j])
        BY <1>1
    <2> QED
        BY <1>4, <2>1 DEF Longest
<1>5. b[i] # NoHop
    <2>1. b[i] \in Longest(win[i])
        BY <1>1
    <2>2. b[i] \in Hop
        BY <1>2, <2>1 DEF Longest
    <2> QED
        BY <2>2, OgmAssumption
<1>6. PICK l \in DOMAIN ifs : OutputIface(e, ifs, win, b) = ifs[l] /\ b[ifs[l]] # NoHop
    BY <1>3, <1>5, OutputStands
<1>7. Lists(Kept(ifs, b), Len(ifs), ifs, b)
    BY <1>3, KeptLists
<1>8. /\ f.ifs = Kept(ifs, b) /\ f.out = ifs[l] /\ f.best = b /\ f.win = win /\ f.seq = s
    BY <1>1, <1>6
<1>9. \E k \in DOMAIN f.ifs : f.ifs[k] = f.out
    <2>1. l \in 1 .. Len(ifs)
        BY <1>3
    <2> QED
        BY <1>6, <1>7, <1>8, <2>1 DEF Lists
<1>10. ASSUME NEW k \in DOMAIN f.ifs
       PROVE  f.best[f.ifs[k]] # NoHop /\ f.win[f.ifs[k]][f.best[f.ifs[k]]] # {}
    <2>1. f.ifs \in Seq(Iface) /\ b[f.ifs[k]] # NoHop
        BY <1>7, <1>8 DEF Lists
    <2>2. f.ifs[k] \in Iface
        BY <2>1
    <2> QED
        BY <1>4, <1>8, <2>1, <2>2
<1>11. Usable(f)
    BY <1>9, <1>10 DEF Usable
<1> QED
    BY <1>2, <1>7, <1>8, <1>11 DEF EntryOk, Lists, nums

-----------------------------------------------------------------------------
(* The mesh. *)

Ogms(nums) ==
    [orig : Originator, from : Node, seq : nums, reset : BOOLEAN,
     prec : SUBSET Node, at : Int]

Working(nums) ==
    [pc : {"capture", "choose", "log"}, ogm : Ogms(nums), last : nums \cup {-1}]

\* An originator has sent at most what is missing from its budget.
OwnOk ==
    /\ budget \in [ogm : 0 .. MaxOgms, fault : Int, delay : Int]
    /\ own \in [Originator -> [seq : SeqNum, reset : Int]]
    /\ \A d \in Originator : \E s \in FirstSeq \cup {0}, k \in 0 .. MaxOgms - budget.ogm :
          own[d].seq = (s + k) % SeqMod

TablesOk(nums) ==
    /\ rt = [n \in Node |-> [d \in Originator |-> rt[n][d]]]
    /\ \A n \in Node, d \in Originator : \A e \in rt[n][d] : EntryOk(e, nums)

BatInv(nums) ==
    /\ OwnOk
    /\ TablesOk(nums)
    /\ air \subseteq Ogms(nums)
    /\ thread \in [Node -> [Iface -> {Idle} \cup Working(nums)]]

\* What thread i of n is about to capture, and the windows that it goes into,
\* hold numbers of arc only.
CapturedWithin(n, i, arc) ==
    LET o == thread[n][i].ogm IN
    o.seq \in arc /\ \A e \in rt[n][o.orig] : Windows(e.win, arc)

\* No OGM comes so late, or after so many that were lost, that its number and
\* those in the windows are half the range apart, less a window.
OgmsNear ==
    \A n \in Node, i \in Iface : thread[n][i].pc = "capture" =>
       \E base \in Int, span \in Nat :
          span + WindowSize < Half /\ CapturedWithin(n, i, Arc(base, span))

LEMMA TableUpdate ==
    ASSUME NEW nums, TablesOk(nums), NEW n \in Node, NEW d \in Originator,
           NEW E, \A e \in E : EntryOk(e, nums), rt' = [rt EXCEPT ![n][d] = E]
    PROVE  TablesOk(nums)'
<1>1. rt' = [m \in Node |-> [c \in Originator |-> IF m = n /\ c = d THEN E ELSE rt[m][c]]]
    <2>1. DOMAIN rt = Node /\ \A m \in Node : rt[m] = [c \in Originator |-> rt[m][c]]
        BY DEF TablesOk
    <2> QED
        BY <2>1
<1>2. ASSUME NEW m \in Node, NEW c \in Originator
      PROVE  rt'[m][c] = IF m = n /\ c = d THEN E ELSE rt[m][c]
    BY <1>1
<1>3. rt' = [m \in Node |-> [c \in Originator |-> rt'[m][c]]]
    BY <1>1
<1>4. \A m \in Node, c \in Originator : \A e \in rt'[m][c] : EntryOk(e, nums)
    BY <1>2 DEF TablesOk
<1> QED
    BY <1>3, <1>4 DEF TablesOk

LEMMA TableClear ==
    ASSUME NEW nums, TablesOk(nums), NEW n \in Node, NEW d \in Originator,
           rt' = [rt EXCEPT ![n][d] = {}]
    PROVE  TablesOk(nums)'
<1> DEFINE E == {}
<1>1. rt' = [rt EXCEPT ![n][d] = E] /\ \A e \in E : EntryOk(e, nums)
    OBVIOUS
<1> HIDE DEF E
<1> QED
    BY <1>1, TableUpdate

LEMMA SendKeeps ==
    ASSUME NEW nums, BatInv(nums), NEW d \in Originator, SendOgm(d),
           \A s \in FirstSeq \cup {0}, k \in 0 .. MaxOgms : (s + k) % SeqMod \in nums
    PROVE  BatInv(nums)'
<1> DEFINE left == budget.ogm - 1
           n == NextSeq(own[d].seq)
           ogm == [orig |-> d, from |-> d, seq |-> own'[d].seq,
                   reset |-> own[d].reset > 0, prec |-> {}, at |-> budget'.ogm]
<1>1. /\ budget.ogm \in 1 .. MaxOgms /\ left \in 0 .. MaxOgms /\ left \in Int
      /\ budget' = [budget EXCEPT !.ogm = @ - 1] /\ budget'.ogm = left
      /\ budget' \in [ogm : 0 .. MaxOgms, fault : Int, delay : Int]
      /\ MaxOgms \in Nat
    <2>1. MaxOgms \in Nat
        BY BatmanAssumption
    <2>2. budget \in [ogm : 0 .. MaxOgms, fault : Int, delay : Int]
        BY DEF BatInv, OwnOk
    <2>3. budget.ogm > 0 /\ budget' = [budget EXCEPT !.ogm = @ - 1]
        BY DEF SendOgm
    <2> QED
        BY <2>1, <2>2, <2>3
<1>2. /\ own' \in [Originator -> [seq : SeqNum, reset : Int]]
      /\ own'[d].seq = n
      /\ \A c \in Originator \ {d} : own'[c] = own[c]
    <2>1. own \in [Originator -> [seq : SeqNum, reset : Int]]
        BY DEF BatInv, OwnOk
    <2>2. n \in SeqNum
        <3>1. own[d].seq + 1 \in Int
            BY <2>1, HalfFacts DEF SeqNum
        <3> QED
            BY <3>1, ModFacts DEF NextSeq
    <2> DEFINE r == IF own[d].reset > 0 THEN own[d].reset - 1 ELSE 0
    <2>3. r \in Int
        BY <2>1
    <2>4. own' = [own EXCEPT ![d].seq = n, ![d].reset = r]
        BY <2>1 DEF SendOgm
    <2> HIDE DEF n, r
    <2> DEFINE o == own[d]
               u == [[o EXCEPT !.seq = n] EXCEPT !.reset = r]
    <2>5. own' = [c \in Originator |-> IF c = d THEN u ELSE own[c]]
        BY <2>1, <2>4
    <2>6. o \in [seq : SeqNum, reset : Int]
        BY <2>1
    <2> HIDE DEF o
    <2>7. u \in [seq : SeqNum, reset : Int] /\ u.seq = n
        BY <2>2, <2>3, <2>6 DEF n, r
    <2> HIDE DEF u
    <2> QED
        BY <2>1, <2>5, <2>7
<1>3. ASSUME NEW c \in Originator
      PROVE  \E s \in FirstSeq \cup {0}, k \in 0 .. MaxOgms - left :
                own'[c].seq = (s + k) % SeqMod
    <2>1. PICK s \in FirstSeq \cup {0}, k \in 0 .. MaxOgms - budget.ogm :
             own[c].seq = (s + k) % SeqMod
        BY DEF BatInv, OwnOk
    <2>2. CASE c # d
        <3>1. own'[c].seq = own[c].seq /\ k \in 0 .. MaxOgms - left
            BY <1>1, <1>2, <2>2
        <3> QED
            BY <2>1, <3>1
    <2>3. CASE c = d
        <3>1. own'[c].seq = (((s + k) % SeqMod) + 1) % SeqMod
            BY <1>2, <2>1, <2>3 DEF NextSeq
        <3>2. s + k \in Int /\ k + 1 \in 0 .. MaxOgms - left
            <4>1. s \in Int
                BY BatmanAssumption DEF SeqNum
            <4> QED
                BY <1>1, <4>1
        <3>3. (((s + k) % SeqMod) + 1) % SeqMod = (s + (k + 1)) % SeqMod
            <4> DEFINE a == s + k
                       x == a % SeqMod
                       q == a \div SeqMod
            <4>1. SeqMod \in Nat \ {0} /\ a \in Int
                BY <3>2, HalfFacts
            <4>2. s \in Int /\ k \in Int
                BY BatmanAssumption DEF SeqNum
            <4>3. s + (k + 1) = a + 1
                BY <4>2
            <4> HIDE DEF a
            <4>4. q \in Int /\ x \in 0 .. SeqMod - 1 /\ a = SeqMod * q + x
                BY <4>1, Division
            <4> DEFINE w == SeqMod * q
            <4>5. w \in Int /\ a = w + x /\ x \in Int
                BY <4>1, <4>4
            <4> HIDE DEF x, q, w
            <4>6. a + 1 = (x + 1) + w
                BY <4>5
            <4>7. a + 1 = (x + 1) + SeqMod * q
                BY <4>6 DEF w
            <4>8. a + 1 \in Int /\ x + 1 \in Int
                BY <4>1, <4>5
            <4>9. (a + 1) % SeqMod = (x + 1) % SeqMod
                BY <4>4, <4>7, <4>8, SameMod
            <4> QED
                BY <4>3, <4>9 DEF x, a
        <3> QED
            BY <3>1, <3>2, <3>3
    <2> QED
        BY <2>2, <2>3
<1>4. OwnOk'
    BY <1>1, <1>2, <1>3 DEF OwnOk
<1>5. ogm \in Ogms(nums)
    <2>1. own'[d].seq \in nums
        <3>1. PICK s \in FirstSeq \cup {0}, k \in 0 .. MaxOgms - left :
                 own'[d].seq = (s + k) % SeqMod
            BY <1>3
        <3>2. k \in 0 .. MaxOgms
            BY <1>1
        <3> QED
            BY <3>1, <3>2
    <2>2. d \in Node
        BY BatmanAssumption
    <2>3. budget'.ogm \in Int
        BY <1>1
    <2> QED
        BY <2>1, <2>2, <2>3 DEF Ogms
<1>6. air' \subseteq Ogms(nums)
    <2>1. air' \subseteq air \cup {ogm}
        BY DEF SendOgm
    <2> QED
        BY <1>5, <2>1 DEF BatInv
<1> QED
    BY <1>4, <1>6 DEF SendOgm, BatInv, TablesOk

LEMMA OwnStays ==
    ASSUME OwnOk, own' = own, budget' = budget \/ (budget' = [budget EXCEPT !.fault = @ - 1])
    PROVE  OwnOk'
<1>1. budget' \in [ogm : 0 .. MaxOgms, fault : Int, delay : Int] /\ budget'.ogm = budget.ogm
    <2>1. budget \in [ogm : 0 .. MaxOgms, fault : Int, delay : Int]
        BY DEF OwnOk
    <2> QED
        BY <2>1
<1> QED
    BY <1>1 DEF OwnOk

LEMMA TablesStay ==
    ASSUME NEW nums, TablesOk(nums), rt' = rt
    PROVE  TablesOk(nums)'
BY DEF TablesOk

LEMMA ThreadStep ==
    ASSUME NEW W, thread \in [Node -> [Iface -> W]], NEW n \in Node, NEW i \in Iface,
           NEW w \in W, thread' = [thread EXCEPT ![n][i] = w]
    PROVE  thread' \in [Node -> [Iface -> W]]
OBVIOUS

LEMMA ReceiveKeeps ==
    ASSUME NEW nums, BatInv(nums), NEW n \in Node, NEW i \in Iface, NEW o \in air,
           ReceiveOgm(n, i, o)
    PROVE  BatInv(nums)'
<1> DEFINE last == RouteSn(n, o.orig)
           w == [pc |-> "capture", ogm |-> o, last |-> last]
<1>1. o \in Ogms(nums) /\ o.orig \in Originator
    BY DEF BatInv, Ogms
<1>2. last \in nums \cup {-1}
    <2>1. \A e \in rt[n][o.orig] : e.seq \in nums
        BY <1>1 DEF BatInv, TablesOk, EntryOk
    <2> QED
        BY <2>1 DEF RouteSn
<1> HIDE DEF last
<1>3. w \in Working(nums)
    BY <1>1, <1>2 DEF Working
<1> HIDE DEF w
<1>4. thread' = [thread EXCEPT ![n][i] = w]
    BY DEF ReceiveOgm, w, last
<1>5. thread' \in [Node -> [Iface -> {Idle} \cup Working(nums)]]
    BY <1>3, <1>4, ThreadStep DEF BatInv
<1>6. TablesOk(nums)'
    <2>1. CASE rt' = rt
        BY <2>1, TablesStay DEF BatInv
    <2>2. CASE rt' = [rt EXCEPT ![n][o.orig] = {}]
        BY <1>1, <2>2, TableClear DEF BatInv
    <2> QED
        BY <2>1, <2>2 DEF ReceiveOgm
<1>7. OwnOk' /\ air' = air
    BY OwnStays DEF ReceiveOgm, BatInv
<1> QED
    BY <1>5, <1>6, <1>7 DEF BatInv

LEMMA CaptureKeeps ==
    ASSUME NEW base \in Int, NEW span \in Nat, span + WindowSize < Half,
           NEW nums, Arc(base, span) \subseteq nums, BatInv(nums),
           NEW n \in Node, NEW i \in Iface, CaptureRoute(n, i),
           CapturedWithin(n, i, Arc(base, span))
    PROVE  BatInv(nums)'
<1> DEFINE arc == Arc(base, span)
           t == thread[n][i]
           o == t.ogm
           old == IF rt[n][o.orig] = {} THEN NewEntry(i)
                  ELSE CHOOSE e \in rt[n][o.orig] : TRUE
           w == [t EXCEPT !.pc = IF ResendAlways THEN "log" ELSE "choose"]
<1>1. t \in Working(nums) /\ t.pc = "capture"
    <2>1. t \in {Idle} \cup Working(nums) /\ t.pc = "capture"
        BY DEF BatInv, CaptureRoute
    <2> QED
        BY <2>1 DEF Idle
<1>2. o.orig \in Originator /\ o.from \in Hop /\ o.seq \in arc
    BY <1>1 DEF Working, Ogms, Node, CapturedWithin
<1>3. w \in Working(nums)
    BY <1>1 DEF Working
<1>4. thread' = [thread EXCEPT ![n][i] = w]
    BY DEF CaptureRoute
<1>5. thread' \in [Node -> [Iface -> {Idle} \cup Working(nums)]]
    <2> HIDE DEF w, t
    <2>1. thread \in [Node -> [Iface -> {Idle} \cup Working(nums)]]
        BY DEF BatInv
    <2> QED
        BY <1>3, <1>4, <2>1, ThreadStep
<1>6. \/ rt' = rt
      \/ \E e \in AddOgm(old, i, o.from, o.seq) : rt' = [rt EXCEPT ![n][o.orig] = {e}]
    BY DEF CaptureRoute
<1>7. old.ifs \in Seq(Iface) /\ Windows(old.win, arc)
      /\ \E c \in DOMAIN old.ifs : old.ifs[c] = old.out
    <2>1. CASE rt[n][o.orig] = {}
        <3>1. old = NewEntry(i)
            BY <2>1
        <3> HIDE DEF old, arc
        <3>2. old.ifs = <<i>> /\ old.out = i /\ old.win = [j \in Iface |-> [h \in Hop |-> {}]]
            BY <3>1 DEF NewEntry
        <3>3. <<i>> \in Seq(Iface) /\ 1 \in DOMAIN <<i>> /\ <<i>>[1] = i
            OBVIOUS
        <3> QED
            BY <3>2, <3>3 DEF Windows
    <2>2. CASE rt[n][o.orig] # {}
        <3>1. old \in rt[n][o.orig]
            BY <2>2
        <3>2. EntryOk(old, nums) /\ Windows(old.win, arc)
            BY <1>2, <3>1 DEF BatInv, TablesOk, CapturedWithin
        <3> HIDE DEF old, arc
        <3> QED
            BY <3>2 DEF EntryOk, Usable
    <2> QED
        BY <2>1, <2>2
<1>8. \A e \in AddOgm(old, i, o.from, o.seq) : EntryOk(e, nums)
    <2> HIDE DEF old, o
    <2>1. ASSUME NEW e \in AddOgm(old, i, o.from, o.seq) PROVE EntryOk(e, nums)
        <3>1. EntryOk(e, arc)
            BY <1>2, <1>7, AddOgmKeeps
        <3> QED
            BY <3>1 DEF EntryOk, Windows
    <2> QED
        BY <2>1
<1>9. TablesOk(nums)'
    <2>0. TablesOk(nums)
        BY DEF BatInv
    <2> HIDE DEF old, o
    <2>1. CASE rt' = rt
        BY <2>0, <2>1, TablesStay
    <2>2. CASE rt' # rt
        <3>1. PICK e \in AddOgm(old, i, o.from, o.seq) : rt' = [rt EXCEPT ![n][o.orig] = {e}]
            BY <1>6, <2>2
        <3> DEFINE E == {e}
        <3>2. \A f \in E : EntryOk(f, nums)
            BY <1>8
        <3>3. rt' = [rt EXCEPT ![n][o.orig] = E]
            BY <3>1
        <3> HIDE DEF E
        <3> QED
            BY <1>2, <2>0, <3>2, <3>3, TableUpdate
    <2> QED
        BY <2>1, <2>2
<1>10. OwnOk' /\ air' = air
    BY OwnStays DEF CaptureRoute, BatInv
<1> QED
    BY <1>5, <1>9, <1>10 DEF BatInv

LEMMA ChooseKeeps ==
    ASSUME NEW nums, BatInv(nums), NEW n \in Node, NEW i \in Iface, ChooseRelay(n, i)
    PROVE  BatInv(nums)'
<1> DEFINE t == thread[n][i]
           w == IF FromBestHop(n, i, t.ogm) THEN [t EXCEPT !.pc = "log"] ELSE Idle
<1>1. t \in {Idle} \cup Working(nums) /\ t.pc = "choose"
    BY DEF BatInv, ChooseRelay
<1>2. w \in {Idle} \cup Working(nums)
    <2>1. t \in Working(nums)
        BY <1>1 DEF Idle
    <2> HIDE DEF t
    <2>2. [t EXCEPT !.pc = "log"] \in Working(nums)
        BY <2>1 DEF Working
    <2> QED
        BY <2>2
<1>3. thread' = [thread EXCEPT ![n][i] = w]
    BY DEF ChooseRelay
<1>4. thread' \in [Node -> [Iface -> {Idle} \cup Working(nums)]]
    <2> HIDE DEF w, t
    <2> QED
        BY <1>2, <1>3, ThreadStep DEF BatInv
<1>5. OwnOk' /\ TablesOk(nums)' /\ air' = air
    BY OwnStays, TablesStay DEF ChooseRelay, BatInv
<1> QED
    BY <1>4, <1>5 DEF BatInv

LEMMA RelayKeeps ==
    ASSUME NEW nums, BatInv(nums), NEW n \in Node, NEW i \in Iface, Relay(n, i)
    PROVE  BatInv(nums)'
<1> DEFINE t == thread[n][i]
           o == t.ogm
           r == [o EXCEPT !.from = n, !.prec = IF UsePrecursor THEN @ \cup {n} ELSE @]
<1>1. t \in {Idle} \cup Working(nums) /\ t.pc = "log"
    BY DEF BatInv, Relay
<1>2. o \in Ogms(nums)
    <2>1. t \in Working(nums)
        BY <1>1 DEF Idle
    <2> QED
        BY <2>1 DEF Working
<1>3. r \in Ogms(nums)
    <2> HIDE DEF o
    <2>1. UsePrecursor \in BOOLEAN
        BY BatmanAssumption
    <2> QED
        BY <1>2, <2>1 DEF Ogms
<1>4. air' \subseteq air \cup {r}
    BY DEF Relay
<1>5. air' \subseteq Ogms(nums)
    <2> HIDE DEF r
    <2> QED
        BY <1>3, <1>4 DEF BatInv
<1>6. thread' \in [Node -> [Iface -> {Idle} \cup Working(nums)]]
    <2>1. thread' = [thread EXCEPT ![n][i] = Idle]
        BY DEF Relay
    <2> QED
        BY <2>1, ThreadStep DEF BatInv
<1>7. OwnOk' /\ TablesOk(nums)'
    BY OwnStays, TablesStay DEF Relay, BatInv
<1> QED
    BY <1>5, <1>6, <1>7 DEF BatInv

LEMMA TimeoutKeeps ==
    ASSUME NEW nums, BatInv(nums), NEW n \in Node, Timeout(n)
    PROVE  BatInv(nums)'
<1>1. CASE rt' = rt
    BY <1>1, OwnStays, TablesStay DEF Timeout, BatInv
<1>2. CASE rt' # rt
    <2>1. PICK d \in Originator : rt' = [rt EXCEPT ![n][d] = {}]
        BY <1>2 DEF Timeout
    <2>2. TablesOk(nums)'
        BY <2>1, TableClear DEF BatInv
    <2> QED
        BY <2>2, OwnStays DEF Timeout, BatInv
<1> QED
    BY <1>1, <1>2

LEMMA RestartKeeps ==
    ASSUME NEW nums, BatInv(nums), NEW d \in Originator, Restart(d)
    PROVE  BatInv(nums)'
<1>1. d \in Node /\ ResetCount \in Int /\ MaxOgms \in Nat /\ 0 \in SeqNum
    BY BatmanAssumption, HalfFacts DEF SeqNum
<1>2. TablesOk(nums)'
    <2>1. rt' = [n \in Node |-> [c \in Originator |-> IF n = d THEN {} ELSE rt[n][c]]]
        <3>1. DOMAIN rt = Node /\ \A n \in Node : rt[n] = [c \in Originator |-> rt[n][c]]
            BY DEF TablesOk, BatInv
        <3>2. rt' = [rt EXCEPT ![d] = [c \in Originator |-> {}]]
            BY DEF Restart
        <3> QED
            BY <1>1, <3>1, <3>2
    <2>2. rt' = [n \in Node |-> [c \in Originator |-> rt'[n][c]]]
        BY <2>1
    <2>3. \A n \in Node, c \in Originator : \A e \in rt'[n][c] : EntryOk(e, nums)
        <3>1. ASSUME NEW n \in Node, NEW c \in Originator
              PROVE  rt'[n][c] = IF n = d THEN {} ELSE rt[n][c]
            BY <2>1
        <3> QED
            BY <3>1 DEF BatInv, TablesOk
    <2> QED
        BY <2>2, <2>3 DEF TablesOk
<1>3. OwnOk'
    <2>1. budget' \in [ogm : 0 .. MaxOgms, fault : Int, delay : Int] /\ budget'.ogm = budget.ogm
        <3>1. budget \in [ogm : 0 .. MaxOgms, fault : Int, delay : Int]
            BY DEF BatInv, OwnOk
        <3> QED
            BY <3>1 DEF Restart
    <2>2. /\ own \in [Originator -> [seq : SeqNum, reset : Int]]
          /\ own' = [own EXCEPT ![d] = [seq |-> 0, reset |-> ResetCount]]
        BY DEF BatInv, OwnOk, Restart
    <2>3. own' \in [Originator -> [seq : SeqNum, reset : Int]]
        BY <1>1, <2>2
    <2>4. ASSUME NEW c \in Originator
          PROVE  \E s \in FirstSeq \cup {0}, k \in 0 .. MaxOgms - budget'.ogm :
                    own'[c].seq = (s + k) % SeqMod
        <3>1. CASE c = d
            <4>1. own'[c].seq = 0
                BY <2>2, <3>1
            <4>2. (0 + 0) % SeqMod = 0
                BY HalfFacts
            <4>3. 0 \in 0 .. MaxOgms - budget'.ogm
                BY <1>1, <2>1
            <4> QED
                BY <4>1, <4>2, <4>3
        <3>2. CASE c # d
            BY <2>1, <2>2, <3>2 DEF BatInv, OwnOk
        <3> QED
            BY <3>1, <3>2
    <2> QED
        BY <2>1, <2>3, <2>4 DEF OwnOk
<1>4. thread' \in [Node -> [Iface -> {Idle} \cup Working(nums)]]
    <2>1. thread' = [thread EXCEPT ![d] = [i \in Iface |-> Idle]]
        BY DEF Restart
    <2> QED
        BY <1>1, <2>1 DEF BatInv
<1> QED
    BY <1>2, <1>3, <1>4 DEF BatInv, Restart

LEMMA InitIsOk ==
    ASSUME NEW nums, Init PROVE BatInv(nums)
<1>1. MaxOgms \in Nat /\ ResetCount \in Int /\ FirstSeq \subseteq SeqNum
    BY BatmanAssumption
<1>2. budget \in [ogm : 0 .. MaxOgms, fault : Nat, delay : Nat]
    BY BatmanAssumption DEF Init
<1>3. PICK s \in FirstSeq :
         own = [d \in Originator |-> [seq |-> s, reset |-> IF s = 0 THEN ResetCount ELSE 0]]
    BY DEF Init
<1>4. OwnOk
    <2>1. budget \in [ogm : 0 .. MaxOgms, fault : Int, delay : Int]
          /\ budget.ogm \in 0 .. MaxOgms
        BY <1>2
    <2>2. own \in [Originator -> [seq : SeqNum, reset : Int]]
        BY <1>1, <1>3
    <2>3. (s + 0) % SeqMod = s
        BY <1>1, HalfFacts DEF SeqNum
    <2>4. 0 \in 0 .. MaxOgms - budget.ogm
        BY <1>1, <2>1
    <2> QED
        BY <1>3, <2>1, <2>2, <2>3, <2>4 DEF OwnOk
<1>5. TablesOk(nums)
    <2>1. rt = [n \in Node |-> [d \in Originator |-> {}]]
        BY DEF Init
    <2> QED
        BY <2>1 DEF TablesOk
<1>6. air \subseteq Ogms(nums) /\ thread \in [Node -> [Iface -> {Idle} \cup Working(nums)]]
    BY DEF Init
<1> QED
    BY <1>4, <1>5, <1>6 DEF BatInv

NearIn(nums) ==
    \A n \in Node, i \in Iface : thread[n][i].pc = "capture" =>
       \E base \in Int, span \in Nat :
          /\ span + WindowSize < Half /\ Arc(base, span) \subseteq nums
          /\ CapturedWithin(n, i, Arc(base, span))

LEMMA StepKeeps ==
    ASSUME NEW nums, BatInv(nums), NearIn(nums), [Next]_vars,
           \A s \in FirstSeq \cup {0}, k \in 0 .. MaxOgms : (s + k) % SeqMod \in nums
    PROVE  BatInv(nums)'
<1>1. ASSUME NEW d \in Originator, SendOgm(d) PROVE BatInv(nums)'
    BY <1>1, SendKeeps
<1>2. ASSUME NEW d \in Originator, Restart(d) PROVE BatInv(nums)'
    BY <1>2, RestartKeeps
<1>3. ASSUME NEW n \in Listener, NEW m \in Node, NEW i \in Iface, CaptureNeighbour(n, m, i)
      PROVE  BatInv(nums)'
    BY <1>3, OwnStays, TablesStay DEF CaptureNeighbour, BatInv
<1>4. ASSUME NEW n \in Node, NEW i \in Iface, NEW o \in air, ReceiveOgm(n, i, o)
      PROVE  BatInv(nums)'
    BY <1>4, ReceiveKeeps
<1>5. ASSUME NEW n \in Node, NEW i \in Iface, CaptureRoute(n, i)
      PROVE  BatInv(nums)'
    <2>1. PICK base \in Int, span \in Nat :
             /\ span + WindowSize < Half /\ Arc(base, span) \subseteq nums
             /\ CapturedWithin(n, i, Arc(base, span))
        BY <1>5 DEF NearIn, CaptureRoute
    <2> QED
        BY <1>5, <2>1, CaptureKeeps
<1>6. ASSUME NEW n \in Node, NEW i \in Iface, ChooseRelay(n, i) \/ Relay(n, i)
      PROVE  BatInv(nums)'
    BY <1>6, ChooseKeeps, RelayKeeps
<1>7. ASSUME NEW n \in Node, Timeout(n) PROVE BatInv(nums)'
    BY <1>7, TimeoutKeeps
<1>8. CASE UNCHANGED vars
    BY <1>8, OwnStays, TablesStay DEF vars, BatInv
<1> QED
    BY <1>1, <1>2, <1>3, <1>4, <1>5, <1>6, <1>7, <1>8 DEF Next

LEMMA Usables == ASSUME NEW nums, BatInv(nums) PROVE RoutesUsable
BY DEF BatInv, TablesOk, EntryOk, RoutesUsable

\* What batman_db_rt_getbestroute follows without a check is there: the best
\* interface is one of the entry's and has a best next hop with a window, however
\* OGMs overtake each other on the threads of a node, and however often their
\* numbers wrap, as long as no OGM is captured that is half the range away from
\* what its window holds.
THEOREM RoutesUsableWhileNear ==
    Spec /\ []OgmsNear => []RoutesUsable
<1>1. \A s \in FirstSeq \cup {0}, k \in 0 .. MaxOgms : (s + k) % SeqMod \in SeqNum
    <2>1. \A s \in FirstSeq \cup {0} : s \in Int
        BY BatmanAssumption, HalfFacts DEF SeqNum
    <2>2. \A k \in 0 .. MaxOgms : k \in Int
        OBVIOUS
    <2> QED
        BY <2>1, <2>2, ModFacts
<1>2. \A base \in Int, span \in Nat : Arc(base, span) \subseteq SeqNum
    BY ModFacts DEF Arc, Num
<1>3. OgmsNear => NearIn(SeqNum)
    BY <1>2 DEF OgmsNear, NearIn
<1>4. Init => BatInv(SeqNum)
    BY InitIsOk
<1>5. BatInv(SeqNum) /\ OgmsNear /\ [Next]_vars => BatInv(SeqNum)'
    BY <1>1, <1>3, StepKeeps
<1>6. BatInv(SeqNum) => RoutesUsable
    BY Usables
<1> QED
    BY <1>4, <1>5, <1>6, PTL DEF Spec

-----------------------------------------------------------------------------
(* Types, without any condition on the numbers. *)

EntryTyped(e) ==
    /\ e.ifs \in Seq(Iface) /\ e.out \in Iface /\ e.seq \in SeqNum
    /\ Windows(e.win, SeqNum)
    /\ e.best \in [Iface -> Hop \cup {NoHop}]

\* What the table holds for an originator: nothing, or one entry.
Slot(S) == S = {} \/ \E e : EntryTyped(e) /\ S = {e}

RoutesTyped ==
    /\ rt = [n \in Node |-> [d \in Originator |-> rt[n][d]]]
    /\ \A n \in Node, d \in Originator : Slot(rt[n][d])

\* A thread on its way through the handlers of an OGM.
Busy == [pc : {"capture", "choose", "log"}, ogm : Ogm, last : SeqNum \cup {-1}]

StateTyped ==
    /\ budget \in [ogm : Nat, fault : Int, delay : Int]
    /\ RoutesTyped
    /\ nt \in [Node -> SUBSET (Node \X Iface)]
    /\ ogmlog \in [Node -> [Originator -> SUBSET SeqNum]]
    /\ thread \in [Node -> [Iface -> {Idle} \cup Busy]]
    /\ own \in [Originator -> [seq : SeqNum, reset : 0 .. ResetCount]]
    /\ air \subseteq Ogm

LEMMA VisitTyped ==
    ASSUME NEW e, NEW ifs \in Seq(Iface), NEW win, NEW best, NEW k \in 1 .. Len(ifs),
           NEW o \in Iface
    PROVE  Visit(e, ifs, win, best, k, o) \in Iface
<1> DEFINE left == {l \in DOMAIN ifs : l > k \/ best[ifs[l]] # NoHop}
           l == CHOOSE l \in left : \A m \in left : l <= m
           v == Visit(e, ifs, win, best, k, o)
<1>1. v = o \/ v = ifs[k] \/ (left # {} /\ v = ifs[l])
    BY DEF Visit
<1>2. ASSUME left # {} PROVE l \in DOMAIN ifs
    <2>1. left \subseteq Nat /\ left \subseteq DOMAIN ifs
        OBVIOUS
    <2> HIDE DEF left
    <2>2. \E b \in left : \A m \in left : b <= m
        BY <1>2, <2>1, LeastNat
    <2>3. l \in left
        BY <2>2
    <2> QED
        BY <2>1, <2>3
<1> HIDE DEF left, l, v
<1>3. \A p \in DOMAIN ifs : ifs[p] \in Iface
    OBVIOUS
<1>4. k \in DOMAIN ifs
    OBVIOUS
<1>5. v \in Iface
    BY <1>1, <1>2, <1>3, <1>4
<1> QED
    BY <1>5 DEF v

LEMMA OutputTyped ==
    ASSUME NEW e, e.out \in Iface, NEW ifs \in Seq(Iface), NEW win, NEW best
    PROVE  OutputIface(e, ifs, win, best) \in Iface
<1> DEFINE out[k \in 0 .. Len(ifs)] ==
              IF k = 0 THEN e.out ELSE Visit(e, ifs, win, best, k, out[k - 1])
           n == Len(ifs)
<1>1. OutputIface(e, ifs, win, best) = out[n]
    BY DEF OutputIface
<1>2. n \in Nat
    OBVIOUS
<1>3. Walk(out, n, e, ifs, win, best)
    <2>1. \E f : Walk(f, n, e, ifs, win, best)
        BY <1>2, WalkExists
    <2> QED
        BY <2>1 DEF Walk
<1> HIDE DEF out
<1>4. out[0] = e.out
    BY <1>2, <1>3 DEF Walk
<1>5. \A k \in 1 .. n : out[k] = Visit(e, ifs, win, best, k, out[k - 1])
    BY <1>2, <1>3 DEF Walk
<1> DEFINE Bad == {k \in 0 .. n : out[k] \notin Iface}
<1>6. ASSUME Bad # {} PROVE FALSE
    <2>1. PICK k \in Bad : \A m \in Bad : k <= m
        <3>1. Bad \subseteq Nat
            BY <1>2
        <3> HIDE DEF Bad
        <3> QED
            BY <1>6, <3>1, LeastNat
    <2>2. k # 0
        BY <1>4, <2>1
    <2>3. k \in 1 .. n /\ k - 1 \in 0 .. n /\ k - 1 \notin Bad
        BY <1>2, <2>1, <2>2
    <2>4. Visit(e, ifs, win, best, k, out[k - 1]) \in Iface
        BY <2>3, VisitTyped
    <2> QED
        BY <1>5, <2>1, <2>3, <2>4
<1> QED
    BY <1>1, <1>2, <1>6

LEMMA AddOgmTyped ==
    ASSUME NEW e, EntryTyped(e), NEW i \in Iface, NEW h \in Hop, NEW s \in SeqNum,
           NEW f \in AddOgm(e, i, h, s)
    PROVE  EntryTyped(f)
<1> DEFINE ifs == IF \E k \in DOMAIN e.ifs : e.ifs[k] = i THEN e.ifs
                  ELSE Append(e.ifs, i)
           win == Shifted(e.win, i, h, s)
           W(j, g) == IF <<j, g>> = <<i, h>> THEN AddSn(e.win[j][g], WindowSize, s)
                      ELSE e.win[j][g]
<1>1. PICK b \in [Iface -> Hop \cup {NoHop}] :
         f = [ifs |-> Kept(ifs, b), win |-> win, best |-> b,
              out |-> OutputIface(e, ifs, win, b), seq |-> s]
    BY DEF AddOgm
<1>2. ifs \in Seq(Iface)
    BY DEF EntryTyped
<1>3. Windows(win, SeqNum)
    <2>1. \A j \in Iface, g \in Hop : e.win[j][g] \subseteq SeqNum
        BY DEF EntryTyped, Windows
    <2>2. ASSUME NEW j \in Iface, NEW g \in Hop
          PROVE  DropSn(W(j, g), WindowSize, s) \subseteq SeqNum
        BY <2>1 DEF AddSn, DropSn
    <2>3. win = [j \in Iface |-> [g \in Hop |-> DropSn(W(j, g), WindowSize, s)]]
        BY DEF Shifted
    <2> HIDE DEF W, win
    <2> QED
        BY <2>2, <2>3 DEF Windows
<1> HIDE DEF ifs, win
<1>4. Kept(ifs, b) \in Seq(Iface)
    BY <1>2, KeptLists DEF Lists
<1>5. OutputIface(e, ifs, win, b) \in Iface
    BY <1>2, OutputTyped DEF EntryTyped
<1> QED
    BY <1>1, <1>3, <1>4, <1>5 DEF EntryTyped

LEMMA RoutesSet ==
    ASSUME RoutesTyped, NEW n \in Node, NEW d \in Originator,
           NEW E, Slot(E),
           rt' = [rt EXCEPT ![n][d] = E]
    PROVE  RoutesTyped'
<1>1. rt' = [m \in Node |-> [c \in Originator |-> IF m = n /\ c = d THEN E ELSE rt[m][c]]]
    <2>1. DOMAIN rt = Node /\ \A m \in Node : rt[m] = [c \in Originator |-> rt[m][c]]
        BY DEF RoutesTyped
    <2> QED
        BY <2>1
<1>2. ASSUME NEW m \in Node, NEW c \in Originator
      PROVE  rt'[m][c] = IF m = n /\ c = d THEN E ELSE rt[m][c]
    BY <1>1
<1>3. rt' = [m \in Node |-> [c \in Originator |-> rt'[m][c]]]
    BY <1>1
<1>4. ASSUME NEW m \in Node, NEW c \in Originator
      PROVE  Slot(rt'[m][c])
    <2>1. CASE m = n /\ c = d
        <3>1. rt'[m][c] = E
            BY <1>2, <2>1
        <3> QED
            BY <3>1
    <2>2. CASE ~(m = n /\ c = d)
        BY <1>2, <2>2 DEF RoutesTyped
    <2> QED
        BY <2>1, <2>2
<1> QED
    BY <1>3, <1>4 DEF RoutesTyped

LEMMA RoutesStay == ASSUME RoutesTyped, rt' = rt PROVE RoutesTyped'
BY DEF RoutesTyped

LEMMA InitTyped == Init => StateTyped
<1> SUFFICES ASSUME Init PROVE StateTyped
    OBVIOUS
<1>1. MaxOgms \in Nat /\ ResetCount \in Nat /\ FirstSeq \subseteq SeqNum
    BY BatmanAssumption
<1>2. budget \in [ogm : 0 .. MaxOgms, fault : Nat, delay : Nat]
    BY BatmanAssumption DEF Init
<1>3. budget \in [ogm : Nat, fault : Int, delay : Int]
    BY <1>1, <1>2
<1>4. PICK s \in FirstSeq :
         own = [d \in Originator |-> [seq |-> s, reset |-> IF s = 0 THEN ResetCount ELSE 0]]
    BY DEF Init
<1>5. own \in [Originator -> [seq : SeqNum, reset : 0 .. ResetCount]]
    BY <1>1, <1>4
<1>6. nt \in [Node -> SUBSET (Node \X Iface)]
    <2>1. ASSUME NEW n \in Node
          PROVE {<<l[2], l[3]>> : l \in {k \in InRange : k[1] = n}} \subseteq Node \X Iface
        BY BatmanAssumption
    <2>2. nt = [n \in Node |-> IF Settled /\ n \in Listener
                  THEN {<<l[2], l[3]>> : l \in {k \in InRange : k[1] = n}} ELSE {}]
        BY DEF Init
    <2> QED
        BY <2>1, <2>2
<1>7. RoutesTyped
    <2>1. rt = [n \in Node |-> [d \in Originator |-> {}]]
        BY DEF Init
    <2> QED
        BY <2>1 DEF RoutesTyped, Slot
<1> QED
    BY <1>3, <1>5, <1>6, <1>7 DEF Init, StateTyped

LEMMA SendTyped ==
    ASSUME StateTyped, NEW d \in Originator, SendOgm(d) PROVE StateTyped'
<1> DEFINE n == NextSeq(own[d].seq)
           left == budget.ogm - 1
           r == IF own[d].reset > 0 THEN own[d].reset - 1 ELSE 0
           o == own[d]
           u == [[o EXCEPT !.seq = n] EXCEPT !.reset = r]
           ogm == [orig |-> d, from |-> d, seq |-> own'[d].seq,
                   reset |-> own[d].reset > 0, prec |-> {}, at |-> budget'.ogm]
<1>1. /\ budget \in [ogm : Nat, fault : Int, delay : Int]
      /\ own \in [Originator -> [seq : SeqNum, reset : 0 .. ResetCount]]
      /\ ResetCount \in Nat /\ d \in Node
    BY BatmanAssumption DEF StateTyped
<1>2. /\ budget.ogm > 0 /\ budget' = [budget EXCEPT !.ogm = left]
      /\ own' = [own EXCEPT ![d].seq = n, ![d].reset = r]
      /\ air' \subseteq air \cup {ogm}
      /\ UNCHANGED <<rt, nt, ogmlog, thread>>
    BY <1>1 DEF SendOgm
<1>3. budget' \in [ogm : Nat, fault : Int, delay : Int] /\ budget'.ogm \in Nat
    BY <1>1, <1>2
<1>4. n \in SeqNum /\ r \in 0 .. ResetCount
    <2>1. own[d].seq + 1 \in Int
        BY <1>1, HalfFacts DEF SeqNum
    <2>2. n \in SeqNum
        BY <2>1, ModFacts DEF NextSeq
    <2> QED
        BY <1>1, <2>2
<1> HIDE DEF n, r
<1>5. own' = [c \in Originator |-> IF c = d THEN u ELSE own[c]]
    BY <1>1, <1>2
<1>6. u \in [seq : SeqNum, reset : 0 .. ResetCount]
    <2>1. o \in [seq : SeqNum, reset : 0 .. ResetCount]
        BY <1>1
    <2> HIDE DEF o
    <2> QED
        BY <1>4, <2>1
<1> HIDE DEF u
<1>7. own' \in [Originator -> [seq : SeqNum, reset : 0 .. ResetCount]]
    BY <1>1, <1>5, <1>6
<1>8. ogm \in Ogm
    BY <1>1, <1>3, <1>7 DEF Ogm
<1> HIDE DEF ogm
<1> QED
    BY <1>2, <1>3, <1>7, <1>8, RoutesStay DEF StateTyped

LEMMA SetThread ==
    ASSUME StateTyped, NEW n \in Node, NEW i \in Iface, NEW w \in {Idle} \cup Busy,
           thread' = [thread EXCEPT ![n][i] = w]
    PROVE  thread' \in [Node -> [Iface -> {Idle} \cup Busy]]
BY ThreadStep DEF StateTyped

LEMMA HearTyped ==
    ASSUME StateTyped, NEW n \in Listener, NEW m \in Node, NEW i \in Iface,
           CaptureNeighbour(n, m, i)
    PROVE  StateTyped'
<1>1. nt' = [nt EXCEPT ![n] = @ \cup {<<m, i>>}] /\ n \in Node
    BY DEF CaptureNeighbour, Listener
<1>2. nt' \in [Node -> SUBSET (Node \X Iface)]
    BY <1>1 DEF StateTyped
<1> QED
    BY <1>2, RoutesStay DEF CaptureNeighbour, StateTyped

LEMMA ReceiveTyped ==
    ASSUME StateTyped, NEW n \in Node, NEW i \in Iface, NEW o \in air,
           ReceiveOgm(n, i, o)
    PROVE  StateTyped'
<1> DEFINE last == RouteSn(n, o.orig)
           w == [pc |-> "capture", ogm |-> o, last |-> last]
           E == {}
<1>1. o \in Ogm /\ o.orig \in Originator
    BY DEF StateTyped, Ogm
<1>2. last \in SeqNum \cup {-1}
    <2>1. rt[n][o.orig] = {} \/ \E e : EntryTyped(e) /\ rt[n][o.orig] = {e}
        BY <1>1 DEF StateTyped, RoutesTyped, Slot
    <2>2. \A e \in rt[n][o.orig] : e.seq \in SeqNum
        BY <2>1 DEF EntryTyped
    <2> QED
        BY <2>2 DEF RouteSn
<1> HIDE DEF last
<1>3. w \in {Idle} \cup Busy
    BY <1>1, <1>2 DEF Busy
<1> HIDE DEF w
<1>4. thread' = [thread EXCEPT ![n][i] = w]
    BY DEF ReceiveOgm, w, last
<1>5. thread' \in [Node -> [Iface -> {Idle} \cup Busy]]
    BY <1>3, <1>4, SetThread
<1>6. RoutesTyped'
    <2>1. CASE rt' = rt
        BY <2>1, RoutesStay DEF StateTyped
    <2>2. CASE rt' = [rt EXCEPT ![n][o.orig] = {}]
        <3>1. rt' = [rt EXCEPT ![n][o.orig] = E] /\ E = {}
            BY <2>2
        <3>2. Slot(E)
            BY DEF Slot
        <3> HIDE DEF E
        <3> QED
            BY <1>1, <3>1, <3>2, RoutesSet DEF StateTyped
    <2> QED
        BY <2>1, <2>2 DEF ReceiveOgm
<1> QED
    BY <1>5, <1>6 DEF ReceiveOgm, StateTyped

LEMMA CaptureTyped ==
    ASSUME StateTyped, NEW n \in Node, NEW i \in Iface, CaptureRoute(n, i)
    PROVE  StateTyped'
<1> DEFINE t == thread[n][i]
           o == t.ogm
           old == IF rt[n][o.orig] = {} THEN NewEntry(i)
                  ELSE CHOOSE e \in rt[n][o.orig] : TRUE
           w == [t EXCEPT !.pc = IF ResendAlways THEN "log" ELSE "choose"]
<1>1. t \in Busy /\ t.pc = "capture"
    <2>1. t \in {Idle} \cup Busy /\ t.pc = "capture"
        BY DEF StateTyped, CaptureRoute
    <2> QED
        BY <2>1 DEF Idle
<1>2. o.orig \in Originator /\ o.from \in Hop /\ o.seq \in SeqNum
    BY <1>1 DEF Busy, Ogm, Node
<1>3. w \in {Idle} \cup Busy
    BY <1>1 DEF Busy
<1>4. /\ thread' = [thread EXCEPT ![n][i] = w]
      /\ UNCHANGED <<nt, ogmlog, own, air, budget>>
      /\ \/ rt' = rt
         \/ \E e \in AddOgm(old, i, o.from, o.seq) : rt' = [rt EXCEPT ![n][o.orig] = {e}]
    BY DEF CaptureRoute
<1>5. EntryTyped(old)
    <2>1. CASE rt[n][o.orig] = {}
        <3>1. old = NewEntry(i)
            BY <2>1
        <3> HIDE DEF old
        <3>2. <<i>> \in Seq(Iface) /\ 0 \in SeqNum
            BY HalfFacts DEF SeqNum
        <3> QED
            BY <3>1, <3>2 DEF NewEntry, EntryTyped, Windows
    <2>2. CASE rt[n][o.orig] # {}
        <3>1. PICK e : EntryTyped(e) /\ rt[n][o.orig] = {e}
            BY <1>2, <2>2 DEF StateTyped, RoutesTyped, Slot
        <3>2. old = e
            BY <2>2, <3>1
        <3> QED
            BY <3>1, <3>2
    <2> QED
        BY <2>1, <2>2
<1> HIDE DEF w, t, o, old
<1>6. thread' \in [Node -> [Iface -> {Idle} \cup Busy]]
    BY <1>3, <1>4, SetThread
<1>7. RoutesTyped'
    <2>0. RoutesTyped
        BY DEF StateTyped
    <2>1. CASE rt' = rt
        BY <2>0, <2>1, RoutesStay
    <2>2. CASE rt' # rt
        <3>1. PICK e \in AddOgm(old, i, o.from, o.seq) : rt' = [rt EXCEPT ![n][o.orig] = {e}]
            BY <1>4, <2>2
        <3>2. EntryTyped(e)
            BY <1>2, <1>5, AddOgmTyped
        <3> DEFINE E == {e}
        <3>3. rt' = [rt EXCEPT ![n][o.orig] = E] /\ E = {e}
            BY <3>1
        <3>4. Slot(E)
            BY <3>2 DEF Slot
        <3> HIDE DEF E
        <3> QED
            BY <1>2, <2>0, <3>3, <3>4, RoutesSet
    <2> QED
        BY <2>1, <2>2
<1> QED
    BY <1>4, <1>6, <1>7 DEF StateTyped

LEMMA ChooseTyped ==
    ASSUME StateTyped, NEW n \in Node, NEW i \in Iface, ChooseRelay(n, i)
    PROVE  StateTyped'
<1> DEFINE t == thread[n][i]
           w == IF FromBestHop(n, i, t.ogm) THEN [t EXCEPT !.pc = "log"] ELSE Idle
<1>1. t \in Busy
    <2>1. t \in {Idle} \cup Busy /\ t.pc = "choose"
        BY DEF StateTyped, ChooseRelay
    <2> QED
        BY <2>1 DEF Idle
<1>2. w \in {Idle} \cup Busy
    <2> HIDE DEF t
    <2>1. [t EXCEPT !.pc = "log"] \in Busy
        BY <1>1 DEF Busy
    <2> QED
        BY <2>1
<1>3. thread' = [thread EXCEPT ![n][i] = w]
    BY DEF ChooseRelay
<1> HIDE DEF w, t
<1>4. thread' \in [Node -> [Iface -> {Idle} \cup Busy]]
    BY <1>2, <1>3, SetThread
<1> QED
    BY <1>4, RoutesStay DEF ChooseRelay, StateTyped

LEMMA RelayTyped ==
    ASSUME StateTyped, NEW n \in Node, NEW i \in Iface, Relay(n, i)
    PROVE  StateTyped'
<1> DEFINE t == thread[n][i]
           o == t.ogm
           r == [o EXCEPT !.from = n, !.prec = IF UsePrecursor THEN @ \cup {n} ELSE @]
<1>1. o \in Ogm
    <2>1. t \in {Idle} \cup Busy /\ t.pc = "log"
        BY DEF StateTyped, Relay
    <2>2. t \in Busy
        BY <2>1 DEF Idle
    <2> QED
        BY <2>2 DEF Busy
<1>2. /\ air' \subseteq air \cup {r}
      /\ ogmlog' = ogmlog \/ ogmlog' = [ogmlog EXCEPT ![n][o.orig] = {o.seq}]
      /\ thread' = [thread EXCEPT ![n][i] = Idle]
      /\ UNCHANGED <<rt, nt, own, budget>>
    BY DEF Relay
<1> HIDE DEF o, r
<1>3. r \in Ogm
    <2>1. UsePrecursor \in BOOLEAN
        BY BatmanAssumption
    <2> QED
        BY <1>1, <2>1 DEF Ogm, r
<1>4. ogmlog' \in [Node -> [Originator -> SUBSET SeqNum]]
    <2>1. o.orig \in Originator /\ {o.seq} \in SUBSET SeqNum
        BY <1>1 DEF Ogm
    <2>2. ogmlog \in [Node -> [Originator -> SUBSET SeqNum]]
        BY DEF StateTyped
    <2>3. CASE ogmlog' = ogmlog
        BY <2>2, <2>3
    <2>4. CASE ogmlog' = [ogmlog EXCEPT ![n][o.orig] = {o.seq}]
        <3>1. ogmlog[n] \in [Originator -> SUBSET SeqNum]
            BY <2>2
        <3>2. [ogmlog[n] EXCEPT ![o.orig] = {o.seq}] \in [Originator -> SUBSET SeqNum]
            BY <2>1, <3>1
        <3> QED
            BY <2>2, <2>4, <3>2
    <2> QED
        BY <1>2, <2>3, <2>4
<1>5. thread' \in [Node -> [Iface -> {Idle} \cup Busy]]
    BY <1>2, SetThread
<1>6. air' \subseteq Ogm
    BY <1>2, <1>3 DEF StateTyped
<1> QED
    BY <1>2, <1>4, <1>5, <1>6, RoutesStay DEF StateTyped

LEMMA FaultTyped ==
    ASSUME StateTyped, NEW n \in Node, Timeout(n) \/ (n \in Originator /\ Restart(n))
    PROVE  StateTyped'
<1>1. budget' \in [ogm : Nat, fault : Int, delay : Int]
    <2>1. budget \in [ogm : Nat, fault : Int, delay : Int]
        BY DEF StateTyped
    <2>2. budget' = [budget EXCEPT !.fault = @ - 1]
        BY DEF Timeout, Restart
    <2> QED
        BY <2>1, <2>2
<1>2. RoutesTyped
    BY DEF StateTyped
<1>3. CASE Timeout(n)
    <2>1. CASE rt' = rt
        <3>1. nt' \in [Node -> SUBSET (Node \X Iface)]
            BY <1>3, <2>1 DEF Timeout, StateTyped
        <3> QED
            BY <1>1, <1>2, <1>3, <2>1, <3>1, RoutesStay DEF Timeout, StateTyped
    <2>2. CASE rt' # rt
        <3> DEFINE E == {}
        <3>1. PICK d \in Originator : rt' = [rt EXCEPT ![n][d] = E] /\ UNCHANGED nt
            BY <1>3, <2>2 DEF Timeout
        <3>2. Slot(E)
            BY DEF Slot
        <3> HIDE DEF E
        <3>3. RoutesTyped'
            BY <1>2, <3>1, <3>2, RoutesSet
        <3> QED
            BY <1>1, <1>3, <3>1, <3>3 DEF Timeout, StateTyped
    <2> QED
        BY <2>1, <2>2
<1>4. CASE n \in Originator /\ Restart(n)
    <2>1. /\ rt' = [rt EXCEPT ![n] = [c \in Originator |-> {}]]
          /\ nt' = [nt EXCEPT ![n] = {}]
          /\ ogmlog' = [ogmlog EXCEPT ![n] = [c \in Originator |-> {}]]
          /\ thread' = [thread EXCEPT ![n] = [i \in Iface |-> Idle]]
          /\ own' = [own EXCEPT ![n] = [seq |-> 0, reset |-> ResetCount]]
          /\ air' = air
        BY <1>4 DEF Restart
    <2>2. RoutesTyped'
        <3>1. rt = [m \in Node |-> [c \in Originator |-> rt[m][c]]]
            BY <1>2 DEF RoutesTyped
        <3>2. DOMAIN rt = Node
            BY <3>1
        <3>3. ASSUME NEW m \in Node
              PROVE  rt'[m] = IF m = n THEN [c \in Originator |-> {}] ELSE rt[m]
            BY <2>1, <3>2
        <3>4. rt' = [m \in Node |-> rt'[m]]
            BY <2>1, <3>2
        <3>5. ASSUME NEW m \in Node
              PROVE  /\ rt'[m] = [c \in Originator |-> rt'[m][c]]
                     /\ \A c \in Originator : rt'[m][c] = {} \/ rt'[m][c] = rt[m][c]
            <4>1. CASE m = n
                BY <3>3, <4>1
            <4>2. CASE m # n
                <5>1. rt[m] = [c \in Originator |-> rt[m][c]]
                    BY <3>1
                <5> QED
                    BY <3>3, <4>2, <5>1
            <4> QED
                BY <4>1, <4>2
        <3>6. rt' = [m \in Node |-> [c \in Originator |-> rt'[m][c]]]
            BY <3>4, <3>5
        <3>7. ASSUME NEW m \in Node, NEW c \in Originator
              PROVE  Slot(rt'[m][c])
            <4>1. CASE rt'[m][c] = {}
                BY <4>1 DEF Slot
            <4>2. CASE rt'[m][c] = rt[m][c]
                BY <1>2, <4>2 DEF RoutesTyped
            <4> QED
                BY <3>5, <4>1, <4>2
        <3> QED
            BY <3>6, <3>7 DEF RoutesTyped
    <2>3. own' \in [Originator -> [seq : SeqNum, reset : 0 .. ResetCount]]
        <3>1. ResetCount \in Nat /\ 0 \in SeqNum
            BY BatmanAssumption, HalfFacts DEF SeqNum
        <3>2. [seq |-> 0, reset |-> ResetCount] \in [seq : SeqNum, reset : 0 .. ResetCount]
            BY <3>1
        <3>3. own \in [Originator -> [seq : SeqNum, reset : 0 .. ResetCount]]
            BY DEF StateTyped
        <3> QED
            BY <2>1, <3>2, <3>3
    <2>4. nt' \in [Node -> SUBSET (Node \X Iface)]
          /\ ogmlog' \in [Node -> [Originator -> SUBSET SeqNum]]
          /\ thread' \in [Node -> [Iface -> {Idle} \cup Busy]]
        BY <2>1 DEF StateTyped
    <2> QED
        BY <1>1, <2>1, <2>2, <2>3, <2>4 DEF StateTyped
<1> QED
    BY <1>3, <1>4

\* Types of the model, for any mesh, settings and numbers: a node has at most one
\* entry for an originator, whose windows hold sequence numbers.
THEOREM TypeCorrect == Spec => []TypeOK
<1>1. StateTyped /\ [Next]_vars => StateTyped'
    <2> SUFFICES ASSUME StateTyped, [Next]_vars PROVE StateTyped'
        OBVIOUS
    <2>1. ASSUME NEW d \in Originator, SendOgm(d) \/ Restart(d) PROVE StateTyped'
        <3>1. d \in Node
            BY BatmanAssumption
        <3> QED
            BY <2>1, <3>1, SendTyped, FaultTyped
    <2>2. ASSUME NEW n \in Listener, NEW m \in Node, NEW i \in Iface, CaptureNeighbour(n, m, i)
          PROVE  StateTyped'
        BY <2>2, HearTyped
    <2>3. ASSUME NEW n \in Node, NEW i \in Iface, NEW o \in air, ReceiveOgm(n, i, o)
          PROVE  StateTyped'
        BY <2>3, ReceiveTyped
    <2>4. ASSUME NEW n \in Node, NEW i \in Iface,
                 CaptureRoute(n, i) \/ ChooseRelay(n, i) \/ Relay(n, i)
          PROVE  StateTyped'
        BY <2>4, CaptureTyped, ChooseTyped, RelayTyped
    <2>5. ASSUME NEW n \in Node, Timeout(n) PROVE StateTyped'
        BY <2>5, FaultTyped
    <2>6. CASE UNCHANGED vars
        BY <2>6, RoutesStay DEF vars, StateTyped
    <2> QED
        BY <2>1, <2>2, <2>3, <2>4, <2>5, <2>6 DEF Next
<1>2. ASSUME StateTyped PROVE TypeOK
    <2>1. ASSUME NEW n \in Node, NEW d \in Originator
          PROVE  /\ Cardinality(rt[n][d]) <= 1
                 /\ \A e \in rt[n][d] :
                       /\ e.out \in Iface /\ e.seq \in SeqNum
                       /\ e.win \in [Iface -> [Hop -> SUBSET SeqNum]]
                       /\ e.best \in [Iface -> Hop \cup {NoHop}]
        <3>1. rt[n][d] = {} \/ \E e : EntryTyped(e) /\ rt[n][d] = {e}
            BY <1>2 DEF StateTyped, RoutesTyped, Slot
        <3>2. \A e \in rt[n][d] : EntryTyped(e)
            BY <3>1
        <3>3. Cardinality(rt[n][d]) <= 1
            <4>1. CASE rt[n][d] = {}
                BY <4>1, FS_EmptySet
            <4>2. ASSUME NEW e, rt[n][d] = {e} PROVE Cardinality(rt[n][d]) <= 1
                <5>1. Cardinality({e}) = 1
                    BY FS_Singleton
                <5> QED
                    BY <4>2, <5>1
            <4> QED
                BY <3>1, <4>1, <4>2
        <3> QED
            BY <3>2, <3>3 DEF EntryTyped, Windows
    <2> QED
        BY <1>2, <2>1 DEF StateTyped, TypeOK
<1> QED
    BY <1>1, <1>2, InitTyped, PTL DEF Spec
=============================================================================
