----------------------------- MODULE Lsr_proofs -----------------------------
(***************************************************************************)
(* Proofs about LSR.  First the duplicate check, for sequence numbers of   *)
(* any width, any threshold and any number of gaps: a number that is so    *)
(* old that it can no longer arrive may be in a gap by mistake, because    *)
(* the bounds of the gaps wrap; the invariant speaks of the others.  Then  *)
(* the routes, for every mesh: the tables that Dijkstra works on are       *)
(* complete at each step of the protocol, and its loop keeps the labels    *)
(* lengths of paths until no node with a route waits.                      *)
(***************************************************************************)
EXTENDS Lsr, FiniteSetTheorems, SequenceTheorems, WellFoundedInduction, TLAPS

Numbers == 1 .. MaxSent
Gaps == [1 .. GapCount -> Gap]

InGap(g, j, x) == g[j].start <= x /\ x < g[j].end

\* Number x can still arrive, or be guessed, when n is the newest one.
Alive(x, n) == x + Threshold >= n

\* What is in a gap is older than the newest number and was not taken ...
GapsAreMissing(g, n, t) ==
    \A j \in 1 .. GapCount : \A x \in Numbers :
        InGap(g, j, x) /\ Alive(x, n) => x <= n /\ t[x] = 0

\* ... and is in one gap only: once it is taken, no gap has it.
GapsAreDisjoint(g, n) ==
    \A i, j \in 1 .. GapCount : \A x \in Numbers :
        InGap(g, i, x) /\ InGap(g, j, x) /\ Alive(x, n) => i = j

GapsSound(g, n, t) == GapsAreMissing(g, n, t) /\ GapsAreDisjoint(g, n)

\* The newest number is that of a packet, and the sender is not so far ahead
\* that its next number could be taken for an old one.
NewestIsTaken ==
    /\ window.newest <= number /\ number <= window.newest + MaxLost + 1
    /\ window.newest # 0 => taken[window.newest] > 0
    /\ \A k \in Numbers : taken[k] > 0 => k <= window.newest

IInv ==
    /\ WindowOK /\ NewestIsTaken /\ TakenOnce
    /\ GapsSound(window.gaps, window.newest, taken)

-----------------------------------------------------------------------------
(* Numbers that wrap. *)

LEMMA Division ==
    ASSUME NEW S \in Nat \ {0}, NEW a \in Int
    PROVE  a \div S \in Int /\ a % S \in 0 .. S - 1 /\ a = S * (a \div S) + (a % S)
OBVIOUS

LEMMA ModOfDiff ==
    ASSUME NEW S \in Nat \ {0}, NEW x \in 0 .. S - 1, NEW q \in Int
    PROVE  (x - S * q) % S = x
OBVIOUS

\* Two numbers less than S apart can be told by what is left of the larger.
LEMMA Unwrap ==
    ASSUME NEW S \in Nat \ {0}, NEW a \in Nat, NEW l \in Nat, l <= a, a - l < S
    PROVE  ((a % S) - l) % S = a - l
<1> DEFINE q == a \div S
<1>1. q \in Int /\ a % S = a - S * q
  BY Division
<1> HIDE DEF q
<1>2. (a % S) - l = (a - l) - S * q
  BY <1>1
<1>3. a - l \in 0 .. S - 1
  OBVIOUS
<1>4. ((a - l) - S * q) % S = a - l
  BY <1>1, <1>3, ModOfDiff
<1> QED BY <1>2, <1>4, Zenon

LEMMA Wrapped ==
    ASSUME NEW S \in Nat \ {0}, NEW a \in Nat
    PROVE  /\ a % S \in 0 .. S - 1
           /\ a < S => a % S = a
           /\ a >= S => a % S <= a - S
OBVIOUS

\* _guess_seq_nr finds the number itself as long as it is not older than the
\* threshold and not more than what is lost in a row ahead.
LEMMA GuessIsRight ==
    ASSUME NEW n \in Nat, NEW k \in Nat, k + Threshold >= n, k <= n + MaxLost + 1
    PROVE  Guess(n, k % SeqSpan) = k
<1> DEFINE low == IF n > Threshold THEN n - Threshold ELSE 0
<1>1. low \in Nat /\ low <= k /\ k - low < SeqSpan /\ SeqSpan \in Nat \ {0}
  BY LsrSeqAssumption, DelayAssumption
<1>2. Guess(n, k % SeqSpan) = low + (((k % SeqSpan) - low) % SeqSpan)
  BY DEF Guess
<1> HIDE DEF low
<1>3. ((k % SeqSpan) - low) % SeqSpan = k - low
  BY <1>1, Unwrap
<1>4. Guess(n, k % SeqSpan) = low + (k - low)
  BY <1>2, <1>3, Zenon
<1> QED BY <1>1, <1>4

-----------------------------------------------------------------------------
(* Gaps. *)

LEMMA GapType ==
    ASSUME NEW a \in 0 .. SeqSpan - 1, NEW b \in 0 .. SeqSpan - 1
    PROVE  [start |-> a, end |-> b] \in Gap
BY DEF Gap

LEMMA NoGapType == NoGap \in Gap /\ [k \in 1 .. GapCount |-> NoGap] \in Gaps
BY LsrSeqAssumption DEF Gap, Gaps, NoGap

\* The gap before a new number that is not next to the newest one.
LEMMA NewGap ==
    ASSUME NEW n \in Nat, NEW k \in Nat, n + 1 < k, k <= n + MaxLost + 1,
           NEW gap, gap = [start |-> (n + 1) % SeqSpan, end |-> k % SeqSpan]
    PROVE  /\ gap \in Gap
           /\ \A x \in Numbers : gap.start <= x /\ x < gap.end /\ Alive(x, k)
                 => n < x /\ x < k
<1>0. SeqSpan \in Nat \ {0} /\ Threshold \in Nat /\ Threshold < SeqSpan
      /\ MaxLost \in Nat /\ MaxLost + 1 < SeqSpan
  BY LsrSeqAssumption, DelayAssumption
<1>1. gap.start \in 0 .. SeqSpan - 1 /\ gap.end \in 0 .. SeqSpan - 1
      /\ gap.start = (n + 1) % SeqSpan /\ gap.end = k % SeqSpan
  BY <1>0, Wrapped
<1>2. ASSUME NEW x \in Numbers, gap.start <= x, x < gap.end, Alive(x, k)
      PROVE  n < x /\ x < k
  <2>1. CASE k >= SeqSpan
    <3>1. gap.end <= k - SeqSpan
      BY <1>0, <1>1, <2>1, Wrapped
    <3> QED BY <1>0, <1>1, <1>2, <3>1 DEF Alive, Numbers
  <2>2. CASE k < SeqSpan
    <3>1. k % SeqSpan = k
      BY <1>0, <2>2, Wrapped
    <3>2. n + 1 \in Nat /\ n + 1 < SeqSpan
      BY <1>0, <2>2
    <3>3. (n + 1) % SeqSpan = n + 1
      BY <1>0, <3>2, Wrapped
    <3>4. gap.start = n + 1 /\ gap.end = k
      BY <1>1, <3>1, <3>3, Zenon
    <3> QED BY <1>2, <3>4 DEF Numbers
  <2> QED BY <1>0, <2>1, <2>2
<1>3. gap \in Gap
  BY <1>1 DEF Gap
<1> QED BY <1>2, <1>3

\* Another gap that holds only newer numbers may replace any gap.
LEMMA InsertSound ==
    ASSUME NEW n \in Nat, NEW k \in Nat, n < k, NEW g \in Gaps, NEW gap \in Gap,
           NEW t \in [Numbers -> 0 .. 2], NEW i, GapsSound(g, n, t),
           \A x \in Numbers : t[x] > 0 => x <= n,
           \A x \in Numbers : gap.start <= x /\ x < gap.end /\ Alive(x, k)
              => n < x /\ x < k,
           NEW h, h = [g EXCEPT ![i] = gap],
           NEW u, u = [t EXCEPT ![k] = 1]
    PROVE  h \in Gaps /\ GapsSound(h, k, u)
<1>1. h \in Gaps /\ \A j \in 1 .. GapCount : h[j] = g[j] \/ (j = i /\ h[j] = gap)
  BY DEF Gaps
<1>2. \A x \in Numbers : Alive(x, k) => Alive(x, n)
  BY LsrSeqAssumption DEF Alive, Numbers
<1>3. \A x \in Numbers : x # k => u[x] = t[x]
  OBVIOUS
<1>4. ASSUME NEW j \in 1 .. GapCount, NEW x \in Numbers, InGap(h, j, x), Alive(x, k)
      PROVE  x < k /\ t[x] = 0
  <2>1. CASE h[j] = g[j]
    <3>1. InGap(g, j, x) /\ Alive(x, n)
      BY <1>2, <1>4, <2>1 DEF InGap
    <3>2. x <= n /\ t[x] = 0
      BY <3>1 DEF GapsSound, GapsAreMissing
    <3> QED BY <3>2 DEF Numbers
  <2>2. CASE h[j] = gap
    <3>1. n < x /\ x < k
      BY <1>4, <2>2 DEF InGap
    <3> QED BY <3>1 DEF Numbers
  <2> QED BY <1>1, <2>1, <2>2
<1>5. ASSUME NEW j \in 1 .. GapCount, NEW m \in 1 .. GapCount, NEW x \in Numbers,
             InGap(h, j, x), InGap(h, m, x), Alive(x, k)
      PROVE  j = m
  <2>1. CASE h[j] = g[j] /\ h[m] = g[m]
    <3>1. InGap(g, j, x) /\ InGap(g, m, x) /\ Alive(x, n)
      BY <1>2, <1>5, <2>1 DEF InGap
    <3> QED BY <3>1 DEF GapsSound, GapsAreDisjoint
  <2>2. CASE h[j] = gap /\ j = i /\ h[m] = g[m]
    <3>1. InGap(g, m, x) /\ Alive(x, n) /\ n < x
      BY <1>2, <1>5, <2>2 DEF InGap
    <3> QED BY <3>1 DEF GapsSound, GapsAreMissing, Numbers
  <2>3. CASE h[m] = gap /\ m = i /\ h[j] = g[j]
    <3>1. InGap(g, j, x) /\ Alive(x, n) /\ n < x
      BY <1>2, <1>5, <2>3 DEF InGap
    <3> QED BY <3>1 DEF GapsSound, GapsAreMissing, Numbers
  <2>4. CASE j = i /\ m = i
    BY <2>4
  <2> QED BY <1>1, <2>1, <2>2, <2>3, <2>4
<1>6. GapsAreMissing(h, k, u)
  BY <1>3, <1>4 DEF GapsAreMissing, Numbers
<1> QED BY <1>1, <1>5, <1>6 DEF GapsSound, GapsAreDisjoint

\* When nothing is newer than the newest number, the gaps stay.
LEMMA OlderSound ==
    ASSUME NEW n \in Nat, NEW k \in Nat, n < k, NEW g \in Gaps,
           NEW t \in [Numbers -> 0 .. 2], GapsSound(g, n, t),
           NEW u, u = [t EXCEPT ![k] = 1]
    PROVE  GapsSound(g, k, u)
<1>1. \A x \in Numbers : Alive(x, k) => Alive(x, n)
  BY LsrSeqAssumption DEF Alive, Numbers
<1>2. \A x \in Numbers : x <= n => x # k /\ u[x] = t[x]
  BY DEF Numbers
<1> QED BY <1>1, <1>2 DEF GapsSound, GapsAreMissing, GapsAreDisjoint, Numbers

LEMMA EmptySound ==
    ASSUME NEW n, NEW t
    PROVE  GapsSound([k \in 1 .. GapCount |-> NoGap], n, t)
BY DEF GapsSound, GapsAreMissing, GapsAreDisjoint, InGap, NoGap, Numbers

\* Packet k was taken.
Took(t, k) == [t EXCEPT ![k] = 1]

\* _split_gap takes a number out of its gap and adds none to any, even when
\* the lower part takes the place of another gap or of the upper part.
LEMMA SplitSound ==
    ASSUME NEW n \in Nat, NEW g \in Gaps, NEW t \in [Numbers -> 0 .. 2],
           GapsSound(g, n, t), NEW j \in 1 .. GapCount, NEW k \in Numbers,
           InGap(g, j, k), Alive(k, n)
    PROVE  Split(g, j, k) \in Gaps /\ GapsSound(Split(g, j, k), n, Took(t, k))
<1> SUFFICES ASSUME NEW h, h = Split(g, j, k), NEW u, u = [t EXCEPT ![k] = 1]
             PROVE  h \in Gaps /\ GapsSound(h, n, u)
  BY DEF Took
<1> DEFINE i == InsertIndex(g)
           lower == [start |-> g[j].start, end |-> k]
           upper == [start |-> k + 1, end |-> g[j].end]
           below == [g EXCEPT ![i] = lower]
<1>0. g[j] \in Gap /\ SeqSpan \in Nat \ {0} /\ k \in Nat
      /\ g[j].start <= k /\ k < g[j].end
  BY LsrSeqAssumption DEF Gaps, InGap, Numbers
<1>1. lower \in Gap /\ upper \in Gap
  BY <1>0 DEF Gap
\* One gap may become a part of gap j, and gap j always loses k.
<1>2. \/ h = [g EXCEPT ![j] = upper]
      \/ h = [g EXCEPT ![j] = lower]
      \/ h = [below EXCEPT ![j] = [below[j] EXCEPT !.start = k + 1]]
  <2>1. [g EXCEPT ![j].start = k + 1] = [g EXCEPT ![j] = upper]
    <3>1. [g[j] EXCEPT !.start = k + 1] = upper
      BY <1>0 DEF Gap
    <3> HIDE DEF upper
    <3> QED BY <3>1
  <2>2. k = g[j].end - 1 => [g EXCEPT ![j].end = k] = [g EXCEPT ![j] = lower]
    <3>1. [g[j] EXCEPT !.end = k] = lower
      BY <1>0 DEF Gap
    <3> HIDE DEF lower
    <3> QED BY <3>1
  <2> HIDE DEF lower, upper
  <2> QED BY <2>1, <2>2 DEF Split, lower
<1>3. CASE /\ h \in Gaps
           /\ \A m \in 1 .. GapCount : m # j => h[m] = g[m]
           /\ \A x \in Numbers : InGap(h, j, x) => InGap(g, j, x) /\ x # k
  <2>1. \A m \in 1 .. GapCount : \A x \in Numbers :
           InGap(h, m, x) => InGap(g, m, x) /\ (m = j => x # k)
    BY <1>3 DEF InGap
  <2>2. GapsAreMissing(h, n, u)
    <3>1. ASSUME NEW m \in 1 .. GapCount, NEW x \in Numbers, InGap(h, m, x), Alive(x, n)
          PROVE  x <= n /\ u[x] = 0
      <4>1. InGap(g, m, x) /\ (m = j => x # k)
        BY <2>1, <3>1
      <4>2. x # k
        BY <4>1 DEF GapsSound, GapsAreDisjoint
      <4> QED BY <3>1, <4>1, <4>2 DEF GapsSound, GapsAreMissing
    <3> QED BY <3>1 DEF GapsAreMissing
  <2>3. GapsAreDisjoint(h, n)
    BY <2>1 DEF GapsSound, GapsAreDisjoint
  <2> QED BY <1>3, <2>2, <2>3 DEF GapsSound
<1>4. CASE /\ h \in Gaps /\ i \in 1 .. GapCount /\ i # j
           /\ h[i] = lower /\ h[j] = upper
           /\ \A m \in 1 .. GapCount : m \notin {i, j} => h[m] = g[m]
  <2>1. \A m \in 1 .. GapCount : \A x \in Numbers : InGap(h, m, x) =>
           \/ m \notin {i, j} /\ InGap(g, m, x)
           \/ m = i /\ InGap(g, j, x) /\ x < k
           \/ m = j /\ InGap(g, j, x) /\ x > k
    BY <1>0, <1>4 DEF InGap, Numbers, Gap
  <2> HIDE DEF i, lower, upper, below
  <2>2. GapsAreMissing(h, n, u)
    <3>1. ASSUME NEW m \in 1 .. GapCount, NEW x \in Numbers, InGap(h, m, x), Alive(x, n)
          PROVE  x <= n /\ u[x] = 0
      <4>1. \E q \in 1 .. GapCount : InGap(g, q, x) /\ (q = j => x # k)
        BY <2>1, <3>1 DEF Numbers
      <4>2. x # k
        BY <4>1 DEF GapsSound, GapsAreDisjoint
      <4> QED BY <3>1, <4>1, <4>2 DEF GapsSound, GapsAreMissing
    <3> QED BY <3>1 DEF GapsAreMissing
  <2>3. ASSUME NEW m \in 1 .. GapCount, NEW q \in 1 .. GapCount, NEW x \in Numbers,
               InGap(h, m, x), InGap(h, q, x), Alive(x, n)
        PROVE  m = q
    <3>1. \A l \in 1 .. GapCount : InGap(g, l, x) /\ InGap(g, j, x) => l = j
      BY <2>3 DEF GapsSound, GapsAreDisjoint
    <3>2. \A l, p \in 1 .. GapCount : InGap(g, l, x) /\ InGap(g, p, x) => l = p
      BY <2>3 DEF GapsSound, GapsAreDisjoint
    <3>3. ~(x < k /\ x > k)
      BY <1>0 DEF Numbers
    <3> QED BY <2>1, <2>3, <3>1, <3>2, <3>3
  <2> QED BY <1>4, <2>2, <2>3 DEF GapsSound, GapsAreDisjoint
<1>5. CASE h = [g EXCEPT ![j] = upper] \/ h = [g EXCEPT ![j] = lower]
  <2>1. h \in Gaps /\ (h[j] = upper \/ h[j] = lower)
        /\ \A m \in 1 .. GapCount : m # j => h[m] = g[m]
    BY <1>1, <1>5 DEF Gaps
  <2>2. \A x \in Numbers : InGap(h, j, x) => InGap(g, j, x) /\ x # k
    BY <1>0, <2>1 DEF InGap, Numbers, Gap
  <2> QED BY <1>3, <2>1, <2>2
<1>6. CASE h = [below EXCEPT ![j] = [below[j] EXCEPT !.start = k + 1]]
  <2>1. CASE i \in 1 .. GapCount /\ i # j
    <3>1. below[j] = g[j] /\ [g[j] EXCEPT !.start = k + 1] = upper
      BY <1>0, <2>1 DEF Gap, Gaps
    <3>2. h = [below EXCEPT ![j] = upper]
      BY <1>6, <3>1
    <3> HIDE DEF upper, lower, i
    <3>3. below \in Gaps /\ below[i] = lower
          /\ \A m \in 1 .. GapCount : m # i => below[m] = g[m]
      BY <1>1, <2>1 DEF Gaps
    <3> HIDE DEF below
    <3>4. h \in Gaps /\ h[i] = lower /\ h[j] = upper
          /\ \A m \in 1 .. GapCount : m \notin {i, j} => h[m] = g[m]
      BY <1>1, <2>1, <3>2, <3>3 DEF Gaps
    <3> QED BY <1>4, <2>1, <3>4
  <2>2. CASE i = j
    <3> DEFINE none == [start |-> k + 1, end |-> k]
    <3>1. below[j] = lower /\ [lower EXCEPT !.start = k + 1] = none
      BY <2>2 DEF Gaps
    <3>2. none \in Gap
      BY <1>0 DEF Gap
    <3>3. h = [below EXCEPT ![j] = none]
      BY <1>6, <3>1
    <3> HIDE DEF none, lower, i
    <3>4. h \in Gaps /\ h[j] = none
          /\ \A m \in 1 .. GapCount : m # j => h[m] = g[m]
      BY <2>2, <3>2, <3>3 DEF Gaps
    <3>5. \A x \in Numbers : ~InGap(h, j, x)
      BY <1>0, <3>4 DEF InGap, none, Numbers
    <3> QED BY <1>3, <3>4, <3>5
  <2>3. CASE i \notin 1 .. GapCount
    <3>1. below = g
      BY <2>3 DEF Gaps
    <3>2. [g[j] EXCEPT !.start = k + 1] = upper
      BY <1>0 DEF Gap
    <3>3. h = [g EXCEPT ![j] = upper]
      BY <1>6, <3>1, <3>2
    <3> QED BY <1>5, <3>3
  <2> QED BY <2>1, <2>2, <2>3
<1> QED BY <1>2, <1>5, <1>6

-----------------------------------------------------------------------------
(* Steps. *)

LEMMA Types ==
    ASSUME IInv
    PROVE  /\ number \in Nat /\ number <= MaxSent /\ taken \in [Numbers -> 0 .. 2]
           /\ window.newest \in Nat /\ window.newest <= MaxSent
           /\ window.gaps \in Gaps
           /\ window = [newest |-> window.newest, gaps |-> window.gaps]
           /\ MaxSent \in Nat /\ MaxLost \in Nat
BY DelayAssumption DEF IInv, WindowOK, Window, Numbers, Gaps

LEMMA InitInv == SeqInit => IInv
<1> SUFFICES ASSUME SeqInit PROVE IInv
  OBVIOUS
<1>1. number = 0 /\ window.newest = 0 /\ taken = [k \in Numbers |-> 0]
      /\ window.gaps = [k \in 1 .. GapCount |-> NoGap]
      /\ window = [newest |-> window.newest, gaps |-> window.gaps]
  BY DEF SeqInit, NewWindow, Numbers
<1>2. window \in Window(MaxSent)
  BY <1>1, NoGapType, DelayAssumption DEF Window, Gaps
<1>3. WindowOK
  BY <1>1, <1>2, DelayAssumption DEF WindowOK, Numbers
<1>4. NewestIsTaken /\ TakenOnce
  BY <1>1, DelayAssumption DEF NewestIsTaken, TakenOnce, Numbers
<1>5. GapsSound(window.gaps, window.newest, taken)
  BY <1>1, EmptySound
<1> QED BY <1>3, <1>4, <1>5 DEF IInv

LEMMA SendStep ==
    ASSUME IInv, Send
    PROVE  IInv'
<1>1. number' = number + 1 /\ number < MaxSent /\ window' = window /\ taken' = taken
  BY DEF Send
<1>2. PICK k \in Taken \cup {0} : k + MaxLost >= number
  BY DEF Send
<1>3. k \in Nat /\ k <= window.newest
  BY <1>2, Types DEF Taken, IInv, NewestIsTaken, Numbers
<1>4. NewestIsTaken'
  BY <1>1, <1>2, <1>3, Types DEF IInv, NewestIsTaken
<1>5. WindowOK'
  BY <1>1, Types DEF IInv, WindowOK
<1>6. TakenOnce' /\ GapsSound(window.gaps, window.newest, taken)'
  BY <1>1 DEF IInv, TakenOnce, GapsSound, GapsAreMissing, GapsAreDisjoint, InGap
<1> QED BY <1>4, <1>5, <1>6 DEF IInv

\* Packet k passes the check for the first time, and n and g are the newest
\* number and the gaps after it.
Takes(k, n, g) ==
    /\ taken[k] = 0 /\ taken' = Took(taken, k)
    /\ k <= number /\ number' = number
    /\ window' = [newest |-> n, gaps |-> g]
    /\ n = k \/ (n = window.newest /\ k <= n)
    /\ window.newest <= n
    /\ g \in Gaps /\ GapsSound(g, n, Took(taken, k))

LEMMA TakeStep ==
    ASSUME IInv, NEW k \in Numbers, NEW n, NEW g, Takes(k, n, g)
    PROVE  IInv'
<1>0. window'.newest = n /\ window'.gaps = g
  BY DEF Takes
<1>1. n <= number /\ n \in Nat
      /\ window'.newest = n /\ window'.gaps = g
  BY <1>0, Types DEF Takes, IInv, NewestIsTaken, Numbers
<1>2. /\ taken' \in [Numbers -> 0 .. 2] /\ taken'[k] = 1
      /\ \A x \in Numbers : x # k => taken'[x] = taken[x]
  BY Types DEF Takes, Took
<1>3. WindowOK'
  BY <1>1, <1>2, Types DEF Takes, WindowOK, Window, Numbers, Gaps
<1>4. NewestIsTaken'
  <2>1. ASSUME NEW x \in Numbers, taken'[x] > 0 PROVE x <= n
    <3>1. CASE x = k
      BY <1>1, <3>1 DEF Takes, Numbers
    <3>2. CASE x # k
      <4>1. taken[x] > 0
        BY <1>2, <2>1, <3>2
      <4>2. x <= window.newest
        BY <4>1 DEF IInv, NewestIsTaken
      <4> QED BY <1>1, <4>2, Types DEF Takes, Numbers
    <3> QED BY <3>1, <3>2
  <2>2. n # 0 => taken'[n] > 0
    BY <1>1, <1>2, Types DEF Takes, IInv, NewestIsTaken, Numbers
  <2>3. n <= number /\ number <= n + MaxLost + 1
    BY <1>1, Types DEF Takes, IInv, NewestIsTaken
  <2> QED BY <1>1, <2>1, <2>2, <2>3 DEF Takes, NewestIsTaken
<1>5. TakenOnce'
  BY <1>2, Types DEF Takes, IInv, TakenOnce, Numbers
<1>6. GapsSound(window.gaps, window.newest, taken)'
  BY <1>1 DEF Takes, GapsSound, GapsAreMissing, GapsAreDisjoint, InGap
<1> QED BY <1>3, <1>4, <1>5, <1>6 DEF IInv

\* The number is above the newest one: the numbers between become a gap, and
\* all gaps are forgotten when it is above by more than the threshold.
LEMMA AdvanceSound ==
    ASSUME IInv, NEW k \in Numbers, window.newest < k, k <= window.newest + MaxLost + 1,
           NEW u, u = [taken EXCEPT ![k] = 1]
    PROVE  /\ Advance(window, k).gaps \in Gaps /\ Advance(window, k).newest = k
           /\ Advance(window, k) = [newest |-> k, gaps |-> Advance(window, k).gaps]
           /\ GapsSound(Advance(window, k).gaps, k, u)
<1> DEFINE n == window.newest
           none == [j \in 1 .. GapCount |-> NoGap]
           kept == IF k > n + Threshold THEN none ELSE window.gaps
           gap == [start |-> (n + 1) % SeqSpan, end |-> k % SeqSpan]
           g == IF k > n + 1 THEN [kept EXCEPT ![InsertIndex(kept)] = gap] ELSE kept
<1>1. Advance(window, k) = [newest |-> k, gaps |-> g]
  BY DEF Advance
<1>2. n \in Nat /\ k \in Nat /\ n < k /\ k <= n + MaxLost + 1
      /\ taken \in [Numbers -> 0 .. 2]
      /\ \A x \in Numbers : taken[x] > 0 => x <= n
  BY Types DEF IInv, NewestIsTaken, Numbers
<1>3. kept \in Gaps /\ GapsSound(kept, n, taken)
  BY NoGapType, EmptySound, Types DEF IInv
<1>4. g \in Gaps /\ GapsSound(g, k, u)
  <2> HIDE DEF n, kept
  <2>1. CASE k > n + 1
    <3>1. gap \in Gap
          /\ \A x \in Numbers : gap.start <= x /\ x < gap.end /\ Alive(x, k)
                => n < x /\ x < k
      BY <1>2, <2>1, NewGap
    <3>2. g = [kept EXCEPT ![InsertIndex(kept)] = gap]
      BY <2>1
    <3> HIDE DEF gap, g
    <3> QED BY <1>2, <1>3, <3>1, <3>2, InsertSound
  <2>2. CASE ~(k > n + 1)
    <3>1. g = kept
      BY <2>2
    <3> HIDE DEF g
    <3> QED BY <1>2, <1>3, <3>1, OlderSound
  <2> QED BY <2>1, <2>2
<1> HIDE DEF g
<1> QED BY <1>1, <1>4

LEMMA ReceiveStep ==
    ASSUME IInv, NEW k \in Numbers, Receive(k)
    PROVE  IInv'
<1> DEFINE seq == k % SeqSpan
           n == window.newest
           hit == GapsOf(window, k)
<1>1. /\ k <= number /\ k + MaxDelay >= number /\ number' = number
      /\ window' = See(window, seq)
      /\ taken' = IF IsUnseen(window, seq)
                  THEN [taken EXCEPT ![k] = IF @ = 2 THEN 2 ELSE @ + 1] ELSE taken
  BY DEF Receive
<1>2. k \in Nat /\ n \in Nat /\ k <= n + MaxLost + 1 /\ Alive(k, n)
  <2>1. n \in Nat /\ n <= number /\ number <= n + MaxLost + 1 /\ MaxLost \in Nat
        /\ number \in Nat /\ k \in Nat
    BY Types DEF IInv, NewestIsTaken, Numbers
  <2>2. MaxDelay \in Nat /\ Threshold \in Nat /\ MaxDelay <= Threshold
    BY LsrSeqAssumption, DelayAssumption
  <2> HIDE DEF n
  <2> QED BY <1>1, <2>1, <2>2 DEF Alive
<1>3. Guess(n, seq) = k
  BY <1>2, GuessIsRight DEF Alive
<1> HIDE DEF seq
<1>4. taken[k] = 0 /\ IsUnseen(window, seq) => taken' = Took(taken, k)
  BY <1>1, Types DEF Took
<1>5. CASE k > n
  <2>1. window' = Advance(window, k) /\ IsUnseen(window, seq)
    BY <1>1, <1>3, <1>5 DEF See, IsUnseen
  <2>2. taken[k] = 0
    BY <1>2, <1>5, Types DEF IInv, NewestIsTaken, Numbers
  <2>3. taken' = Took(taken, k)
    BY <1>4, <2>1, <2>2
  <2> DEFINE g == Advance(window, k).gaps
  <2>4. g \in Gaps /\ Advance(window, k) = [newest |-> k, gaps |-> g]
        /\ GapsSound(g, k, Took(taken, k))
    BY <1>2, <1>5, AdvanceSound DEF Took
  <2> HIDE DEF g
  <2>5. window' = [newest |-> k, gaps |-> g]
    BY <2>1, <2>4
  <2>6. Takes(k, k, g)
    BY <1>1, <1>2, <1>5, <2>2, <2>3, <2>4, <2>5 DEF Takes
  <2> QED BY <2>6, TakeStep
<1>6. CASE k <= n /\ hit # {}
  <2>1. PICK j \in 1 .. GapCount : j \in hit /\ InGap(window.gaps, j, k)
    BY <1>6 DEF GapsOf, InGap
  <2>2. hit = {j}
    BY <1>2, <2>1 DEF GapsOf, InGap, IInv, GapsSound, GapsAreDisjoint
  <2>3. (CHOOSE i \in hit : \A m \in hit : i <= m) = j
    BY <2>2
  <2>4. taken[k] = 0
    BY <1>2, <1>6, <2>1 DEF IInv, GapsSound, GapsAreMissing
  <2> DEFINE g == Split(window.gaps, j, k)
  <2>5. IsUnseen(window, seq)
    BY <1>3, <1>6 DEF IsUnseen
  <2>6. See(window, seq) = [window EXCEPT !.gaps = g]
    <3>1. ~(k > n)
      BY <1>2, <1>6
    <3>2. See(window, seq) =
             [window EXCEPT !.gaps =
                 Split(@, CHOOSE i \in hit : \A m \in hit : i <= m, k)]
      BY <1>3, <1>6, <3>1 DEF See
    <3> QED BY <2>3, <3>2
  <2>7. taken' = Took(taken, k)
    BY <1>4, <2>4, <2>5
  <2>8. g = Split(window.gaps, j, k)
    OBVIOUS
  <2> HIDE DEF g
  <2>9. g \in Gaps /\ GapsSound(g, n, Took(taken, k))
    <3>1. GapsSound(window.gaps, n, taken) /\ window.gaps \in Gaps
          /\ taken \in [Numbers -> 0 .. 2]
      BY Types DEF IInv
    <3> HIDE DEF n
    <3> QED BY <1>2, <2>1, <2>8, <3>1, SplitSound
  <2>10. window' = [newest |-> n, gaps |-> g]
    BY <1>1, <2>6, Types
  <2>11. Takes(k, n, g)
    BY <1>1, <1>2, <1>6, <2>4, <2>7, <2>9, <2>10 DEF Takes
  <2> QED BY <2>11, TakeStep
<1>7. CASE k <= n /\ hit = {}
  <2>1. window' = window /\ ~IsUnseen(window, seq)
    BY <1>1, <1>2, <1>3, <1>7 DEF See, IsUnseen
  <2>2. taken' = taken /\ number' = number
    BY <1>1, <2>1
  <2> QED BY <2>1, <2>2 DEF IInv, WindowOK, NewestIsTaken, TakenOnce, GapsSound,
                         GapsAreMissing, GapsAreDisjoint, InGap
<1> QED BY <1>2, <1>5, <1>6, <1>7

\* The duplicate check keeps its invariant whatever the sender sends and the
\* network loses, repeats and delays.
THEOREM Invariance == SeqSpec => []IInv
<1>1. IInv /\ [SeqNext]_seqVars => IInv'
  <2> SUFFICES ASSUME IInv, [SeqNext]_seqVars PROVE IInv'
    OBVIOUS
  <2>1. CASE Send
    BY <2>1, SendStep
  <2>2. ASSUME NEW k \in Numbers, Receive(k) PROVE IInv'
    BY <2>2, ReceiveStep
  <2>3. CASE UNCHANGED seqVars
    BY <2>3 DEF seqVars, IInv, WindowOK, NewestIsTaken, TakenOnce, GapsSound,
                GapsAreMissing, GapsAreDisjoint, InGap
  <2> QED BY <2>1, <2>2, <2>3 DEF SeqNext, Numbers
<1> QED BY InitInv, <1>1, PTL DEF SeqSpec

\* _lsr_node_check_seq_nr never takes a packet twice: for every width of the
\* numbers, every threshold below half of it and any number of gaps.
THEOREM NeverTakenTwice == SeqSpec => []TakenOnce
<1>1. IInv => TakenOnce
  BY DEF IInv
<1> QED BY Invariance, <1>1, PTL

\* The newest number that a node keeps is that of the newest packet it took,
\* also after the numbers have wrapped.
THEOREM NewestIsNewest == SeqSpec => []NewestFollows
<1>1. ASSUME IInv PROVE NewestFollows
  BY <1>1, Types DEF IInv, NewestIsTaken, NewestFollows, Taken, Numbers
<1> QED BY Invariance, <1>1, PTL
-----------------------------------------------------------------------------

(* The routes. *)

\* Every set of numbers has a least one: how the inductions below are done.
LEMMA LeastNat ==
    ASSUME NEW T, T \subseteq Nat, T # {}
    PROVE  \E x \in T : \A y \in T : x <= y
<1> DEFINE R == {ss \in Nat \X Nat : ss[1] < ss[2]}
<1>1. IsWellFoundedOn(R, Nat)
  BY NatLessThanWellFounded DEF OpToRel
<1>2. \E x \in T : \A y \in T : <<y, x>> \notin R
  <2> HIDE DEF R
  <2> QED BY <1>1, WFMin
<1>3. PICK x \in T : \A y \in T : <<y, x>> \notin R
  BY <1>2
<1>4. ASSUME NEW y \in T PROVE x <= y
  <2>1. <<y, x>> \notin R /\ x \in Nat /\ y \in Nat
    BY <1>3
  <2> QED BY <2>1
<1> QED BY <1>4

LEMMA LeastOf ==
    ASSUME NEW C, NEW m \in [C -> Nat], C # {}
    PROVE  \E x \in C : \A y \in C : m[x] <= m[y]
<1> DEFINE T == {m[e] : e \in C}
<1>1. T \subseteq Nat /\ T # {}
  OBVIOUS
<1>2. \E h \in T : \A g \in T : h <= g
  <2> HIDE DEF T
  <2> QED BY <1>1, LeastNat
<1>3. PICK h \in T : \A g \in T : h <= g
  BY <1>2
<1>4. PICK x \in C : m[x] = h
  OBVIOUS
<1>5. \A y \in C : m[y] \in T
  OBVIOUS
<1> HIDE DEF T
<1> QED BY <1>3, <1>4, <1>5

-----------------------------------------------------------------------------
(* The tables. *)

\* What Dijkstra rests on: every node in the neighbour table and at an edge is
\* in node_set, once.
TablesOK(n) ==
    /\ known[n] \in Seq(Node) /\ IsInjective(known[n])
    /\ \A m \in Neighbours(n) : Contains(known[n], m)
    /\ edges[n] \subseteq Node \X Node
    /\ \A l, m \in Node : <<l, m>> \in edges[n] => /\ Contains(known[n], l)
                                                   /\ Contains(known[n], m)

Packet == [orig : Node, from : Node, seq : Nat, hops : {1, 2},
           hello : BOOLEAN, list : SUBSET Node]

Job == {Idle} \cup [pc : {"neighbor", "node", "edges"}, tc : Packet, list : SUBSET Node]

MeshOK ==
    /\ known = [n \in Node |-> known[n]]
    /\ edges = [n \in Node |-> edges[n]]
    /\ nt \in [Node -> [Node -> {"none", "fresh", "stale"}]]
    /\ thread \in [Node -> Job]
    /\ air \subseteq Packet /\ sent \in [Node -> Nat]
    /\ \A n \in Node : TablesOK(n)

LEMMA CreateKeeps ==
    ASSUME NEW ks \in Seq(Node), IsInjective(ks), NEW m \in Node
    PROVE  /\ Create(ks, m) \in Seq(Node) /\ IsInjective(Create(ks, m))
           /\ Contains(Create(ks, m), m)
           /\ \A l \in Node : Contains(ks, l) => Contains(Create(ks, m), l)
<1>1. CASE Contains(ks, m)
  BY <1>1 DEF Create
<1>2. CASE ~Contains(ks, m)
  <2> DEFINE js == Append(ks, m)
  <2>1. /\ js \in Seq(Node) /\ Len(js) = Len(ks) + 1 /\ Len(ks) \in Nat
        /\ js[Len(ks) + 1] = m
        /\ \A i \in 1 .. Len(ks) : js[i] = ks[i]
        /\ DOMAIN js = 1 .. Len(ks) + 1 /\ DOMAIN ks = 1 .. Len(ks)
    OBVIOUS
  <2> HIDE DEF js
  <2>2. \A i \in 1 .. Len(ks) : ks[i] # m
    BY <1>2 DEF Contains
  <2>3. IsInjective(js)
    <3> SUFFICES ASSUME NEW i \in 1 .. Len(ks) + 1, NEW j \in 1 .. Len(ks) + 1,
                        js[i] = js[j]
                 PROVE  i = j
      BY <2>1 DEF IsInjective
    <3>1. CASE i \in 1 .. Len(ks) /\ j \in 1 .. Len(ks)
      BY <2>1, <3>1 DEF IsInjective
    <3>2. CASE i = Len(ks) + 1 \/ j = Len(ks) + 1
      BY <2>1, <2>2, <3>2
    <3> QED BY <2>1, <3>1, <3>2
  <2>4. Contains(js, m) /\ \A l \in Node : Contains(ks, l) => Contains(js, l)
    BY <2>1 DEF Contains
  <2> QED BY <1>2, <2>1, <2>3, <2>4 DEF Create, js
<1> QED BY <1>1, <1>2

LEMMA InitMesh == Init => MeshOK
<1> SUFFICES ASSUME Init PROVE MeshOK
  OBVIOUS
<1> DEFINE Ages == [Node -> [Node -> {"none", "fresh", "stale"}]]
<1>1. PICK order \in Orders : Start(order, ToSet(order))
  BY DEF Init
<1> DEFINE old == ToSet(order)
<1>2. order \in Seq(Node) /\ IsInjective(order)
  BY LsrAssumption
<1>3. \A m \in Node : m \in old <=> Contains(order, m)
  BY <1>2 DEF ToSet, Contains
<1>4. old \subseteq Node
  BY <1>2 DEF ToSet
<1> HIDE DEF old
<1>5. Start(order, old)
  BY <1>1 DEF old
<1>6. nt = [n \in Node |-> [m \in Node |->
              IF OldEdge(old, n, m) THEN "fresh" ELSE "none"]]
  BY <1>5 DEF Start
<1>7. nt \in Ages
  BY <1>6
<1>8. ASSUME NEW n \in Node PROVE TablesOK(n)
  <2>1. \A m \in Neighbours(n) : m \in Node /\ n \in old /\ m \in old
    BY <1>6 DEF Neighbours, OldEdge
  <2>2. edges[n] = {l \in Node \X Node : OldEdge(old, l[1], l[2]) /\ n \in old \ {l[1]}}
    BY <1>5 DEF Start
  <2>3. edges[n] \subseteq Node \X Node
    BY <2>2
  <2>4. \A l, m \in Node : <<l, m>> \in edges[n] => n \in old /\ l \in old /\ m \in old
    BY <2>2 DEF OldEdge
  <2>5. known[n] = IF n \in old THEN order ELSE <<>>
    BY <1>5 DEF Start
  <2>6. <<>> \in Seq(Node) /\ IsInjective(<<>>)
    BY DEF IsInjective
  <2> QED BY <1>2, <1>3, <2>1, <2>3, <2>4, <2>5, <2>6 DEF TablesOK
<1>9. air \subseteq Packet
  <2>1. ASSUME NEW m \in old, NEW n \in old PROVE LastTc(old, m, n) \in Packet
    BY <1>4 DEF LastTc, Packet
  <2>2. air = {LastTc(old, m, n) : m, n \in old}
    BY <1>5 DEF Start
  <2> QED BY <2>1, <2>2
<1>10. /\ known = [n \in Node |-> known[n]] /\ edges = [n \in Node |-> edges[n]]
       /\ thread \in [Node -> Job] /\ sent \in [Node -> Nat]
  BY <1>5 DEF Start, Job
<1> QED BY <1>7, <1>8, <1>9, <1>10 DEF MeshOK

LEMMA JobOf ==
    ASSUME MeshOK, NEW n \in Node, thread[n].pc # "idle"
    PROVE  /\ thread[n] \in [pc : {"neighbor", "node", "edges"}, tc : Packet,
                             list : SUBSET Node]
           /\ thread[n].tc.orig \in Node /\ thread[n].list \subseteq Node
<1>1. thread[n] \in Job /\ thread[n] # Idle
  BY DEF MeshOK, Idle
<1>2. thread[n].tc \in Packet
  BY <1>1 DEF Job
<1> QED BY <1>1, <1>2 DEF Job, Packet

\* A step changes the tables of one node.
LEMMA MeshStep ==
    ASSUME MeshOK, NEW n \in Node,
           known' = [known EXCEPT ![n] = known'[n]],
           edges' = [edges EXCEPT ![n] = edges'[n]],
           thread' \in [Node -> Job],
           nt' \in [Node -> [Node -> {"none", "fresh", "stale"}]],
           \A m \in Node : m # n => nt'[m] = nt[m],
           air' = air, sent' = sent, TablesOK(n)'
    PROVE  MeshOK'
<1>1. ASSUME NEW m \in Node PROVE TablesOK(m)'
  <2>1. CASE m = n
    BY <2>1
  <2>2. CASE m # n
    <3>1. /\ known'[m] = known[m] /\ edges'[m] = edges[m] /\ nt'[m] = nt[m]
      BY <2>2 DEF MeshOK
    <3>2. TablesOK(m)
      BY DEF MeshOK
    <3> QED BY <3>1, <3>2 DEF TablesOK, Neighbours
  <2> QED BY <2>1, <2>2
<1>2. /\ known' = [m \in Node |-> known'[m]]
      /\ edges' = [m \in Node |-> edges'[m]]
  BY DEF MeshOK
<1> QED BY <1>1, <1>2 DEF MeshOK

\* A step that leaves the tables alone, up to the lifetimes.
LEMMA MeshKept ==
    ASSUME MeshOK, UNCHANGED <<known, edges>>, thread' \in [Node -> Job],
           air' \subseteq Packet, sent' \in [Node -> Nat],
           nt' \in [Node -> [Node -> {"none", "fresh", "stale"}]],
           \A n \in Node : Neighbours(n)' = Neighbours(n)
    PROVE  MeshOK'
BY DEF MeshOK, TablesOK

LEMMA NextMesh == MeshOK /\ [Next]_vars => MeshOK'
<1> SUFFICES ASSUME MeshOK, [Next]_vars PROVE MeshOK'
  OBVIOUS
<1> DEFINE Ages == [Node -> [Node -> {"none", "fresh", "stale"}]]
<1>0. /\ nt \in Ages /\ thread \in [Node -> Job] /\ air \subseteq Packet
      /\ sent \in [Node -> Nat]
  BY DEF MeshOK
<1>1. ASSUME NEW n \in Node, NEW m \in Node, LifetimeEnds(n, m) PROVE MeshOK'
  <2>1. nt[n][m] = "fresh" /\ nt' = [nt EXCEPT ![n][m] = "stale"]
        /\ UNCHANGED <<known, edges, thread, air, sent>>
    BY <1>1 DEF LifetimeEnds
  <2>2. nt' \in Ages
    BY <2>1, <1>0
  <2>3. \A l, k \in Node : nt'[l][k] # "none" <=> nt[l][k] # "none"
    BY <2>1, <1>0
  <2>4. \A l \in Node : Neighbours(l)' = Neighbours(l)
    BY <2>3 DEF Neighbours
  <2> QED BY <1>0, <2>1, <2>2, <2>4, MeshKept
<1>2. ASSUME NEW n \in Node, NEW hello \in BOOLEAN, SendTc(n, hello) PROVE MeshOK'
  <2> DEFINE tc == [orig |-> n, from |-> n, seq |-> sent'[n], hops |-> 1,
                    hello |-> hello, list |-> {m \in Node : nt[n][m] = "fresh"}]
  <2>1. /\ UNCHANGED <<known, edges, nt, thread>>
        /\ sent' = [sent EXCEPT ![n] = @ + 1] /\ air' = air \cup {tc}
    BY <1>2 DEF SendTc
  <2>2. sent' \in [Node -> Nat]
    BY <1>0, <2>1
  <2>3. sent'[n] \in Nat
    BY <2>2
  <2>4. tc \in Packet
    BY <2>3 DEF Packet
  <2> HIDE DEF tc
  <2>5. air' \subseteq Packet
    BY <1>0, <2>1, <2>4
  <2>6. \A l \in Node : Neighbours(l)' = Neighbours(l)
    BY <2>1 DEF Neighbours
  <2> QED BY <1>0, <2>1, <2>2, <2>5, <2>6, MeshKept
<1>3. ASSUME NEW n \in Node, NEW tc \in air, ReceiveTc(n, tc) PROVE MeshOK'
  <2> DEFINE job == [pc |-> IF tc.hops = 1 THEN "neighbor" ELSE "node",
                     tc |-> tc, list |-> tc.list]
  <2>1. UNCHANGED <<known, edges, nt, air, sent>>
        /\ thread' = [thread EXCEPT ![n] = job]
    BY <1>3 DEF ReceiveTc
  <2>2. tc \in Packet /\ tc.list \subseteq Node
    BY <1>0 DEF Packet
  <2>3. job \in Job
    BY <2>2 DEF Job
  <2> HIDE DEF job
  <2>4. thread' \in [Node -> Job]
    BY <1>0, <2>1, <2>3
  <2>5. \A l \in Node : Neighbours(l)' = Neighbours(l)
    BY <2>1 DEF Neighbours
  <2> QED BY <1>0, <2>1, <2>4, <2>5, MeshKept
<1>4. ASSUME NEW n \in Node, UpdateNeighbor(n) \/ UpdateNode(n) PROVE MeshOK'
  <2> DEFINE m == thread[n].tc.orig
             next == IF UpdateNode(n) THEN "edges" ELSE "node"
             job == [thread[n] EXCEPT !.pc = next]
  <2>1. m \in Node /\ job \in Job
    <3>1. thread[n].pc # "idle"
      BY <1>4 DEF UpdateNeighbor, UpdateNode
    <3>2. thread[n] \in [pc : {"neighbor", "node", "edges"}, tc : Packet,
                         list : SUBSET Node]
      BY <3>1, JobOf
    <3>3. next \in {"neighbor", "node", "edges"}
      OBVIOUS
    <3> HIDE DEF next
    <3>4. job \in Job
      BY <3>2, <3>3 DEF Job
    <3> QED BY <3>1, <3>4, JobOf
  <2>2. TablesOK(n)
    BY DEF MeshOK
  <2>3. known' = [known EXCEPT ![n] = Create(known[n], m)]
        /\ thread' = [thread EXCEPT ![n] = job] /\ UNCHANGED <<edges, air, sent>>
        /\ (nt' = nt \/ nt' = [nt EXCEPT ![n][m] = "fresh"])
    <3>1. CASE UpdateNode(n)
      <4>1. next = "edges"
        BY <3>1
      <4> QED BY <3>1, <4>1 DEF UpdateNode
    <3>2. CASE ~UpdateNode(n)
      <4>1. UpdateNeighbor(n) /\ next = "node"
        BY <1>4, <3>2
      <4> QED BY <4>1 DEF UpdateNeighbor
    <3> QED BY <3>1, <3>2
  <2> HIDE DEF m, job, next
  <2>4. known'[n] = Create(known[n], m) /\ known' = [known EXCEPT ![n] = known'[n]]
    BY <2>3 DEF MeshOK
  <2>5. /\ nt' \in Ages /\ \A l \in Node : l # n => nt'[l] = nt[l]
        /\ \A l \in Node : nt'[n][l] # "none" => nt[n][l] # "none" \/ l = m
    BY <1>0, <2>1, <2>3
  <2>6. Neighbours(n)' \subseteq Neighbours(n) \cup {m}
    BY <2>5 DEF Neighbours
  <2>7. known[n] \in Seq(Node) /\ IsInjective(known[n])
    BY <2>2 DEF TablesOK
  <2>8. /\ Create(known[n], m) \in Seq(Node) /\ IsInjective(Create(known[n], m))
        /\ Contains(Create(known[n], m), m)
        /\ \A l \in Node : Contains(known[n], l) => Contains(Create(known[n], m), l)
    BY <2>1, <2>7, CreateKeeps
  <2>9. \A l \in Neighbours(n) : l \in Node
    BY DEF Neighbours
  <2>10. TablesOK(n)'
    BY <2>1, <2>2, <2>3, <2>4, <2>6, <2>8, <2>9 DEF TablesOK
  <2>11. thread' \in [Node -> Job]
    BY <1>0, <2>1, <2>3
  <2>12. edges' = [edges EXCEPT ![n] = edges'[n]]
    BY <2>3 DEF MeshOK
  <2> QED BY <2>3, <2>4, <2>5, <2>10, <2>11, <2>12, MeshStep
<1>5. ASSUME NEW n \in Node, NEW m \in Node, UpdateEdge(n, m) PROVE MeshOK'
  <2> DEFINE o == thread[n].tc.orig
             rest == thread[n].list \ {m}
             job == [thread[n] EXCEPT !.list = rest]
             ks == Create(Create(known[n], o), m)
  <2>1. o \in Node /\ job \in Job
    <3>1. thread[n].pc # "idle"
      BY <1>5 DEF UpdateEdge
    <3>2. thread[n] \in [pc : {"neighbor", "node", "edges"}, tc : Packet,
                         list : SUBSET Node]
      BY <3>1, JobOf
    <3>3. rest \in SUBSET Node
      BY <3>1, JobOf
    <3> HIDE DEF rest
    <3>4. job \in Job
      BY <3>2, <3>3 DEF Job
    <3> QED BY <3>1, <3>4, JobOf
  <2>2. TablesOK(n)
    BY DEF MeshOK
  <2>3. known' = [known EXCEPT ![n] = ks]
        /\ edges' = [edges EXCEPT ![n] = edges[n] \cup {<<o, m>>}]
        /\ thread' = [thread EXCEPT ![n] = job] /\ UNCHANGED <<nt, air, sent>>
    BY <1>5 DEF UpdateEdge
  <2>4. known[n] \in Seq(Node) /\ IsInjective(known[n])
    BY <2>2 DEF TablesOK
  <2>5. /\ Create(known[n], o) \in Seq(Node) /\ IsInjective(Create(known[n], o))
        /\ Contains(Create(known[n], o), o)
        /\ \A l \in Node : Contains(known[n], l) => Contains(Create(known[n], o), l)
    BY <2>1, <2>4, CreateKeeps
  <2>6. /\ ks \in Seq(Node) /\ IsInjective(ks) /\ Contains(ks, m)
        /\ \A l \in Node : Contains(Create(known[n], o), l) => Contains(ks, l)
    BY <2>5, CreateKeeps
  <2> HIDE DEF o, job, ks, rest
  <2>7. /\ known'[n] = ks /\ known' = [known EXCEPT ![n] = known'[n]]
        /\ edges'[n] = edges[n] \cup {<<o, m>>}
        /\ edges' = [edges EXCEPT ![n] = edges'[n]]
    BY <2>3 DEF MeshOK
  <2>8. \A l \in Node : Contains(known[n], l) \/ l = o \/ l = m => Contains(ks, l)
    BY <2>1, <2>5, <2>6
  <2>9. Neighbours(n)' = Neighbours(n) /\ Neighbours(n) \subseteq Node
    BY <2>3 DEF Neighbours
  <2>10. \A m2 \in Neighbours(n)' : Contains(known'[n], m2)
    BY <2>2, <2>7, <2>8, <2>9 DEF TablesOK
  <2>11. edges'[n] \subseteq Node \X Node
    BY <2>1, <2>2, <2>7 DEF TablesOK
  <2>12. \A l, k \in Node : <<l, k>> \in edges'[n] =>
            Contains(known'[n], l) /\ Contains(known'[n], k)
    BY <2>1, <2>2, <2>7, <2>8 DEF TablesOK
  <2>13. TablesOK(n)'
    BY <2>6, <2>7, <2>10, <2>11, <2>12 DEF TablesOK
  <2>14. thread' \in [Node -> Job]
    BY <1>0, <2>1, <2>3
  <2> QED BY <1>0, <2>3, <2>7, <2>13, <2>14, MeshStep
<1>6. ASSUME NEW n \in Node, Resend(n) PROVE MeshOK'
  <2> DEFINE tc == [thread[n].tc EXCEPT !.from = n, !.hops = 2]
  <2>1. UNCHANGED <<known, edges, nt, sent>> /\ thread' = [thread EXCEPT ![n] = Idle]
        /\ air' \subseteq air \cup {tc}
    BY <1>6 DEF Resend
  <2>2. thread[n].tc \in Packet
    <3>1. thread[n].pc # "idle"
      BY <1>6 DEF Resend
    <3> QED BY <3>1, JobOf
  <2>3. tc \in Packet
    BY <2>2 DEF Packet
  <2> HIDE DEF tc
  <2>4. air' \subseteq Packet
    BY <1>0, <2>1, <2>3
  <2>5. thread' \in [Node -> Job]
    BY <1>0, <2>1 DEF Job
  <2>6. \A l \in Node : Neighbours(l)' = Neighbours(l)
    BY <2>1 DEF Neighbours
  <2> QED BY <1>0, <2>1, <2>4, <2>5, <2>6, MeshKept
<1>7. ASSUME UNCHANGED <<known, edges, nt, thread, air, sent>> PROVE MeshOK'
  <2>1. \A l \in Node : Neighbours(l)' = Neighbours(l)
    BY <1>7 DEF Neighbours
  <2> QED BY <1>0, <1>7, <2>1, MeshKept
<1>8. ASSUME NEW n \in Node, Regenerate(n) PROVE MeshOK'
  BY <1>7, <1>8 DEF Regenerate
<1>9. CASE UNCHANGED vars
  BY <1>7, <1>9 DEF vars
<1> QED BY <1>1, <1>2, <1>3, <1>4, <1>5, <1>6, <1>8, <1>9 DEF Next
-----------------------------------------------------------------------------
(* The loop of lsr_tc_dijkstra. *)

LEMMA Sizes ==
    /\ Cardinality(Node) \in Nat /\ IsFiniteSet(Node)
    /\ Infinite \in Nat /\ Infinite > Cardinality(Node) + 1
BY FS_CardinalityType, LsrAssumption

\* f is the recursive function of Dijkstra.
Rounds(f, n, last) ==
    f = [k \in 0 .. last |-> IF k = 0 THEN [r |-> Direct(n), queue |-> Queue(n)]
                             ELSE Round(n, f[k - 1])]

LEMMA RoundsExist == ASSUME NEW n PROVE \A last \in Nat : \E f : Rounds(f, n, last)
<1> DEFINE first == [r |-> Direct(n), queue |-> Queue(n)]
           Bad == {last \in Nat : ~\E f : Rounds(f, n, last)}
<1>1. SUFFICES ASSUME Bad # {} PROVE FALSE
  OBVIOUS
<1>2. PICK last \in Bad : \A m \in Bad : last <= m
  <2>1. Bad \subseteq Nat
    OBVIOUS
  <2> HIDE DEF Bad
  <2> QED BY <1>1, <2>1, LeastNat
<1> HIDE DEF first
<1>3. CASE last = 0
  <2> DEFINE f == [k \in 0 .. 0 |-> first]
  <2>1. f = [k \in 0 .. 0 |-> IF k = 0 THEN first ELSE Round(n, f[k - 1])]
    OBVIOUS
  <2> QED BY <1>2, <1>3, <2>1 DEF Rounds, first
<1>4. CASE last # 0
  <2>1. last - 1 \in Nat /\ last - 1 \notin Bad
    BY <1>2, <1>4
  <2>2. PICK f : Rounds(f, n, last - 1)
    BY <2>1
  <2> DEFINE g == [k \in 0 .. last |-> IF k = last THEN Round(n, f[last - 1]) ELSE f[k]]
  <2>3. ASSUME NEW k \in 0 .. last
        PROVE  g[k] = IF k = 0 THEN first ELSE Round(n, g[k - 1])
    <3>1. CASE k = last
      <4>1. g[k] = Round(n, f[last - 1]) /\ g[k - 1] = f[last - 1] /\ k # 0
        BY <1>2, <1>4, <3>1
      <4> HIDE DEF g
      <4> QED BY <3>1, <4>1
    <3>2. CASE k # last
      <4>1. k \in 0 .. last - 1 /\ last \in Nat
        BY <1>2, <3>2
      <4>2. f[k] = IF k = 0 THEN first ELSE Round(n, f[k - 1])
        BY <2>2, <4>1 DEF Rounds, first
      <4>3. g[k] = f[k] /\ (k # 0 => g[k - 1] = f[k - 1])
        BY <3>2, <4>1
      <4> HIDE DEF g
      <4> QED BY <4>2, <4>3
    <3> QED BY <3>1, <3>2
  <2>4. g = [k \in 0 .. last |-> g[k]]
    OBVIOUS
  <2> HIDE DEF g
  <2>5. Rounds(g, n, last)
    BY <2>3, <2>4 DEF Rounds, first
  <2> QED BY <1>2, <2>5
<1> QED BY <1>3, <1>4

\* A node occurs in the queue once.
LEMMA QueueSize ==
    ASSUME NEW n, TablesOK(n)
    PROVE  /\ IsFiniteSet(Queue(n)) /\ Cardinality(Queue(n)) \in Nat
           /\ Cardinality(Queue(n)) <= Cardinality(Node)
<1>1. known[n] \in Seq(Node) /\ IsInjective(known[n])
  BY DEF TablesOK
<1> DEFINE f == [e \in Queue(n) |-> e.node]
<1>2. f \in [Queue(n) -> Node]
  <2>1. ASSUME NEW e \in Queue(n) PROVE e.node \in Node
    <3>1. PICK k \in DOMAIN known[n] : e = [pos |-> k, node |-> known[n][k]]
      BY DEF Queue
    <3> QED BY <1>1, <3>1
  <2> QED BY <2>1
<1>3. ASSUME NEW e \in Queue(n), NEW g \in Queue(n), f[e] = f[g] PROVE e = g
  <2>1. PICK k \in DOMAIN known[n] : e = [pos |-> k, node |-> known[n][k]]
    BY DEF Queue
  <2>2. PICK l \in DOMAIN known[n] : g = [pos |-> l, node |-> known[n][l]]
    BY DEF Queue
  <2>3. known[n][k] = known[n][l]
    BY <1>3, <2>1, <2>2
  <2>4. k = l
    BY <1>1, <2>3 DEF IsInjective
  <2> QED BY <2>1, <2>2, <2>4
<1>4. IsInjective(f)
  <2>1. DOMAIN f = Queue(n)
    OBVIOUS
  <2> HIDE DEF f
  <2> QED BY <1>3, <2>1 DEF IsInjective
<1>5. f \in Injection(Queue(n), Node)
  <2> HIDE DEF f
  <2> QED BY <1>2, <1>4 DEF Injection
<1>6. IsFiniteSet(Queue(n)) /\ Cardinality(Queue(n)) <= Cardinality(Node)
  BY <1>5, Sizes, FS_Injection
<1> QED BY <1>6, FS_CardinalityType

LEMMA DijkstraRounds ==
    ASSUME NEW n, TablesOK(n)
    PROVE  \E f : /\ f[0] = [r |-> Direct(n), queue |-> Queue(n)]
                  /\ \A k \in 1 .. Cardinality(Queue(n)) : f[k] = Round(n, f[k - 1])
                  /\ Dijkstra(n) = f[Cardinality(Queue(n))].r
<1> DEFINE state[k \in 0 .. Cardinality(Queue(n))] ==
              IF k = 0 THEN [r |-> Direct(n), queue |-> Queue(n)]
              ELSE Round(n, state[k - 1])
<1>1. Dijkstra(n) = state[Cardinality(Queue(n))].r
  BY DEF Dijkstra
<1>2. Cardinality(Queue(n)) \in Nat
  BY QueueSize
<1>3. Rounds(state, n, Cardinality(Queue(n)))
  <2>1. \E f : Rounds(f, n, Cardinality(Queue(n)))
    BY RoundsExist, <1>2
  <2> QED BY <2>1 DEF Rounds
<1> HIDE DEF state
<1>4. /\ state[0] = [r |-> Direct(n), queue |-> Queue(n)]
      /\ \A k \in 1 .. Cardinality(Queue(n)) : state[k] = Round(n, state[k - 1])
  BY <1>2, <1>3 DEF Rounds
<1> QED BY <1>1, <1>4

\* d is the recursive function near of Distance.
Levels(d, n, last) ==
    d = [k \in 1 .. last |-> IF k = 1 THEN Neighbours(n) ELSE Further(n, d[k - 1])]

LEMMA LevelsExist ==
    ASSUME NEW n PROVE \A last \in Nat \ {0} : \E d : Levels(d, n, last)
<1> DEFINE Bad == {last \in Nat \ {0} : ~\E d : Levels(d, n, last)}
<1>1. SUFFICES ASSUME Bad # {} PROVE FALSE
  OBVIOUS
<1>2. PICK last \in Bad : \A m \in Bad : last <= m
  <2>1. Bad \subseteq Nat
    OBVIOUS
  <2> HIDE DEF Bad
  <2> QED BY <1>1, <2>1, LeastNat
<1>3. CASE last = 1
  <2> DEFINE d == [k \in 1 .. 1 |-> Neighbours(n)]
  <2>1. d = [k \in 1 .. 1 |-> IF k = 1 THEN Neighbours(n) ELSE Further(n, d[k - 1])]
    OBVIOUS
  <2> QED BY <1>2, <1>3, <2>1 DEF Levels
<1>4. CASE last # 1
  <2>1. last - 1 \in Nat \ {0} /\ last - 1 \notin Bad
    BY <1>2, <1>4
  <2>2. PICK d : Levels(d, n, last - 1)
    BY <2>1
  <2> DEFINE g == [k \in 1 .. last |-> IF k = last THEN Further(n, d[last - 1]) ELSE d[k]]
  <2>3. ASSUME NEW k \in 1 .. last
        PROVE  g[k] = IF k = 1 THEN Neighbours(n) ELSE Further(n, g[k - 1])
    <3>1. CASE k = last
      <4>1. g[k] = Further(n, d[last - 1]) /\ g[k - 1] = d[last - 1] /\ k # 1
        BY <1>2, <1>4, <2>1, <3>1
      <4> HIDE DEF g
      <4> QED BY <3>1, <4>1
    <3>2. CASE k # last
      <4>1. k \in 1 .. last - 1 /\ last \in Nat
        BY <1>2, <3>2
      <4>2. d[k] = IF k = 1 THEN Neighbours(n) ELSE Further(n, d[k - 1])
        BY <2>2, <4>1 DEF Levels
      <4>3. g[k] = d[k] /\ (k # 1 => g[k - 1] = d[k - 1])
        BY <3>2, <4>1
      <4> HIDE DEF g
      <4> QED BY <4>2, <4>3
    <3> QED BY <3>1, <3>2
  <2>4. g = [k \in 1 .. last |-> g[k]]
    OBVIOUS
  <2> HIDE DEF g
  <2>5. Levels(g, n, last)
    BY <2>3, <2>4 DEF Levels
  <2> QED BY <1>2, <2>5
<1> QED BY <1>3, <1>4

\* No shortest path is as long as this.
Horizon == Cardinality(Node) + 1

\* d[k] are the nodes that at most k hops lead to; Distance is the least k.
Measures(d, n) ==
    /\ d[1] = Neighbours(n)
    /\ \A k \in 2 .. Horizon : d[k] = Further(n, d[k - 1])
    /\ \A m \in Node :
          IF m \in d[Horizon]
          THEN /\ Distance(n)[m] \in 1 .. Horizon /\ m \in d[Distance(n)[m]]
               /\ \A j \in 1 .. Horizon : m \in d[j] => Distance(n)[m] <= j
          ELSE Distance(n)[m] = Infinite

LEMMA DistanceMeasured == ASSUME NEW n PROVE \E d : Measures(d, n)
<1> DEFINE d[k \in 1 .. Cardinality(Node) + 1] ==
              IF k = 1 THEN Neighbours(n) ELSE Further(n, d[k - 1])
<1>1. Distance(n) =
        [m \in Node |-> IF m \in d[Cardinality(Node) + 1]
                        THEN CHOOSE k \in DOMAIN d : m \in d[k] /\ \A j \in DOMAIN d :
                                                     m \in d[j] => k <= j
                        ELSE Infinite]
  BY DEF Distance
<1>2. Levels(d, n, Horizon)
  <2>1. \E f : Levels(f, n, Horizon)
    BY LevelsExist, Sizes DEF Horizon
  <2> QED BY <2>1 DEF Levels, Horizon
<1> HIDE DEF d
<1>3. DOMAIN d = 1 .. Horizon
  BY <1>2 DEF Levels
<1>4. Horizon \in Nat \ {0}
  BY Sizes DEF Horizon
<1>5. \A k \in 1 .. Horizon : d[k] = IF k = 1 THEN Neighbours(n) ELSE Further(n, d[k - 1])
  BY <1>2 DEF Levels
<1>6. d[1] = Neighbours(n) /\ \A k \in 2 .. Horizon : d[k] = Further(n, d[k - 1])
  <2>1. 1 \in 1 .. Horizon /\ \A k \in 2 .. Horizon : k \in 1 .. Horizon /\ k # 1
    BY <1>4
  <2> QED BY <1>5, <2>1
<1>7. ASSUME NEW m \in Node
      PROVE  IF m \in d[Horizon]
             THEN /\ Distance(n)[m] \in 1 .. Horizon /\ m \in d[Distance(n)[m]]
                  /\ \A j \in 1 .. Horizon : m \in d[j] => Distance(n)[m] <= j
             ELSE Distance(n)[m] = Infinite
  <2>1. Distance(n)[m] =
          IF m \in d[Horizon]
          THEN CHOOSE k \in DOMAIN d : m \in d[k] /\ \A j \in DOMAIN d :
                                                    m \in d[j] => k <= j
          ELSE Infinite
    BY <1>1 DEF Horizon
  <2>2. CASE m \notin d[Horizon]
    BY <2>1, <2>2
  <2>3. CASE m \in d[Horizon]
    <3> DEFINE T == {k \in DOMAIN d : m \in d[k]}
    <3>1. T \subseteq Nat /\ Horizon \in T
      BY <1>3, <1>4, <2>3
    <3>2. \E k \in T : \A j \in T : k <= j
      <4> HIDE DEF T
      <4> QED BY <3>1, LeastNat
    <3>3. \E k \in DOMAIN d : m \in d[k] /\ \A j \in DOMAIN d : m \in d[j] => k <= j
      BY <3>2
    <3> HIDE DEF T
    <3> DEFINE x == Distance(n)[m]
    <3>4. x = CHOOSE k \in DOMAIN d : m \in d[k] /\ \A j \in DOMAIN d :
                                                  m \in d[j] => k <= j
      BY <2>1, <2>3
    <3> HIDE DEF x
    <3>5. x \in DOMAIN d /\ m \in d[x] /\ \A j \in DOMAIN d : m \in d[j] => x <= j
      BY <3>3, <3>4
    <3> QED BY <1>3, <2>3, <3>5 DEF x
  <2> QED BY <2>2, <2>3
<1> QED BY <1>6, <1>7 DEF Measures
-----------------------------------------------------------------------------
(* The invariant of the loop. *)

Labels == [Node -> [hop : SUBSET Node, weight : 0 .. Infinite]]

Waiting(s) == {q.node : q \in s.queue}

\* As long as nodes with a route are polled, after k rounds: the labels are
\* lengths of paths, those of the polled nodes are settled, and the edges of
\* the polled nodes are followed.
LabelsAreLengths(n, d, s, k) ==
    \A m \in Node :
       /\ s.r[m].hop # {} <=> s.r[m].weight < Infinite
       /\ s.r[m].weight < Infinite =>
             /\ s.r[m].weight \in 1 .. (k + 1) /\ m \in d[s.r[m].weight]
             /\ s.r[m].hop \subseteq Neighbours(n)
             /\ Contains(known[n], m)

EdgesFollowed(n, s) ==
    /\ \A m \in Neighbours(n) : s.r[m].weight <= 1
    /\ \A l, m \in Node :
          <<l, m>> \in edges[n] /\ l \notin Waiting(s) =>
             s.r[m].weight <= s.r[l].weight + 1

PolledSettled(n, s) ==
    \A m \in Node :
       Contains(known[n], m) /\ m \notin Waiting(s) =>
          /\ s.r[m].weight < Infinite
          /\ \A q \in s.queue : s.r[m].weight <= s.r[q.node].weight

InQueue(n, s) == s.r \in Labels /\ s.queue \subseteq Queue(n)

Running(n, d, s, k) ==
    /\ InQueue(n, s)
    /\ LabelsAreLengths(n, d, s, k)
    /\ EdgesFollowed(n, s)
    /\ PolledSettled(n, s)

\* Afterwards no node in the queue has a route, every route is a shortest one,
\* and only if all nodes can be reached there is one to each.
RoutesFinal(n, d, s) ==
    \A m \in Node :
       s.r[m].hop # {} =>
          /\ s.r[m].weight \in 1 .. Horizon /\ m \in d[s.r[m].weight]
          /\ s.r[m].hop \subseteq Neighbours(n)
          /\ \A j \in 1 .. Horizon : m \in d[j] => s.r[m].weight <= j

Frozen(n, d, s) ==
    /\ InQueue(n, s)
    /\ \A q \in s.queue : s.r[q.node].hop = {}
    /\ RoutesFinal(n, d, s)
    /\ \E m \in Node : Contains(known[n], m) /\ m \notin d[Horizon]

LEMMA QueueFacts ==
    ASSUME NEW n, TablesOK(n)
    PROVE  /\ \A q \in Queue(n) : /\ q.node \in Node /\ q.pos \in 1 .. Len(known[n])
                                  /\ Contains(known[n], q.node)
           /\ \A m : Contains(known[n], m) => \E q \in Queue(n) : q.node = m
           /\ \A p, q \in Queue(n) : p.node = q.node => p = q
           /\ Len(known[n]) \in Nat
<1>1. known[n] \in Seq(Node) /\ IsInjective(known[n])
  BY DEF TablesOK
<1>2. DOMAIN known[n] = 1 .. Len(known[n]) /\ Len(known[n]) \in Nat
  BY <1>1
<1>3. ASSUME NEW q \in Queue(n)
      PROVE  q.node \in Node /\ q.pos \in 1 .. Len(known[n]) /\ Contains(known[n], q.node)
  <2>1. PICK k \in DOMAIN known[n] : q = [pos |-> k, node |-> known[n][k]]
    BY DEF Queue
  <2> QED BY <1>1, <1>2, <2>1 DEF Contains
<1>4. ASSUME NEW m, Contains(known[n], m) PROVE \E q \in Queue(n) : q.node = m
  <2>1. PICK k \in 1 .. Len(known[n]) : known[n][k] = m
    BY <1>4 DEF Contains
  <2> DEFINE q == [pos |-> k, node |-> known[n][k]]
  <2>2. q \in Queue(n) /\ q.node = m
    BY <1>2, <2>1 DEF Queue
  <2> QED BY <2>2
<1>5. ASSUME NEW p \in Queue(n), NEW q \in Queue(n), p.node = q.node PROVE p = q
  <2>1. PICK k \in DOMAIN known[n] : p = [pos |-> k, node |-> known[n][k]]
    BY DEF Queue
  <2>2. PICK l \in DOMAIN known[n] : q = [pos |-> l, node |-> known[n][l]]
    BY DEF Queue
  <2>3. known[n][k] = known[n][l]
    BY <1>5, <2>1, <2>2
  <2>4. k = l
    BY <1>1, <2>3 DEF IsInjective
  <2> QED BY <2>1, <2>2, <2>4
<1> QED BY <1>2, <1>3, <1>4, <1>5

LEMMA PollLightest ==
    ASSUME NEW n, TablesOK(n), NEW s, InQueue(n, s), s.queue # {}
    PROVE  /\ Poll(s.r, s.queue) \in s.queue
           /\ \A q \in s.queue :
                 s.r[Poll(s.r, s.queue).node].weight <= s.r[q.node].weight
<1> DEFINE w == [q \in s.queue |-> s.r[q.node].weight]
<1>1. \A q \in s.queue : q.node \in Node /\ q.pos \in 1 .. Len(known[n])
  BY QueueFacts DEF InQueue
<1>2. Infinite \in Nat /\ Len(known[n]) \in Nat
  BY Sizes, QueueFacts
<1>3. w \in [s.queue -> Nat]
  <2>1. ASSUME NEW q \in s.queue PROVE s.r[q.node].weight \in Nat
    <3>1. s.r[q.node] \in [hop : SUBSET Node, weight : 0 .. Infinite]
      BY <1>1 DEF InQueue, Labels
    <3> QED BY <3>1, <1>2
  <2> QED BY <2>1
<1>4. PICK x \in s.queue : \A q \in s.queue : w[x] <= w[q]
  <2> HIDE DEF w
  <2> QED BY <1>3, LeastOf
<1> DEFINE E == {q \in s.queue : w[q] = w[x]}
           v == [q \in E |-> Len(known[n]) - q.pos]
<1>5. E # {} /\ v \in [E -> Nat]
  <2>1. \A q \in E : Len(known[n]) - q.pos \in Nat
    BY <1>1, <1>2
  <2> QED BY <2>1
<1>6. PICK y \in E : \A q \in E : v[y] <= v[q]
  <2> HIDE DEF E, v
  <2> QED BY <1>5, LeastOf
<1>7. y \in s.queue /\ w[y] = w[x]
  OBVIOUS
<1>8. ASSUME NEW q \in s.queue
      PROVE  w[y] < w[q] \/ (w[y] = w[q] /\ q.pos <= y.pos)
  <2>1. w[x] <= w[q] /\ w[x] \in Nat /\ w[q] \in Nat
    BY <1>3, <1>4
  <2>2. CASE w[q] = w[x]
    <3>1. q \in E
      BY <2>2
    <3>2. Len(known[n]) - y.pos <= Len(known[n]) - q.pos
      BY <1>6, <3>1
    <3>3. y.pos \in Nat /\ q.pos \in Nat
      BY <1>1, <1>2, <1>7
    <3> QED BY <1>2, <1>7, <2>2, <3>2, <3>3
  <2>3. CASE w[q] # w[x]
    <3> HIDE DEF w, E
    <3> QED BY <1>7, <2>1, <2>3
  <2> QED BY <2>2, <2>3
<1> DEFINE Best(k) == \A j \in s.queue :
                         \/ s.r[k.node].weight < s.r[j.node].weight
                         \/ s.r[k.node].weight = s.r[j.node].weight /\ j.pos <= k.pos
           p == Poll(s.r, s.queue)
<1>9. Best(y)
  <2> HIDE DEF E
  <2> QED BY <1>7, <1>8
<1>10. p = CHOOSE k \in s.queue : Best(k)
  BY DEF Poll
<1> HIDE DEF Best, p
<1>11. p \in s.queue /\ Best(p)
  <2> HIDE DEF E
  <2> QED BY <1>7, <1>9, <1>10
<1>12. ASSUME NEW q \in s.queue PROVE s.r[p.node].weight <= s.r[q.node].weight
  <2>1. \/ s.r[p.node].weight < s.r[q.node].weight
        \/ s.r[p.node].weight = s.r[q.node].weight
    BY <1>11 DEF Best
  <2>2. w[p] \in Nat /\ w[q] \in Nat
    BY <1>3, <1>11
  <2>3. s.r[p.node].weight \in Nat /\ s.r[q.node].weight \in Nat
    BY <1>11, <2>2
  <2> QED BY <2>1, <2>3
<1> QED BY <1>11, <1>12 DEF p

LEMMA RunningStarts ==
    ASSUME MeshOK, NEW n \in Node, NEW d, Measures(d, n),
           NEW s, s.r = Direct(n), s.queue = Queue(n)
    PROVE  Running(n, d, s, 0)
<1>1. TablesOK(n)
  BY DEF MeshOK
<1>2. Infinite \in Nat /\ 1 < Infinite /\ 1 \in 0 .. Infinite /\ Infinite \in 0 .. Infinite
  BY Sizes
<1>3. Direct(n) \in Labels
  <2>1. \A m \in Node : {m} \in SUBSET Node /\ {} \in SUBSET Node
    OBVIOUS
  <2>2. \A m \in Node : [hop |-> {m}, weight |-> 1] \in [hop : SUBSET Node, weight : 0 .. Infinite]
    BY <1>2
  <2>3. [hop |-> {}, weight |-> Infinite] \in [hop : SUBSET Node, weight : 0 .. Infinite]
    BY <1>2
  <2> QED BY <2>2, <2>3 DEF Direct, NoRoute, Labels
<1> DEFINE hop == [m \in Node |-> Direct(n)[m].hop]
           weight == [m \in Node |-> Direct(n)[m].weight]
<1>4. ASSUME NEW m \in Node
      PROVE  /\ m \in Neighbours(n) => hop[m] = {m} /\ weight[m] = 1
             /\ m \notin Neighbours(n) => hop[m] = {} /\ weight[m] = Infinite
  BY DEF Direct, Neighbours, NoRoute
<1>5. \A m \in Node : s.r[m].hop = hop[m] /\ s.r[m].weight = weight[m]
  OBVIOUS
<1> HIDE DEF hop, weight
<1>6. LabelsAreLengths(n, d, s, 0)
  <2>1. ASSUME NEW m \in Node
        PROVE  /\ hop[m] # {} <=> weight[m] < Infinite
               /\ weight[m] < Infinite =>
                     /\ weight[m] \in 1 .. (0 + 1) /\ m \in d[weight[m]]
                     /\ hop[m] \subseteq Neighbours(n)
                     /\ Contains(known[n], m)
    <3>1. CASE m \in Neighbours(n)
      <4>1. m \in d[1] /\ Contains(known[n], m)
        BY <1>1, <3>1 DEF Measures, TablesOK
      <4>2. hop[m] = {m} /\ weight[m] = 1
        BY <1>4, <3>1
      <4> QED BY <1>2, <3>1, <4>1, <4>2
    <3>2. CASE m \notin Neighbours(n)
      <4>1. hop[m] = {} /\ weight[m] = Infinite
        BY <1>4, <3>2
      <4> QED BY <1>2, <4>1
    <3> QED BY <3>1, <3>2
  <2> QED BY <1>5, <2>1 DEF LabelsAreLengths
<1>7. \A m : Contains(known[n], m) => m \in Waiting(s)
  BY <1>1, QueueFacts DEF Waiting
<1>8. EdgesFollowed(n, s)
  <2>1. \A m \in Neighbours(n) : m \in Node
    BY DEF Neighbours
  <2>2. \A l, m \in Node : <<l, m>> \in edges[n] => l \in Waiting(s)
    BY <1>1, <1>7 DEF TablesOK
  <2>3. ASSUME NEW m \in Neighbours(n) PROVE s.r[m].weight <= 1
    <3>1. weight[m] = 1
      BY <1>4, <2>1
    <3> QED BY <1>5, <2>1, <3>1
  <2> QED BY <2>2, <2>3 DEF EdgesFollowed
<1>9. PolledSettled(n, s)
  BY <1>7 DEF PolledSettled
<1> QED BY <1>3, <1>6, <1>8, <1>9 DEF Running, InQueue
-----------------------------------------------------------------------------

\* What polling p does to the labels and the queue.
Polled(n, s, t, p, dist) ==
    /\ InQueue(n, t) /\ p \in s.queue
    /\ t.queue = s.queue \ {p}
    /\ \A m \in Node :
          IF <<p.node, m>> \in edges[n] /\ s.r[m].weight > dist
          THEN t.r[m].hop = s.r[p.node].hop /\ t.r[m].weight = dist
          ELSE t.r[m].hop = s.r[m].hop /\ t.r[m].weight = s.r[m].weight

LEMMA RoundPolls ==
    ASSUME NEW n, TablesOK(n), NEW s, InQueue(n, s), s.queue # {},
           NEW p, p = Poll(s.r, s.queue)
    PROVE  Polled(n, s, Round(n, s), p, (s.r[p.node].weight + 1) % (Infinite + 1))
<1> DEFINE out == {e[2] : e \in {f \in edges[n] : f[1] = p.node}}
           dist == (s.r[p.node].weight + 1) % (Infinite + 1)
           x == [hop |-> s.r[p.node].hop, weight |-> dist]
<1>1. p \in s.queue
  BY PollLightest
<1>2. p.node \in Node
  BY <1>1, QueueFacts DEF InQueue
<1>3. s.r[p.node] \in [hop : SUBSET Node, weight : 0 .. Infinite]
  BY <1>2 DEF InQueue, Labels
<1>4. dist \in 0 .. Infinite
  <2>1. s.r[p.node].weight \in Nat /\ Infinite \in Nat
    BY <1>3, Sizes
  <2> DEFINE v == s.r[p.node].weight + 1
             i == Infinite + 1
  <2>2. v \in Int /\ i \in Nat \ {0} /\ Infinite = i - 1
    BY <2>1
  <2> HIDE DEF v, i
  <2>3. v % i \in 0 .. i - 1
    BY <2>2
  <2> QED BY <2>2, <2>3 DEF v, i
<1>5. \A m \in Node : m \in out <=> <<p.node, m>> \in edges[n]
  <2>1. \A m : m \in out => <<p.node, m>> \in edges[n]
    <3>1. \A e \in edges[n] : e = <<e[1], e[2]>>
      BY DEF TablesOK
    <3> QED BY <3>1
  <2>2. ASSUME NEW m, <<p.node, m>> \in edges[n] PROVE m \in out
    <3> DEFINE e == <<p.node, m>>
    <3>1. e \in {f \in edges[n] : f[1] = p.node} /\ e[2] = m
      BY <2>2
    <3> QED BY <3>1
  <2> QED BY <2>1, <2>2
<1> HIDE DEF out, dist
<1>6. Round(n, s) = [r |-> Relax(s.r, p.node, out), queue |-> s.queue \ {p}]
  BY DEF Round, out
<1> DEFINE r == Relax(s.r, p.node, out)
<1>7. r = [m \in Node |-> IF m \in out /\ s.r[m].weight > dist THEN x ELSE s.r[m]]
  BY DEF Relax, dist
<1>8. x.hop = s.r[p.node].hop /\ x.weight = dist
      /\ x \in [hop : SUBSET Node, weight : 0 .. Infinite]
  BY <1>3, <1>4
<1> HIDE DEF r, x
<1>9. r \in Labels
  BY <1>7, <1>8 DEF InQueue, Labels
<1>10. Round(n, s).r = r /\ Round(n, s).queue = s.queue \ {p}
  BY <1>6 DEF r
<1>11. ASSUME NEW m \in Node
       PROVE  IF <<p.node, m>> \in edges[n] /\ s.r[m].weight > dist
              THEN r[m].hop = s.r[p.node].hop /\ r[m].weight = dist
              ELSE r[m].hop = s.r[m].hop /\ r[m].weight = s.r[m].weight
  BY <1>5, <1>7, <1>8
<1>12. InQueue(n, Round(n, s))
  BY <1>9, <1>10 DEF InQueue
<1> QED BY <1>1, <1>10, <1>11, <1>12 DEF Polled, dist

\* A round in which the polled node p has a route.
LEMMA RunningRuns ==
    ASSUME NEW n \in Node, TablesOK(n), NEW d, Measures(d, n),
           NEW k \in Nat, k < Cardinality(Node), NEW s, Running(n, d, s, k),
           NEW t, NEW p, NEW w, w = s.r[p.node].weight, w < Infinite,
           \A q \in s.queue : w <= s.r[q.node].weight,
           Polled(n, s, t, p, w + 1)
    PROVE  Running(n, d, t, k + 1)
<1>1. p \in s.queue /\ p \in Queue(n) /\ p.node \in Node
  BY QueueFacts DEF Polled, Running, InQueue
<1>2. ASSUME NEW m \in Node PROVE s.r[m].weight \in 0 .. Infinite /\ s.r[m].weight \in Nat
  <2>1. s.r[m] \in [hop : SUBSET Node, weight : 0 .. Infinite]
    BY DEF Running, InQueue, Labels
  <2> QED BY <2>1, Sizes
<1>3. /\ w \in 1 .. (k + 1) /\ p.node \in d[w] /\ s.r[p.node].hop \subseteq Neighbours(n)
      /\ s.r[p.node].hop # {}
  BY <1>1 DEF Running, LabelsAreLengths
<1>4. /\ w \in Nat /\ w + 1 \in 2 .. Horizon /\ w + 1 \in 1 .. (k + 1 + 1)
      /\ Infinite \in Nat
  BY <1>3, Sizes DEF Horizon
<1>5. ASSUME NEW m \in Node
      PROVE  \/ /\ <<p.node, m>> \in edges[n] /\ s.r[m].weight > w + 1
                /\ t.r[m].hop = s.r[p.node].hop /\ t.r[m].weight = w + 1
             \/ /\ ~(<<p.node, m>> \in edges[n] /\ s.r[m].weight > w + 1)
                /\ t.r[m].hop = s.r[m].hop /\ t.r[m].weight = s.r[m].weight
  BY DEF Polled
<1>6. ASSUME NEW m \in Node
      PROVE  /\ t.r[m].weight \in Nat /\ t.r[m].weight <= s.r[m].weight
             /\ s.r[m].weight <= w => t.r[m].weight = s.r[m].weight
             /\ w <= s.r[m].weight => w <= t.r[m].weight
             /\ <<p.node, m>> \in edges[n] => t.r[m].weight <= w + 1
  <2> DEFINE a == s.r[m].weight
             b == t.r[m].weight
  <2>1. a \in Nat
    BY <1>2, <1>4
  <2>2. CASE <<p.node, m>> \in edges[n] /\ a > w + 1
    <3>1. b = w + 1
      BY <1>5, <2>2
    <3> HIDE DEF a, b
    <3>2. b \in Nat /\ b <= a /\ ~(a <= w) /\ w <= b /\ b <= w + 1
      BY <1>4, <2>1, <2>2, <3>1
    <3> QED BY <3>2 DEF a, b
  <2>3. CASE ~(<<p.node, m>> \in edges[n] /\ a > w + 1)
    <3>1. b = a
      BY <1>5, <2>3
    <3>2. <<p.node, m>> \in edges[n] => ~(a > w + 1)
      BY <2>3
    <3> HIDE DEF a, b
    <3>3. b \in Nat /\ b <= a /\ (~(a > w + 1) => b <= w + 1)
      BY <1>4, <2>1, <3>1
    <3> QED BY <3>1, <3>2, <3>3 DEF a, b
  <2> QED BY <2>2, <2>3
<1>7. \A m \in Node : s.r[m].weight <= w => t.r[m].weight = s.r[m].weight
  BY <1>6
<1>8. t.r[p.node].weight = w
  <2>1. s.r[p.node].weight <= w
    BY <1>4
  <2> QED BY <1>1, <1>7, <2>1
<1>9. \A m \in Node : m \notin Waiting(t) => m \notin Waiting(s) \/ m = p.node
  BY DEF Polled, Waiting
<1>10. \A m \in Node :
          Contains(known[n], m) /\ m \notin Waiting(s) =>
             s.r[m].weight < Infinite /\ s.r[m].weight <= w
  BY <1>1 DEF Running, PolledSettled
<1>11. LabelsAreLengths(n, d, t, k + 1)
  <2> SUFFICES ASSUME NEW m \in Node
               PROVE  /\ t.r[m].hop # {} <=> t.r[m].weight < Infinite
                      /\ t.r[m].weight < Infinite =>
                            /\ t.r[m].weight \in 1 .. (k + 1 + 1)
                            /\ m \in d[t.r[m].weight]
                            /\ t.r[m].hop \subseteq Neighbours(n)
                            /\ Contains(known[n], m)
    BY DEF LabelsAreLengths
  <2>1. CASE t.r[m].hop = s.r[m].hop /\ t.r[m].weight = s.r[m].weight
    <3>1. \A v \in 1 .. (k + 1) : v \in 1 .. (k + 1 + 1)
      OBVIOUS
    <3> QED BY <2>1, <3>1 DEF Running, LabelsAreLengths
  <2>2. CASE /\ <<p.node, m>> \in edges[n] /\ s.r[m].weight > w + 1
             /\ t.r[m].hop = s.r[p.node].hop /\ t.r[m].weight = w + 1
    <3>1. m \in d[w + 1]
      <4>1. d[w + 1] = Further(n, d[(w + 1) - 1]) /\ (w + 1) - 1 = w
        BY <1>4 DEF Measures
      <4>2. p.node \in d[(w + 1) - 1]
        BY <1>3, <4>1
      <4> QED BY <2>2, <4>1, <4>2 DEF Further
    <3>2. Contains(known[n], m)
      BY <1>1, <2>2 DEF TablesOK
    <3>3. w + 1 < Infinite
      BY <1>2, <1>4, <2>2
    <3> QED BY <1>3, <1>4, <2>2, <3>1, <3>2, <3>3
  <2> QED BY <1>5, <2>1, <2>2
<1>12. EdgesFollowed(n, t)
  <2>1. ASSUME NEW m \in Neighbours(n) PROVE t.r[m].weight <= 1
    <3>1. m \in Node /\ s.r[m].weight <= 1
      BY DEF Neighbours, Running, EdgesFollowed
    <3>2. t.r[m].weight \in Nat /\ t.r[m].weight <= s.r[m].weight /\ s.r[m].weight \in Nat
      BY <1>2, <1>6, <3>1
    <3> QED BY <3>1, <3>2
  <2>2. ASSUME NEW l \in Node, NEW m \in Node,
               <<l, m>> \in edges[n], l \notin Waiting(t)
        PROVE  t.r[m].weight <= t.r[l].weight + 1
    <3>1. t.r[m].weight \in Nat /\ s.r[m].weight \in Nat /\ s.r[l].weight \in Nat
      BY <1>2, <1>6
    <3>0. t.r[m].weight <= s.r[m].weight
      BY <1>6
    <3>2. CASE l \notin Waiting(s)
      <4>1. Contains(known[n], l)
        BY <2>2 DEF TablesOK
      <4>2. t.r[l].weight = s.r[l].weight
        BY <1>7, <1>10, <3>2, <4>1
      <4>3. s.r[m].weight <= s.r[l].weight + 1
        BY <2>2, <3>2 DEF Running, EdgesFollowed
      <4> QED BY <3>0, <3>1, <4>2, <4>3
    <3>3. CASE l = p.node
      <4>1. t.r[m].weight <= w + 1
        BY <1>6, <2>2, <3>3
      <4> QED BY <1>8, <3>3, <4>1
    <3> QED BY <1>9, <2>2, <3>2, <3>3
  <2> QED BY <2>1, <2>2 DEF EdgesFollowed
<1>13. PolledSettled(n, t)
  <2> SUFFICES ASSUME NEW m \in Node, Contains(known[n], m), m \notin Waiting(t)
               PROVE  /\ t.r[m].weight < Infinite
                      /\ \A q \in t.queue : t.r[m].weight <= t.r[q.node].weight
    BY DEF PolledSettled
  <2>1. s.r[m].weight < Infinite /\ s.r[m].weight <= w
    BY <1>4, <1>9, <1>10
  <2>2. t.r[m].weight = s.r[m].weight
    BY <1>7, <2>1
  <2>3. ASSUME NEW q \in t.queue PROVE t.r[m].weight <= t.r[q.node].weight
    <3>1. q \in s.queue /\ q.node \in Node
      BY QueueFacts DEF Polled, Running, InQueue
    <3>2. w <= s.r[q.node].weight
      BY <3>1
    <3>3. w <= t.r[q.node].weight
      BY <1>6, <3>1, <3>2
    <3>4. t.r[q.node].weight \in Nat /\ s.r[m].weight \in Nat
      BY <1>2, <1>6, <3>1
    <3> QED BY <1>4, <2>1, <2>2, <3>3, <3>4
  <2> QED BY <2>1, <2>2, <2>3
<1> QED BY <1>11, <1>12, <1>13 DEF Running, Polled

\* When no node with a route waits, the labels are as short as can be.
LEMMA LabelsLeast ==
    ASSUME NEW n \in Node, TablesOK(n), NEW d, Measures(d, n),
           NEW k \in Nat, NEW s, Running(n, d, s, k),
           \A q \in s.queue : s.r[q.node].weight = Infinite
    PROVE  \A j \in 1 .. Horizon : \A m \in Node : m \in d[j] => s.r[m].weight <= j
<1> DEFINE Bad == {j \in 1 .. Horizon : \E m \in Node : m \in d[j] /\ ~(s.r[m].weight <= j)}
<1>1. SUFFICES ASSUME Bad # {} PROVE FALSE
  OBVIOUS
<1>2. Horizon \in Nat /\ Horizon < Infinite /\ Infinite \in Nat
  BY Sizes DEF Horizon
<1>3. PICK j \in Bad : \A i \in Bad : j <= i
  <2>1. Bad \subseteq Nat
    OBVIOUS
  <2> HIDE DEF Bad
  <2> QED BY <1>1, <2>1, LeastNat
<1>4. PICK m \in Node : m \in d[j] /\ ~(s.r[m].weight <= j)
  BY <1>3
<1>5. ASSUME NEW l \in Node PROVE s.r[l].weight \in Nat
  <2>1. s.r[l] \in [hop : SUBSET Node, weight : 0 .. Infinite]
    BY DEF Running, InQueue, Labels
  <2> QED BY <1>2, <2>1
<1>6. j \in 1 .. Horizon
  BY <1>3
<1>7. CASE j = 1
  <2>1. m \in Neighbours(n)
    BY <1>4, <1>7 DEF Measures
  <2> QED BY <1>4, <1>7, <2>1 DEF Running, EdgesFollowed
<1>8. CASE j # 1
  <2>1. j - 1 \in 1 .. Horizon /\ j \in 2 .. Horizon /\ ~(j <= j - 1) /\ j - 1 < Infinite
        /\ (j - 1) + 1 = j /\ j \in Nat
    BY <1>2, <1>6, <1>8
  <2>2. \A l \in Node : l \in d[j - 1] => s.r[l].weight <= j - 1
    <3>1. j - 1 \notin Bad
      <4> HIDE DEF Bad
      <4> QED BY <1>3, <2>1
    <3> QED BY <2>1, <3>1
  <2>3. m \in Further(n, d[j - 1])
    BY <1>4, <2>1 DEF Measures
  <2>4. CASE m \in d[j - 1]
    <3>1. s.r[m].weight <= j - 1 /\ s.r[m].weight \in Nat
      BY <1>5, <2>2, <2>4
    <3> QED BY <1>4, <2>1, <3>1
  <2>5. CASE \E l \in d[j - 1] : <<l, m>> \in edges[n]
    <3>1. PICK l \in d[j - 1] : <<l, m>> \in edges[n]
      BY <2>5
    <3>2. l \in Node
      BY <3>1 DEF TablesOK
    <3>3. s.r[l].weight <= j - 1 /\ s.r[l].weight \in Nat /\ s.r[m].weight \in Nat
      BY <1>5, <2>2, <3>1, <3>2
    <3>4. s.r[l].weight # Infinite
      BY <1>2, <2>1, <3>3
    <3>5. l \notin Waiting(s)
      BY <3>4 DEF Waiting
    <3>6. s.r[m].weight <= s.r[l].weight + 1
      BY <3>1, <3>2, <3>5 DEF Running, EdgesFollowed
    <3> QED BY <1>4, <2>1, <3>3, <3>6
  <2> QED BY <2>3, <2>4, <2>5 DEF Further
<1> QED BY <1>7, <1>8

LEMMA LabelsFinal ==
    ASSUME NEW n \in Node, TablesOK(n), NEW d, Measures(d, n),
           NEW k \in Nat, k <= Cardinality(Node), NEW s, Running(n, d, s, k),
           \A q \in s.queue : s.r[q.node].weight = Infinite
    PROVE  RoutesFinal(n, d, s) /\ (s.queue # {} => Frozen(n, d, s))
<1>1. \A j \in 1 .. Horizon : \A m \in Node : m \in d[j] => s.r[m].weight <= j
  BY LabelsLeast
<1>2. Horizon \in Nat /\ Horizon < Infinite /\ Infinite \in Nat /\ Horizon \in 1 .. Horizon
  BY Sizes DEF Horizon
<1>3. 1 .. (k + 1) \subseteq 1 .. Horizon
  BY Sizes DEF Horizon
<1>4. RoutesFinal(n, d, s)
  BY <1>1, <1>3 DEF RoutesFinal, Running, LabelsAreLengths
<1>5. ASSUME s.queue # {} PROVE Frozen(n, d, s)
  <2>1. InQueue(n, s)
    BY DEF Running
  <2>2. ASSUME NEW q \in s.queue
        PROVE  /\ q.node \in Node /\ Contains(known[n], q.node)
               /\ s.r[q.node].hop = {} /\ q.node \notin d[Horizon]
    <3>1. q.node \in Node /\ Contains(known[n], q.node)
      BY <2>1, QueueFacts DEF InQueue
    <3>2. s.r[q.node].weight = Infinite
      OBVIOUS
    <3>3. ~(s.r[q.node].weight < Infinite) /\ ~(s.r[q.node].weight <= Horizon)
      BY <1>2, <3>2
    <3>4. s.r[q.node].hop = {}
      BY <3>1, <3>3 DEF Running, LabelsAreLengths
    <3>5. q.node \notin d[Horizon]
      BY <1>1, <1>2, <3>1, <3>3
    <3> QED BY <3>1, <3>4, <3>5
  <2> QED BY <1>4, <1>5, <2>1, <2>2 DEF Frozen
<1> QED BY <1>4, <1>5

\* A round in which the polled node has none.  The distance wraps around.
LEMMA FrozenRuns ==
    ASSUME NEW n, TablesOK(n), NEW d, NEW s, Frozen(n, d, s),
           NEW t, NEW p, NEW dist, Polled(n, s, t, p, dist)
    PROVE  Frozen(n, d, t)
<1>1. s.r[p.node].hop = {} /\ t.queue \subseteq s.queue
  BY DEF Frozen, Polled
<1>2. \A m \in Node :
         \/ t.r[m].hop = {}
         \/ t.r[m].hop = s.r[m].hop /\ t.r[m].weight = s.r[m].weight
  BY <1>1 DEF Polled
<1>3. ASSUME NEW q \in t.queue PROVE t.r[q.node].hop = {}
  <2>1. q \in s.queue /\ q.node \in Node
    BY <1>1, QueueFacts DEF Frozen, InQueue
  <2>2. s.r[q.node].hop = {}
    BY <2>1 DEF Frozen
  <2> QED BY <1>2, <2>1, <2>2
<1>4. RoutesFinal(n, d, t)
  <2>1. ASSUME NEW m \in Node, t.r[m].hop # {}
        PROVE  /\ t.r[m].weight \in 1 .. Horizon /\ m \in d[t.r[m].weight]
               /\ t.r[m].hop \subseteq Neighbours(n)
               /\ \A j \in 1 .. Horizon : m \in d[j] => t.r[m].weight <= j
    <3>1. t.r[m].hop = s.r[m].hop /\ t.r[m].weight = s.r[m].weight
      BY <1>2, <2>1
    <3>2. /\ s.r[m].weight \in 1 .. Horizon /\ m \in d[s.r[m].weight]
          /\ s.r[m].hop \subseteq Neighbours(n)
          /\ \A j \in 1 .. Horizon : m \in d[j] => s.r[m].weight <= j
      BY <2>1, <3>1 DEF Frozen, RoutesFinal
    <3> QED BY <3>1, <3>2
  <2> QED BY <2>1 DEF RoutesFinal
<1> QED BY <1>3, <1>4 DEF Frozen, Polled

LEMMA LevelsGrow ==
    ASSUME NEW n, NEW d, Measures(d, n), NEW j \in 1 .. Horizon, NEW m, m \in d[j]
    PROVE  m \in d[Horizon]
<1>1. Horizon \in Nat
  BY Sizes DEF Horizon
<1> DEFINE Bad == {k \in j .. Horizon : m \notin d[k]}
<1>2. Bad = {}
  <2> SUFFICES ASSUME Bad # {} PROVE FALSE
    OBVIOUS
  <2>1. PICK k \in Bad : \A i \in Bad : k <= i
    <3>1. Bad \subseteq Nat
      BY <1>1
    <3> HIDE DEF Bad
    <3> QED BY <3>1, LeastNat
  <2>2. k \in j .. Horizon /\ m \notin d[k] /\ k # j
    BY <2>1
  <2>3. k - 1 \in j .. Horizon /\ k \in 2 .. Horizon /\ ~(k <= k - 1)
    BY <1>1, <2>2
  <2>4. m \in d[k - 1]
    BY <2>1, <2>3
  <2>5. d[k] = Further(n, d[k - 1])
    BY <2>3 DEF Measures
  <2> QED BY <2>2, <2>4, <2>5 DEF Further
<1>3. Horizon \in j .. Horizon
  BY <1>1
<1> QED BY <1>2, <1>3

LEMMA NextRound ==
    ASSUME MeshOK, NEW n \in Node, NEW d, Measures(d, n), NEW k \in Nat,
           k < Cardinality(Node), NEW s, s.queue # {},
           Running(n, d, s, k) \/ Frozen(n, d, s)
    PROVE  LET t == Round(n, s) IN
           /\ Running(n, d, t, k + 1) \/ Frozen(n, d, t)
           /\ \E p \in s.queue : t.queue = s.queue \ {p}
<1> DEFINE t == Round(n, s)
           p == Poll(s.r, s.queue)
           w == s.r[p.node].weight
<1>1. TablesOK(n) /\ InQueue(n, s)
  BY DEF MeshOK, Running, Frozen
<1> HIDE DEF p, w, t
<1>2. Polled(n, s, t, p, (w + 1) % (Infinite + 1))
  BY <1>1, RoundPolls DEF p, w, t
<1>3. p \in s.queue /\ \A q \in s.queue : w <= s.r[q.node].weight
  BY <1>1, PollLightest DEF p, w
<1>4. p \in s.queue /\ t.queue = s.queue \ {p}
  BY <1>2 DEF Polled
<1>5. ASSUME NEW q \in s.queue
      PROVE  s.r[q.node].weight \in 0 .. Infinite
  <2>1. q.node \in Node
    BY <1>1, QueueFacts DEF InQueue
  <2>2. s.r[q.node] \in [hop : SUBSET Node, weight : 0 .. Infinite]
    BY <1>1, <2>1 DEF InQueue, Labels
  <2> QED BY <2>2
<1>6. w \in 0 .. Infinite /\ Infinite \in Nat
  BY <1>3, <1>5, Sizes DEF w
<1>7. CASE Frozen(n, d, s)
  BY <1>1, <1>2, <1>4, <1>7, FrozenRuns DEF t
<1>8. CASE Running(n, d, s, k) /\ w < Infinite
  <2>1. (w + 1) % (Infinite + 1) = w + 1
    <3> DEFINE i == Infinite + 1
               v == w + 1
    <3>1. i \in Nat \ {0} /\ v \in 0 .. i - 1
      BY <1>6, <1>8
    <3> HIDE DEF i, v
    <3>2. v % i = v
      BY <3>1
    <3> QED BY <3>2 DEF i, v
  <2>2. Polled(n, s, t, p, w + 1)
    BY <1>2, <2>1
  <2>3. Running(n, d, t, k + 1)
    BY <1>1, <1>3, <1>8, <2>2, RunningRuns DEF w
  <2> QED BY <1>4, <2>3 DEF t
<1>9. CASE Running(n, d, s, k) /\ ~(w < Infinite)
  <2>1. ASSUME NEW q \in s.queue PROVE s.r[q.node].weight = Infinite
    <3>1. w <= s.r[q.node].weight /\ s.r[q.node].weight \in 0 .. Infinite
      BY <1>3, <1>5
    <3> QED BY <1>6, <1>9, <3>1
  <2>2. k <= Cardinality(Node)
    BY Sizes
  <2>3. Frozen(n, d, s)
    BY <1>1, <1>9, <2>1, <2>2, LabelsFinal
  <2> QED BY <1>1, <1>2, <1>4, <2>3, FrozenRuns DEF t
<1> QED BY <1>7, <1>8, <1>9

LEMMA DijkstraEnds ==
    ASSUME MeshOK, NEW n \in Node, NEW d, Measures(d, n)
    PROVE  \E s, k : /\ k \in Nat /\ k <= Cardinality(Node)
                     /\ s.queue = {} /\ s.r = Dijkstra(n)
                     /\ Running(n, d, s, k) \/ Frozen(n, d, s)
<1> DEFINE C == Cardinality(Queue(n))
<1>1. TablesOK(n)
  BY DEF MeshOK
<1>2. C \in Nat /\ C <= Cardinality(Node) /\ IsFiniteSet(Queue(n)) /\ Cardinality(Node) \in Nat
  BY <1>1, QueueSize, Sizes
<1>3. PICK f : /\ f[0] = [r |-> Direct(n), queue |-> Queue(n)]
               /\ \A k \in 1 .. C : f[k] = Round(n, f[k - 1])
               /\ Dijkstra(n) = f[C].r
  BY <1>1, DijkstraRounds
<1> DEFINE Good(k) == /\ IsFiniteSet(f[k].queue) /\ Cardinality(f[k].queue) = C - k
                      /\ Running(n, d, f[k], k) \/ Frozen(n, d, f[k])
           Bad == {k \in 0 .. C : ~Good(k)}
<1> HIDE DEF C
<1>4. Good(0)
  <2>1. f[0].r = Direct(n) /\ f[0].queue = Queue(n)
    BY <1>3
  <2>2. Running(n, d, f[0], 0)
    BY <2>1, RunningStarts
  <2>3. C - 0 = Cardinality(Queue(n))
    BY <1>2 DEF C
  <2> QED BY <1>2, <2>1, <2>2, <2>3
<1>5. ASSUME NEW k \in 1 .. C, Good(k - 1) PROVE Good(k)
  <2> DEFINE s == f[k - 1]
             t == f[k]
  <2>1. k - 1 \in Nat /\ k - 1 < Cardinality(Node) /\ (k - 1) + 1 = k /\ k \in Nat
        /\ C - (k - 1) # 0 /\ (C - (k - 1)) - 1 = C - k /\ C - (k - 1) \in Nat
    BY <1>2
  <2>2. t = Round(n, s)
    BY <1>3
  <2>3. IsFiniteSet(s.queue) /\ Cardinality(s.queue) = C - (k - 1)
        /\ (Running(n, d, s, k - 1) \/ Frozen(n, d, s))
    BY <1>5
  <2> HIDE DEF s, t
  <2>4. s.queue # {}
    BY <2>1, <2>3, FS_EmptySet
  <2>5. /\ Running(n, d, t, (k - 1) + 1) \/ Frozen(n, d, t)
        /\ \E p \in s.queue : t.queue = s.queue \ {p}
    BY <2>1, <2>2, <2>3, <2>4, NextRound
  <2>6. IsFiniteSet(t.queue) /\ Cardinality(t.queue) = C - k
    <3>1. PICK p \in s.queue : t.queue = s.queue \ {p}
      BY <2>5
    <3>2. IsFiniteSet(s.queue \ {p}) /\ Cardinality(s.queue \ {p}) = Cardinality(s.queue) - 1
      BY <2>3, FS_RemoveElement
    <3> QED BY <2>1, <2>3, <3>1, <3>2
  <2> QED BY <2>1, <2>5, <2>6 DEF t
<1>6. Bad = {}
  <2> SUFFICES ASSUME Bad # {} PROVE FALSE
    OBVIOUS
  <2>1. PICK k \in Bad : \A i \in Bad : k <= i
    <3>1. Bad \subseteq Nat
      BY <1>2
    <3> HIDE DEF Bad
    <3> QED BY <3>1, LeastNat
  <2> HIDE DEF Good
  <2>2. k \in 0 .. C /\ ~Good(k)
    BY <2>1
  <2>3. k # 0
    BY <1>4, <2>2
  <2>4. k \in 1 .. C /\ k - 1 \in 0 .. C /\ ~(k <= k - 1)
    BY <1>2, <2>2, <2>3
  <2>5. Good(k - 1)
    BY <2>1, <2>4
  <2> QED BY <1>5, <2>2, <2>4, <2>5
<1>7. Good(C)
  <2>1. C \in 0 .. C
    BY <1>2
  <2> HIDE DEF Good
  <2> QED BY <1>6, <2>1
<1>8. f[C].queue = {}
  <2>1. C - C = 0
    BY <1>2
  <2> QED BY <1>7, <2>1, FS_EmptySet
<1> QED BY <1>2, <1>3, <1>7, <1>8

LEMMA RoutesAreShortest ==
    ASSUME MeshOK, NEW n \in Node
    PROVE  LET r == Dijkstra(n)
               dist == Distance(n)
           IN  /\ \A m \in Node : r[m].hop # {} =>
                     /\ r[m].weight = dist[m]
                     /\ \A h \in r[m].hop : nt[n][h] # "none"
               /\ (\A m \in ToSet(known[n]) : dist[m] < Infinite)
                  => \A m \in ToSet(known[n]) : r[m].hop # {}
<1> DEFINE r == Dijkstra(n)
           dist == Distance(n)
<1>1. PICK d : Measures(d, n)
  BY DistanceMeasured
<1>2. PICK s, k : /\ k \in Nat /\ k <= Cardinality(Node)
                  /\ s.queue = {} /\ s.r = r
                  /\ Running(n, d, s, k) \/ Frozen(n, d, s)
  BY <1>1, DijkstraEnds
<1> HIDE DEF r, dist
<1>3. TablesOK(n)
  BY DEF MeshOK
<1>4. RoutesFinal(n, d, s)
  BY <1>1, <1>2, <1>3, LabelsFinal DEF Frozen
<1>5. Horizon \in Nat /\ Horizon < Infinite /\ Infinite \in Nat /\ Horizon \in 1 .. Horizon
  BY Sizes DEF Horizon
<1>6. ASSUME NEW m \in Node, r[m].hop # {}
      PROVE  r[m].weight = dist[m] /\ \A h \in r[m].hop : nt[n][h] # "none"
  <2> DEFINE w == r[m].weight
  <2>1. /\ w \in 1 .. Horizon /\ m \in d[w] /\ r[m].hop \subseteq Neighbours(n)
        /\ \A j \in 1 .. Horizon : m \in d[j] => w <= j
    BY <1>2, <1>4, <1>6 DEF RoutesFinal
  <2> HIDE DEF w
  <2>2. m \in d[Horizon]
    BY <1>1, <1>5, <2>1, LevelsGrow
  <2>3. dist[m] \in 1 .. Horizon /\ m \in d[dist[m]] /\ dist[m] <= w
    BY <1>1, <2>1, <2>2 DEF Measures, dist
  <2>4. w <= dist[m]
    BY <2>1, <2>3
  <2>5. w = dist[m]
    BY <2>1, <2>3, <2>4
  <2> QED BY <2>1, <2>5 DEF w, Neighbours
<1>7. ASSUME \A m \in ToSet(known[n]) : dist[m] < Infinite,
             NEW m \in ToSet(known[n])
      PROVE  r[m].hop # {}
  <2>1. \A l : l \in ToSet(known[n]) <=> Contains(known[n], l)
    <3>1. known[n] \in Seq(Node)
      BY <1>3 DEF TablesOK
    <3> QED BY <3>1 DEF ToSet, Contains
  <2>2. \A l \in ToSet(known[n]) : l \in Node
    <3>1. known[n] \in Seq(Node)
      BY <1>3 DEF TablesOK
    <3> QED BY <3>1 DEF ToSet
  <2>3. CASE Frozen(n, d, s)
    <3>1. PICK l \in Node : Contains(known[n], l) /\ l \notin d[Horizon]
      BY <2>3 DEF Frozen
    <3>2. dist[l] = Infinite
      BY <1>1, <3>1 DEF Measures, dist
    <3>3. dist[l] < Infinite
      BY <1>7, <2>1, <3>1
    <3> QED BY <1>5, <3>2, <3>3
  <2>4. CASE Running(n, d, s, k)
    <3>1. m \notin Waiting(s)
      BY <1>2 DEF Waiting
    <3>2. r[m].weight < Infinite
      BY <1>2, <2>1, <2>2, <2>4, <3>1 DEF Running, PolledSettled
    <3> QED BY <1>2, <2>2, <2>4, <3>2 DEF Running, LabelsAreLengths
  <2> QED BY <1>2, <2>3, <2>4
<1> QED BY <1>6, <1>7 DEF r, dist

\* The routes that lsr_tc_dijkstra finds over the tables of any moment, also in
\* the middle of a TC, are shortest ones and begin at a neighbour; and unless
\* some node in node_set cannot be reached, there is one to every node.
THEOREM SpecRoutesShortest == Spec => []RoutesShortest
<1>1. MeshOK => RoutesShortest
  <2> SUFFICES ASSUME MeshOK, NEW n \in Router
               PROVE  LET r == Dijkstra(n)
                          dist == Distance(n)
                      IN  /\ \A m \in Node : r[m].hop # {} =>
                                /\ r[m].weight = dist[m]
                                /\ \A h \in r[m].hop : nt[n][h] # "none"
                          /\ (\A m \in ToSet(known[n]) : dist[m] < Infinite)
                             => \A m \in ToSet(known[n]) : r[m].hop # {}
    BY DEF RoutesShortest
  <2>1. n \in Node
    BY LsrAssumption
  <2> QED BY <2>1, RoutesAreShortest
<1> QED BY <1>1, InitMesh, NextMesh, PTL DEF Spec
=============================================================================
