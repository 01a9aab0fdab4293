------------------------------- MODULE LsrSeq -------------------------------
(***************************************************************************)
(* The duplicate check of LSR (branch sfriesel, lsr_node.c): the highest   *)
(* sequence number of a sender, widened from the 16 bits of the packet,    *)
(* and up to GAP_COUNT intervals of lower numbers that are still to come.  *)
(***************************************************************************)
EXTENDS Integers, Sequences

CONSTANTS
    SeqSpan,   \* 2^16: numbers in packets, and the bounds of a gap, wrap
    Threshold, \* SEQ_NR_THRESHOLD
    GapCount   \* GAP_COUNT

ASSUME LsrSeqAssumption ==
    /\ {SeqSpan, Threshold, GapCount} \subseteq Nat \ {0}
    /\ 2 * Threshold < SeqSpan

NoGap == [start |-> 0, end |-> 0]

\* lsr_node_new: nothing of the node was seen.
NewWindow == [newest |-> 0, gaps |-> [k \in 1 .. GapCount |-> NoGap]]

\* Mutant: a number that is a bit older counts as one of the next round.
GuessAhead(old, new) == old + ((new - old) % SeqSpan)

\* _guess_seq_nr: the number that wraps to new and is at most Threshold behind
\* old, or the next one.
Guess(old, new) ==
    LET low == IF old > Threshold THEN old - Threshold ELSE 0
    IN  low + ((new - low) % SeqSpan)

\* _gap_insert_index: the first unused gap, else the one that starts last.
InsertIndex(gaps) ==
    LET Unused == {k \in DOMAIN gaps : gaps[k].start = gaps[k].end}
        Latest == {k \in DOMAIN gaps :
                     \A j \in DOMAIN gaps : gaps[j].start <= gaps[k].start}
        Candidates == IF Unused # {} THEN Unused ELSE Latest
    IN  CHOOSE k \in Candidates : \A j \in Candidates : k <= j

\* Mutant: the number stays in the gap.
SplitKept(gaps, k, x) == gaps

\* _split_gap: x is taken out of gap k.
Split(gaps, k, x) ==
    LET g == gaps[k] IN
    IF x = g.start THEN [gaps EXCEPT ![k].start = x + 1]
    ELSE IF x = g.end - 1 THEN [gaps EXCEPT ![k].end = x]
    ELSE LET low == [gaps EXCEPT ![InsertIndex(gaps)] =
                        [start |-> g.start, end |-> x]]
         IN  [low EXCEPT ![k].start = x + 1]

\* _lsr_node_check_seq_nr, for a number above the newest one.
Advance(w, guess) ==
    LET kept == IF guess > w.newest + Threshold
                THEN [k \in 1 .. GapCount |-> NoGap] ELSE w.gaps
        gap == [start |-> (w.newest + 1) % SeqSpan, end |-> guess % SeqSpan]
    IN  [newest |-> guess,
         gaps |-> IF guess > w.newest + 1
                  THEN [kept EXCEPT ![InsertIndex(kept)] = gap] ELSE kept]

\* The gaps a number falls into.  Their bounds have 16 bits, the number 64.
GapsOf(w, guess) ==
    {k \in 1 .. GapCount : w.gaps[k].start <= guess /\ guess < w.gaps[k].end}

\* _lsr_node_check_seq_nr: whether the number is taken as not yet seen.
IsUnseen(w, seq) ==
    LET guess == Guess(w.newest, seq)
    IN  guess > w.newest \/ GapsOf(w, guess) # {}

\* ... and the window after it.
See(w, seq) ==
    LET guess == Guess(w.newest, seq)
        hit == GapsOf(w, guess)
    IN  IF guess > w.newest THEN Advance(w, guess)
        ELSE IF hit = {} THEN w
        ELSE [w EXCEPT !.gaps =
                 Split(@, CHOOSE k \in hit : \A j \in hit : k <= j, guess)]

-----------------------------------------------------------------------------
(* One sender and one receiver: packets are lost, repeated and overtake    *)
(* each other, by at most MaxDelay.                                        *)

CONSTANTS
    MaxSent,  \* bound: the packets that are sent
    MaxDelay, \* bound: by how many newer ones a packet is overtaken
    MaxLost   \* bound: how many packets in a row are lost or late

ASSUME DelayAssumption ==
    /\ {MaxSent, MaxDelay, MaxLost} \subseteq Nat
    /\ MaxDelay <= Threshold /\ MaxLost + Threshold + 1 < SeqSpan

VARIABLES
    number, \* broadcast_seq_nr of the sender; it starts with 1
    window, \* newest number and gaps at the receiver
    taken   \* how often each packet passed the check; more than 2 count as 2

seqVars == <<number, window, taken>>

Taken == {k \in 1 .. MaxSent : taken[k] > 0}

SeqInit == number = 0 /\ window = NewWindow /\ taken = [k \in 1 .. MaxSent |-> 0]

\* lsr_db_broadcast_get_seq_nr
Send ==
    /\ number < MaxSent
    /\ \E k \in Taken \cup {0} : k + MaxLost >= number
    /\ number' = number + 1
    /\ UNCHANGED <<window, taken>>

\* lsr_db_broadcast_check_seq_nr, of packet number k
Receive(k) ==
    /\ k <= number /\ k + MaxDelay >= number
    /\ window' = See(window, k % SeqSpan)
    /\ taken' = IF IsUnseen(window, k % SeqSpan)
                THEN [taken EXCEPT ![k] = IF @ = 2 THEN 2 ELSE @ + 1] ELSE taken
    /\ UNCHANGED number

SeqNext == Send \/ \E k \in 1 .. MaxSent : Receive(k)

SeqSpec == SeqInit /\ [][SeqNext]_seqVars

Gap == [start : 0 .. SeqSpan - 1, end : 0 .. SeqSpan - 1]
Window(max) == [newest : 0 .. max, gaps : [1 .. GapCount -> Gap]]

WindowOK ==
    /\ number \in 0 .. MaxSent /\ taken \in [1 .. MaxSent -> 0 .. 2]
    /\ window \in Window(MaxSent)

\* No packet is processed twice, whatever is repeated, lost or late, however
\* the numbers wrap and whichever gap has to make room for another one.
TakenOnce == \A k \in 1 .. MaxSent : taken[k] <= 1

\* What is newer than all that came before is never taken for a repetition:
\* the newest number is that of the newest packet, also after a wrap.
NewestFollows ==
    \A k \in Taken : k <= window.newest /\ window.newest \in Taken
=============================================================================
