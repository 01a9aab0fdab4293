--------------------------- MODULE SlidingWindow ---------------------------
(***************************************************************************)
(* The sliding windows of sequence numbers of BATMAN, NAMTAB and OLSR      *)
(* (batman_sw.c, sw.c) and the comparison of wrapping numbers they rest on *)
(* (helper.c).  The sorted list of the code is the set of its elements;    *)
(* its head is the newest of them.                                         *)
(***************************************************************************)
EXTENDS Integers

CONSTANT SeqMod \* sequence numbers are 0 .. SeqMod - 1; 2^16 in the code

ASSUME SeqModAssumption == SeqMod \in Nat /\ SeqMod >= 8

SeqNum == 0 .. SeqMod - 1

\* hf_seq_comp_i_j: 1 if i is newer than j, -1 if it is older.
Comp(i, j) ==
    IF i % SeqMod = j % SeqMod THEN 0
    ELSE IF (i - j) % SeqMod < (SeqMod - 1) \div 2 THEN 1 ELSE -1

\* The head of the list.
Newest(w) == CHOOSE s \in w : \A t \in w : Comp(s, t) >= 0

\* batman_sw_dropsn: what lies size or more behind s leaves the window.
DropSn(w, size, s) == {t \in w : Comp(s, t + size) < 0}

\* batman_sw_addsn: a number that far behind the newest one is not taken.
AddSn(w, size, s) ==
    IF w # {} /\ Comp(Newest(w), s + size) >= 0 THEN w
    ELSE DropSn(w \cup {s}, size, Newest(w \cup {s}))
=============================================================================
