------------------------------ MODULE AodvSeq ------------------------------
(***************************************************************************)
(* The comparisons of des-aodv (helper.c): sequence numbers are unsigned   *)
(* integers that wrap around, metrics are compared by quality.             *)
(***************************************************************************)
EXTENDS Integers

CONSTANTS
    SeqMod,      \* 2^32 in the code: UINT32_MAX + 1
    MoreIsBetter \* metric_type is AODV_METRIC_ETX_MUL or AODV_METRIC_PDR

ASSUME SeqModAssumption == SeqMod \in Nat /\ SeqMod >= 4

SeqNum == 0..(SeqMod - 1)

\* UINT32_MAX >> 1
HalfRange == (SeqMod - 1) \div 2

\* uint32_t diff = i - j
Diff(i, j) == IF i >= j THEN i - j ELSE (i - j) + SeqMod

\* hf_comp_u32: 1 if i is newer than j, -1 if it is older.
Comp(i, j) ==
    IF i = j THEN 0 ELSE IF Diff(i, j) < HalfRange THEN 1 ELSE -1

\* hf_comp_metric: positive if i is better than j.
CompMetric(i, j) == IF MoreIsBetter THEN i - j ELSE j - i
=============================================================================
