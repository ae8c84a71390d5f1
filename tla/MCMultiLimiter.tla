--------------------------- MODULE MCMultiLimiter ---------------------------
(* An instance of MultiLimiter.                                            *)
EXTENDS MultiLimiter, TLC

Slot(n) == [concurrent |-> TRUE, limit |-> n]
PerMinute(n) == [concurrent |-> FALSE, limit |-> n]

\* A window, a rule that is not active, and two slots.
Mixed == <<PerMinute(1), Slot(0), Slot(1), Slot(2)>>

ProcSymmetry == Permutations(Procs)
=============================================================================
