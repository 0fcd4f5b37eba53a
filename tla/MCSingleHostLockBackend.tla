---------------------- MODULE MCSingleHostLockBackend ----------------------
(* SingleHostLockBackend with two processes, two keys and one resource on  *)
(* which both keys fit, one fits, or none does.  The smaller amount is     *)
(* written without decimals, the larger with one.                          *)
EXTENDS SingleHostLockBackend, TLC

CONSTANTS p1, p2, k1, k2, r1

MCProcs == {p1, p2}
MCKeys == {k1, k2}
MCResources == {r1}
MCAmounts == {1, 2}
MCCapacities == {1, 3}
MCDecimals == [a \in MCAmounts |-> a - 1]

Symmetry == Permutations(MCProcs) \cup Permutations(MCKeys)
=============================================================================
