-------------------------- MODULE MCSqliteClients --------------------------
(* SqliteClients over two keys competing for one resource.                 *)
EXTENDS SqliteClients, TLC

CONSTANTS c1, c2, c3, k1, k2, r1

MCClients == {c1, c2, c3}
MCReconcilers == {c1, c2}
MCKeys == {k1, k2}
MCResources == {r1}
MCAmounts == {1, 2}
MCCapacities == {2}

Symmetry == Permutations(MCKeys) \cup Permutations(MCReconcilers)
=============================================================================
