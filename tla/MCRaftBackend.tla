--------------------------- MODULE MCRaftBackend ---------------------------
(* Two nodes with one client each, one of them able to ask the provider,   *)
(* and one key.                                                            *)
EXTENDS RaftBackend, TLC

CONSTANTS n1, n2, c1, c2, k1, r1

MCNodes == {n1, n2}
MCClients == {c1, c2}
MCHomeOf == c1 :> n1 @@ c2 :> n2
MCReconcilers == {c1}
MCKeys == {k1}
MCResources == {r1}
MCAmounts == {1}
MCCapacities == {1}
=============================================================================
