----------------------------- MODULE MCGovernor -----------------------------
(* Governor over one operation: two worker processes with a thread each,   *)
(* of which only the callers of p1 retry.                                  *)
EXTENDS Governor, TLC

CONSTANTS t1, t2, p1, p2, k1, r1

MCThreads == {t1, t2}
MCProcs == {p1, p2}
MCProcOf == t1 :> p1 @@ t2 :> p2
MCRetrying == {p1}
MCBothModes == BOOLEAN
MCKeys == {k1}
MCResources == {r1}
MCAmounts == {1}
MCCapacities == {0, 1}
MCAmountOf == [k \in MCKeys |-> 1]
MCResourceOf == [k \in MCKeys |-> r1]
=============================================================================
