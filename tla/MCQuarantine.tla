---------------------------- MODULE MCQuarantine ----------------------------
(* Quarantine with two threads in one process and one in another.          *)
EXTENDS Quarantine, TLC

CONSTANTS t1, t2, t3, p1, p2, i1

MCThreads == {t1, t2, t3}
MCProcs == {p1, p2}
MCProcOf == t1 :> p1 @@ t2 :> p1 @@ t3 :> p2
MCIncidents == {i1}
=============================================================================
