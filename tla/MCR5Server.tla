----------------------------- MODULE MCR5Server -----------------------------
(***************************************************************************)
(* The hardened R5 server with two handler slots, one WebSocket client and *)
(* epochs of three entries, so that a Merkle level of odd length occurs.   *)
(***************************************************************************)
EXTENDS R5Server

CONSTANTS r1, r2, c1

MCRequests == {r1, r2}
MCClients == {c1}
MCBounds == {[entries |-> 4, oaths |-> 2, faults |-> 1, requests |-> {r1}, clients |-> {}],
             [entries |-> 3, oaths |-> 2, faults |-> 1, requests |-> MCRequests, clients |-> {}],
             [entries |-> 2, oaths |-> 1, faults |-> 0, requests |-> MCRequests, clients |-> MCClients]}
MCNonces == 1..2
MCEvents == {[severity |-> "alert", gate |-> "raw", depth |-> 1],
             [severity |-> "clear", gate |-> "HARD_VETO", depth |-> 0]}
MCModes == {"SHADOW_OFF", "SHADOW_PASSIVE", "SHADOW_CRITICAL", "ENFORCE"}
=============================================================================
