---------------------------- MODULE MCR4Monitor -----------------------------
(* R4Monitor with two processes, a registered and an unregistered operator *)
(* and two events whose stability lies above the block floor and rounds    *)
(* onto it: one is below the alert floor as well, the other above it.      *)
EXTENDS R4Monitor, TLC

CONSTANTS m1, m2, o1, o2, n1

MCMonitors == {m1, m2}
MCOperators == {o1, o2}
MCRegistered == {o1}
MCNonces == {n1}
MCBounds == {[entries |-> 3, faults |-> 0], [entries |-> 2, faults |-> 1]}
MCOverrides == {NoMode, "SHADOW_CRITICAL"}
MCPolicy == [unit |-> 10, event_window |-> 3, reaction_budget_events |-> 2,
             s_alert_floor |-> 72, s_block_floor |-> 70, tau_floor |-> 40,
             ds_de_alert_floor |-> -20, d2s_de2_alert_floor |-> -20,
             option_space_alert_floor |-> 35, option_space_block_floor |-> 20]
Sample(capacity, option_space) ==
    [pressure |-> 1, velocity |-> 1, capacity |-> capacity, option_space |-> option_space]
MCEvents == {Sample(72, NoOption), Sample(74, 40)}

Symmetry == Permutations(MCMonitors)
=============================================================================
