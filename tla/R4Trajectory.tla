---------------------------- MODULE R4Trajectory ----------------------------
(***************************************************************************)
(* How the R4 monitor judges one event: the stability of the event, its    *)
(* change over the window of earlier events, the alert and block           *)
(* conditions, the R4 action and, beside it, the decision of the shared    *)
(* policy engine.  Floating-point scores are integers in the finest unit;  *)
(* Policy.unit of them is the last digit that round(s, 6) keeps.           *)
(***************************************************************************)
EXTENDS Integers, Sequences, SequencesExt, FiniteSetsExt

CONSTANT Policy      \* PolicyBundle: the record of floors and budgets

NoOption == -1     \* event.option_space is None
Never == -1        \* projected_events_to_zero is None

Operating == {"SHADOW_OFF", "SHADOW_PASSIVE", "SHADOW_CRITICAL", "ENFORCE"}

PolicyBundle ==
    [unit : Nat \ {0}, event_window : Int, reaction_budget_events : Int,
     s_alert_floor : Int, s_block_floor : Int, tau_floor : Int,
     ds_de_alert_floor : Int, d2s_de2_alert_floor : Int,
     option_space_alert_floor : Int, option_space_block_floor : Int]

\* PolicyBundle.validate, which accepts derivative floors of either sign and
\* a block floor that is the alert floor.
ValidPolicy(policy) ==
    /\ policy.event_window >= 3
    /\ policy.reaction_budget_events >= 1
    /\ policy.s_block_floor <= policy.s_alert_floor
    /\ policy.option_space_block_floor \in 0..policy.option_space_alert_floor
    /\ policy.tau_floor >= 0 /\ policy.tau_floor < policy.s_block_floor

\* The engine that to_policy_engine makes of the same numbers validates them
\* again, and refuses a positive derivative floor.
EngineAccepts == Policy.ds_de_alert_floor <= 0 /\ Policy.d2s_de2_alert_floor <= 0

\* EventSample.validate.
ValidEvent(event) ==
    /\ event.pressure \in Nat /\ event.velocity \in Nat /\ event.capacity \in Nat
    /\ event.option_space \in Nat \cup {NoOption}

ASSUME PolicyAssumption == Policy \in PolicyBundle /\ ValidPolicy(Policy)

\* S = K / (P * V + epsilon), with epsilon one part in a hundred.
compute_stability(event) ==
    (100 * event.capacity) \div (100 * event.pressure * event.velocity + 1)

\* The two deques: the stabilities of the last event_window events; the
\* first derivatives are the differences of neighbours.
Pushed(window, s) ==
    LET all == Append(window, s)
    IN  SubSeq(all, Max({1, Len(all) - Policy.event_window + 1}), Len(all))

Slope(window, back) ==
    LET n == Len(window) - back
    IN  IF n >= 2 THEN window[n] - window[n - 1] ELSE 0

Ceil(a, b) == (a + b - 1) \div b

\* TrajectoryTracker.update, given the window with the event already in it.
Trajectory(window, option_space) ==
    LET s         == Last(window)
        ds_de     == Slope(window, 0)
        d2s_de2   == IF Len(window) >= 3 THEN ds_de - Slope(window, 1) ELSE 0
        projected == IF ds_de < 0 THEN Ceil(s, -ds_de) ELSE Never
        within(n) == projected # Never /\ projected <= n
        option(f) == option_space # NoOption /\ option_space <= f
    IN  [stability |-> s, ds_de |-> ds_de, d2s_de2 |-> d2s_de2,
         projected |-> projected,
         alert |-> \/ s <= Policy.s_alert_floor
                   \/ ds_de <= Policy.ds_de_alert_floor
                   \/ d2s_de2 <= Policy.d2s_de2_alert_floor
                   \/ within(Policy.reaction_budget_events)
                   \/ option(Policy.option_space_alert_floor),
         intended_block |-> \/ s <= Policy.s_block_floor
                            \/ within(Max({1, Policy.reaction_budget_events \div 2}))
                            \/ option(Policy.option_space_block_floor)]

\* The trajectory keeps its numbers rounded; the flags above were not.
Rounded(x) == Policy.unit * ((2 * x + Policy.unit) \div (2 * Policy.unit))

action_for_trajectoryMut(mode, traj) ==
    CASE mode = "SHADOW_OFF" -> "allow"
      [] mode = "SHADOW_PASSIVE" /\ traj.intended_block -> "allow_with_intended_block"
      [] mode \in {"SHADOW_CRITICAL", "ENFORCE"} /\ traj.intended_block -> "block"
      [] mode # "SHADOW_OFF" /\ ~traj.intended_block /\ traj.alert -> "allow_with_alert"
      [] OTHER -> "allow"

action_for_trajectory(mode, traj) ==
    CASE mode = "SHADOW_OFF" -> "allow"
      [] mode = "SHADOW_PASSIVE" /\ traj.intended_block -> "allow_with_intended_block"
      [] mode \in {"SHADOW_CRITICAL", "ENFORCE"} /\ traj.intended_block -> "block"
      [] mode = "ENFORCE" /\ ~traj.intended_block /\ traj.alert -> "block_on_alert"
      [] mode \in {"SHADOW_PASSIVE", "SHADOW_CRITICAL"}
           /\ ~traj.intended_block /\ traj.alert -> "allow_with_alert"
      [] OTHER -> "allow"

\* PolicyEngine.evaluate_membrane, called with the rounded trajectory.
evaluate_membrane(traj, option_space, mode) ==
    LET s         == Rounded(traj.stability)
        within(n) == traj.projected # Never /\ traj.projected <= n
        option(f) == option_space # NoOption /\ option_space <= f
        alert     == \/ s <= Policy.s_alert_floor
                     \/ Rounded(traj.ds_de) <= Policy.ds_de_alert_floor
                     \/ Rounded(traj.d2s_de2) <= Policy.d2s_de2_alert_floor
                     \/ within(Policy.reaction_budget_events)
                     \/ option(Policy.option_space_alert_floor)
        block     == \/ s <= Policy.s_block_floor
                     \/ s <= Policy.tau_floor
                     \/ within(Max({1, Policy.reaction_budget_events \div 2}))
                     \/ option(Policy.option_space_block_floor)
    IN  CASE mode = "SHADOW_OFF" -> "NOT_EVALUATED"
          [] mode = "ENFORCE" /\ block -> "BLOCK"
          [] mode \in {"SHADOW_PASSIVE", "SHADOW_CRITICAL"} /\ block -> "ALLOW_WITH_INTENDED_BLOCK"
          [] mode # "SHADOW_OFF" /\ ~block /\ alert -> "ALLOW_WITH_ALERT"
          [] OTHER -> "ALLOW"
=============================================================================
