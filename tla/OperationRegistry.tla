------------------------- MODULE OperationRegistry -------------------------
(***************************************************************************)
(* The durable operation registry of operations/registry.py: one record    *)
(* per idempotency key, its lifecycle state machine and the budget         *)
(* ownership flags, with the hold lifecycle of operations/hold.py.         *)
(*                                                                         *)
(* Every mutator takes the file lock, reloads the store, changes one       *)
(* record and replaces the file atomically, so it is one atomic update;    *)
(* get() reloads too, so a read is the durable state of that moment and a  *)
(* record kept by a caller afterwards is a snapshot.                       *)
(***************************************************************************)
EXTENDS Naturals

VARIABLES rec,        \* the durable records
          quarantine  \* the shared quarantine mark (see module Quarantine)

OpStates == {"NONE", "CREATED", "HOLD", "RESERVED", "DISPATCHING",
             "ESCALATED", "UNKNOWN", "CONFIRMED", "FAILED"}

(* tau is the hold record: "absent", or its bound tau_k: "unbounded" when  *)
(* tau_k_seconds <= 0, else "running" until it is "expired".               *)
Taus == {"absent", "unbounded", "running", "expired"}

(* reserved, committed: budget_reserved, budget_committed; bound: the      *)
(* record carries a reservation_id; by: dispatch_claimed_by.               *)
Records(workers) ==
    [state : OpStates, reserved : BOOLEAN, committed : BOOLEAN, bound : BOOLEAN,
     tau : Taus, by : workers]

\* _LEGAL_TRANSITIONS; "NONE" is a key with no record.
Legal == [s \in OpStates |->
    CASE s = "CREATED"     -> {"RESERVED", "HOLD", "FAILED"}
      [] s = "HOLD"        -> {"RESERVED", "FAILED", "ESCALATED"}
      [] s = "RESERVED"    -> {"DISPATCHING", "FAILED"}
      [] s = "DISPATCHING" -> {"CONFIRMED", "FAILED", "UNKNOWN"}
      [] s = "ESCALATED"   -> {"HOLD", "FAILED", "UNKNOWN"}
      [] s = "UNKNOWN"     -> {"CONFIRMED", "FAILED"}
      [] OTHER             -> {}]

Terminal == {"CONFIRMED", "FAILED"}

State(k) == rec[k].state

(* transition_to: admission (RESERVED, DISPATCHING) is refused while the   *)
(* quarantine mark is active; everything else only has to be legal.        *)
CanMove(k, s) ==
    /\ s \in Legal[State(k)]
    /\ s \in {"RESERVED", "DISPATCHING"} => ~quarantine

TransitionTo(k, s) ==
    rec' = IF CanMove(k, s) THEN [rec EXCEPT ![k].state = s] ELSE rec

\* set_budget_flags, with the reservation identity.
SetBudgetFlags(k, res, com) ==
    rec' = [rec EXCEPT ![k].reserved = res, ![k].committed = com, ![k].bound = TRUE]

\* HoldManager.enter_hold: CREATED -> HOLD, with a fresh hold record.
EnterHold(k, tau) ==
    rec' = IF State(k) = "CREATED"
             THEN [rec EXCEPT ![k].state = "HOLD", ![k].tau = tau]
             ELSE rec

\* HoldManager.check_tau_k_expiry.
TauExpired(k) == State(k) \in {"HOLD", "ESCALATED"} /\ rec[k].tau = "expired"
=============================================================================
