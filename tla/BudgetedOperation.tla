------------------------- MODULE BudgetedOperation -------------------------
(***************************************************************************)
(* What the governor promises about a budgeted operation, without threads, *)
(* locks, files or retries: its money is held once, spent before the       *)
(* provider is asked, and given back only if the provider is never asked   *)
(* or has refused; it is confirmed only if the effect happened and failed  *)
(* only if no money is left with it.                                       *)
(***************************************************************************)
CONSTANT Keys

VARIABLES status,  \* "absent", "open", "confirmed", "failed"
          money,   \* "none", "held", "spent", "returned"
          effect   \* "none", "possible", "done", "refused"

vars == <<status, money, effect>>

Init ==
    /\ status = [k \in Keys |-> "absent"]
    /\ money = [k \in Keys |-> "none"]
    /\ effect = [k \in Keys |-> "none"]

Open(k) == status[k] = "open"

Submit(k) ==
    /\ status[k] = "absent"
    /\ status' = [status EXCEPT ![k] = "open"]
    /\ \E m \in {"none", "held"} : money' = [money EXCEPT ![k] = m]
    /\ UNCHANGED effect

Hold(k) ==
    /\ Open(k) /\ money[k] = "none"
    /\ money' = [money EXCEPT ![k] = "held"]
    /\ UNCHANGED <<status, effect>>

Spend(k) ==
    /\ Open(k) /\ money[k] = "held"
    /\ money' = [money EXCEPT ![k] = "spent"]
    /\ UNCHANGED <<status, effect>>

GiveBack(k) ==
    /\ Open(k)
    /\ \/ money[k] = "held" /\ effect[k] = "none"
       \/ money[k] = "spent" /\ effect[k] = "refused"
    /\ money' = [money EXCEPT ![k] = "returned"]
    /\ UNCHANGED <<status, effect>>

Execute(k) ==
    /\ Open(k) /\ money[k] = "spent" /\ effect[k] = "none"
    /\ \E e \in {"possible", "done", "refused"} : effect' = [effect EXCEPT ![k] = e]
    /\ UNCHANGED <<status, money>>

Resolve(k) ==
    /\ effect[k] = "possible"
    /\ \E e \in {"done", "refused"} : effect' = [effect EXCEPT ![k] = e]
    /\ UNCHANGED <<status, money>>

Confirm(k) ==
    /\ Open(k) /\ money[k] = "spent" /\ effect[k] = "done"
    /\ status' = [status EXCEPT ![k] = "confirmed"]
    /\ UNCHANGED <<money, effect>>

Fail(k) ==
    /\ Open(k) /\ money[k] \in {"none", "returned"}
    /\ status' = [status EXCEPT ![k] = "failed"]
    /\ UNCHANGED <<money, effect>>

Next == \E k \in Keys : \/ Submit(k) \/ Hold(k) \/ Spend(k) \/ GiveBack(k) \/ Execute(k)
                        \/ Resolve(k) \/ Confirm(k) \/ Fail(k)

Spec == Init /\ [][Next]_vars
=============================================================================
