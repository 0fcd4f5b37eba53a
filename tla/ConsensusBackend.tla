-------------------------- MODULE ConsensusBackend --------------------------
(***************************************************************************)
(* What the ConsensusBackend protocol of operations/consensus_backend.py   *)
(* promises its callers, whichever adapter stands behind it: a reservation *)
(* and the counters of its resource change together, in one step, along    *)
(* one lifecycle, and never beyond the capacity.                           *)
(*                                                                         *)
(* SqliteClients, SingleHostLockBackend and RaftBackend implement it.      *)
(***************************************************************************)
EXTENDS Naturals, Functions

CONSTANTS Keys, Resources, Amounts, Capacities, NoRow

VARIABLES registered, capacity, reserved, committed, rows

vars == <<registered, capacity, reserved, committed, rows>>

Init ==
    /\ registered = {}
    /\ capacity = [r \in Resources |-> 0]
    /\ reserved = [r \in Resources |-> 0]
    /\ committed = [r \in Resources |-> 0]
    /\ rows = [k \in Keys |-> NoRow]

Move(k, s) == rows' = [rows EXCEPT ![k].state = s]
Held(k) == rows[k].state \in {"RESERVED", "UNKNOWN"}

Register(r, c) ==
    /\ r \notin registered
    /\ registered' = registered \cup {r}
    /\ capacity' = [capacity EXCEPT ![r] = c]
    /\ UNCHANGED <<reserved, committed, rows>>

Reserve(k, a, r) ==
    /\ rows[k] = NoRow
    /\ r \in registered
    /\ reserved[r] + committed[r] + a <= capacity[r]
    /\ reserved' = [reserved EXCEPT ![r] = @ + a]
    /\ rows' = [rows EXCEPT ![k] = [state |-> "RESERVED", resource |-> r, amount |-> a]]
    /\ UNCHANGED <<registered, capacity, committed>>

Park(k) ==
    /\ rows[k].state = "RESERVED"
    /\ Move(k, "UNKNOWN")
    /\ UNCHANGED <<registered, capacity, reserved, committed>>

Commit(k) ==
    /\ Held(k)
    /\ reserved' = [reserved EXCEPT ![rows[k].resource] = @ - rows[k].amount]
    /\ committed' = [committed EXCEPT ![rows[k].resource] = @ + rows[k].amount]
    /\ Move(k, "COMMITTED")
    /\ UNCHANGED <<registered, capacity>>

Release(k) ==
    /\ Held(k)
    /\ reserved' = [reserved EXCEPT ![rows[k].resource] = @ - rows[k].amount]
    /\ Move(k, "RELEASED")
    /\ UNCHANGED <<registered, capacity, committed>>

Refund(k) ==
    /\ rows[k].state = "COMMITTED"
    /\ committed' = [committed EXCEPT ![rows[k].resource] = @ - rows[k].amount]
    /\ Move(k, "REFUNDED")
    /\ UNCHANGED <<registered, capacity, reserved>>

Next ==
    \/ \E r \in Resources, c \in Capacities : Register(r, c)
    \/ \E k \in Keys, a \in Amounts, r \in Resources : Reserve(k, a, r)
    \/ \E k \in Keys : Park(k) \/ Commit(k) \/ Release(k) \/ Refund(k)

Spec == Init /\ [][Next]_vars

-----------------------------------------------------------------------------
\* The amounts of a resource over the reservations in given states.
Spent(table, r, states) ==
    LET ks == {k \in Keys : table[k].state \in states /\ table[k].resource = r}
    IN  SumFunction([k \in ks |-> table[k].amount])

(* The counters of a resource are the sums over its reservations, so no    *)
(* reservation was ever charged or given back twice.                       *)
LedgerAgrees ==
    \A r \in Resources :
        /\ reserved[r] = Spent(rows, r, {"RESERVED", "UNKNOWN"})
        /\ committed[r] = Spent(rows, r, {"COMMITTED"})
=============================================================================
