--------------------------- MODULE SqliteBackend ---------------------------
(***************************************************************************)
(* The durable budget tables of operations/sqlite_backend.py and the       *)
(* transactions that change them.  Every public mutator of the backend     *)
(* runs in one BEGIN IMMEDIATE ... COMMIT transaction, so each of them is  *)
(* one atomic action here; an exception before COMMIT rolls back, which is *)
(* a step that does not happen.                                            *)
(*                                                                         *)
(* A reservation id is a fresh uuid stored under a UNIQUE idempotency key, *)
(* so ids and keys correspond one to one and the key stands for both.      *)
(* Decimal amounts are naturals: the arithmetic contexts of the code are   *)
(* exact and amounts are positive and finite.                              *)
(*                                                                         *)
(* The module has no behaviour of its own.  SqliteClients interleaves      *)
(* client processes over it, Governor drives it from the operation         *)
(* lifecycle.                                                              *)
(***************************************************************************)
EXTENDS Naturals, FiniteSets

CONSTANTS Keys,       \* idempotency keys
          Resources,  \* resource ids
          Amounts,    \* amounts a caller may ask for
          Capacities  \* capacities a resource may be registered with

ASSUME AmountsAssumption == Amounts \subseteq Nat \ {0}
ASSUME CapacitiesAssumption == Capacities \subseteq Nat

VARIABLES registered,    \* resource ids present in table "resources"
          capacity,      \* resources.capacity
          reserved,      \* resources.reserved
          committed,     \* resources.committed
          rows,          \* table "reservations", one slot per key
          compensations  \* keys with a row in table "compensations"

tables == <<registered, capacity, reserved, committed, rows, compensations>>

RowStates == {"RESERVED", "UNKNOWN", "COMMITTED", "RELEASED", "REFUNDED"}

NoRow == [state |-> "NONE"]
Row == [state : RowStates, resource : Resources, amount : Amounts]

\* A key has no row until its reservation is inserted.
HasRow(k) == rows[k] # NoRow
RowState(k) == rows[k].state

TablesOK ==
    /\ registered \subseteq Resources
    /\ capacity \in [Resources -> Nat]
    /\ reserved \in [Resources -> Nat]
    /\ committed \in [Resources -> Nat]
    /\ rows \in [Keys -> Row \cup {NoRow}]
    /\ compensations \subseteq Keys

TablesInit ==
    /\ registered = {}
    /\ capacity = [r \in Resources |-> 0]
    /\ reserved = [r \in Resources |-> 0]
    /\ committed = [r \in Resources |-> 0]
    /\ rows = [k \in Keys |-> NoRow]
    /\ compensations = {}

-----------------------------------------------------------------------------
(* register_resource: first registration wins; a second one with the same  *)
(* or another capacity changes nothing.                                    *)
RegisterResource(r, c) ==
    /\ IF r \in registered
         THEN UNCHANGED <<registered, capacity>>
         ELSE /\ registered' = registered \cup {r}
              /\ capacity' = [capacity EXCEPT ![r] = c]
    /\ UNCHANGED <<reserved, committed, rows, compensations>>

-----------------------------------------------------------------------------
\* Mutant of Reserve: a retry charges again.
ReserveMut(k, a, r) ==
    IF r \in registered /\ reserved[r] + committed[r] + a <= capacity[r]
      THEN /\ reserved' = [reserved EXCEPT ![r] = @ + a]
           /\ rows' = [rows EXCEPT ![k] =
                         [state |-> "RESERVED", resource |-> r, amount |-> a]]
           /\ UNCHANGED <<registered, capacity, committed, compensations>>
      ELSE UNCHANGED tables

(* reserve: idempotent on (key, amount, resource); the same key with       *)
(* another binding is refused.                                             *)
ReserveResult(k, a, r) ==
    CASE HasRow(k) /\ rows[k].amount = a /\ rows[k].resource = r -> RowState(k)
      [] HasRow(k) /\ ~(rows[k].amount = a /\ rows[k].resource = r) -> "DUPLICATE_KEY"
      [] ~HasRow(k) /\ r \notin registered -> "UNKNOWN_RESOURCE"
      [] ~HasRow(k) /\ r \in registered /\ reserved[r] + committed[r] + a > capacity[r]
           -> "INSUFFICIENT_BUDGET"
      [] OTHER -> "RESERVED"

Reserve(k, a, r) ==
    IF ~HasRow(k) /\ ReserveResult(k, a, r) = "RESERVED"
      THEN /\ reserved' = [reserved EXCEPT ![r] = @ + a]
           /\ rows' = [rows EXCEPT ![k] =
                         [state |-> "RESERVED", resource |-> r, amount |-> a]]
           /\ UNCHANGED <<registered, capacity, committed, compensations>>
      ELSE UNCHANGED tables

-----------------------------------------------------------------------------
(* The three ways a row moves the stored totals.  The code re-reads the    *)
(* total in the same transaction and refuses to take it below zero.        *)
Covered(total, k) == total[rows[k].resource] >= rows[k].amount

MoveToCommitted(k) ==
    /\ reserved' = [reserved EXCEPT ![rows[k].resource] = @ - rows[k].amount]
    /\ committed' = [committed EXCEPT ![rows[k].resource] = @ + rows[k].amount]
    /\ rows' = [rows EXCEPT ![k].state = "COMMITTED"]
    /\ UNCHANGED <<registered, capacity, compensations>>

GiveBackReserved(k) ==
    /\ reserved' = [reserved EXCEPT ![rows[k].resource] = @ - rows[k].amount]
    /\ rows' = [rows EXCEPT ![k].state = "RELEASED"]
    /\ UNCHANGED <<registered, capacity, committed, compensations>>

GiveBackCommitted(k) ==
    /\ committed' = [committed EXCEPT ![rows[k].resource] = @ - rows[k].amount]
    /\ rows' = [rows EXCEPT ![k].state = "REFUNDED"]
    /\ UNCHANGED <<registered, capacity, reserved, compensations>>

-----------------------------------------------------------------------------
CommitResult(k) ==
    CASE ~HasRow(k) -> "NOT_FOUND"
      [] RowState(k) = "COMMITTED" -> "ALREADY_COMMITTED"
      [] RowState(k) = "RESERVED" /\ Covered(reserved, k) -> "COMMITTED"
      [] OTHER -> "ERROR"

Commit(k) == IF CommitResult(k) = "COMMITTED" THEN MoveToCommitted(k) ELSE UNCHANGED tables

ReleaseResult(k) ==
    CASE ~HasRow(k) -> "NOT_FOUND"
      [] RowState(k) = "COMMITTED" -> "ALREADY_COMMITTED"
      [] RowState(k) = "RELEASED" -> "ALREADY_RELEASED"
      [] RowState(k) = "RESERVED" /\ Covered(reserved, k) -> "RELEASED"
      [] OTHER -> "ERROR"

Release(k) == IF ReleaseResult(k) = "RELEASED" THEN GiveBackReserved(k) ELSE UNCHANGED tables

RefundResult(k) ==
    CASE ~HasRow(k) -> "NOT_FOUND"
      [] RowState(k) = "REFUNDED" -> "ALREADY_REFUNDED"
      [] HasRow(k) /\ RowState(k) \notin {"REFUNDED", "COMMITTED"} -> "NOT_COMMITTED"
      [] RowState(k) = "COMMITTED" /\ Covered(committed, k) -> "REFUNDED"
      [] OTHER -> "ERROR"

Refund(k) == IF RefundResult(k) = "REFUNDED" THEN GiveBackCommitted(k) ELSE UNCHANGED tables

-----------------------------------------------------------------------------
(* reconcile, the transaction after the provider has answered.  ans is     *)
(* effect_observed: TRUE "YES", FALSE "NO", anything else "NONE".  It is   *)
(* applied to the row as it is now, not as it was when the provider was    *)
(* asked.                                                                  *)
Held(k) == RowState(k) \in {"RESERVED", "UNKNOWN"}

\* Mutant of LateEffect: the late effect is not recorded.
LateEffectMissed(k, ans) == FALSE

\* The effect was observed after its reservation was given back.
LateEffect(k, ans) == ans = "YES" /\ RowState(k) = "RELEASED"

ReconcileResult(k, ans) ==
    CASE ans = "YES" /\ RowState(k) = "COMMITTED" -> "CONFIRMED"
      [] ans = "YES" /\ Held(k) -> IF Covered(reserved, k) THEN "CONFIRMED" ELSE "ERROR"
      [] ans = "YES" /\ RowState(k) \in {"RELEASED", "REFUNDED"} -> "RECONCILE_CONFLICT"
      [] ans = "NO" /\ Held(k) -> IF Covered(reserved, k) THEN "FAILED" ELSE "ERROR"
      [] ans = "NO" /\ RowState(k) = "RELEASED" -> "FAILED"
      [] ans = "NO" /\ RowState(k) = "COMMITTED" ->
           IF Covered(committed, k) THEN "FAILED" ELSE "ERROR"
      [] ans = "NO" /\ RowState(k) = "REFUNDED" -> "RECONCILE_CONFLICT"
      [] OTHER -> "UNRESOLVED"

ReconcileTransaction(k, ans) ==
    CASE LateEffect(k, ans) ->
           /\ compensations' = compensations \cup {k}
           /\ UNCHANGED <<registered, capacity, reserved, committed, rows>>
      [] ans = "YES" /\ Held(k) /\ Covered(reserved, k) -> MoveToCommitted(k)
      [] ans = "NO" /\ Held(k) /\ Covered(reserved, k) -> GiveBackReserved(k)
      [] ans = "NO" /\ RowState(k) = "COMMITTED" /\ Covered(committed, k) -> GiveBackCommitted(k)
      [] OTHER -> UNCHANGED tables

\* Mutant of MarkUnknownTransaction: the update has no state condition.
MarkUnknownTransactionMut(k) ==
    /\ rows' = [rows EXCEPT ![k].state = "UNKNOWN"]
    /\ UNCHANGED <<registered, capacity, reserved, committed, compensations>>

\* reconcile without a provider callback: the row is parked in UNKNOWN.
MarkUnknownTransaction(k) ==
    IF RowState(k) = "RESERVED"
      THEN /\ rows' = [rows EXCEPT ![k].state = "UNKNOWN"]
           /\ UNCHANGED <<registered, capacity, reserved, committed, compensations>>
      ELSE UNCHANGED tables
=============================================================================
