--------------------------- MODULE SqliteClients ---------------------------
(***************************************************************************)
(* Client processes sharing one consensus.sqlite3 file.                    *)
(*                                                                         *)
(* All mutators are single transactions (SqliteBackend), except reconcile: *)
(* it reads the row outside any transaction, asks the provider with no     *)
(* lock held, and only then opens a transaction.  Between the three steps  *)
(* other clients may release, commit or refund the same row, and the       *)
(* external effect may happen.  A client may also die between any two.     *)
(***************************************************************************)
EXTENDS SqliteBackend

CONSTANTS Clients,        \* processes holding a backend object
          Reconcilers     \* those built with a provider_reconcile callback

ASSUME ReconcilersAssumption == Reconcilers \subseteq Clients

VARIABLES effect,  \* what became of the external effect of each key
          call     \* the reconcile() each client is in, or its last answer

clientVars == <<tables, effect, call>>

Effects == {"pending", "happened", "never"}

Idle == [pc |-> "idle"]

(* pc "ask": the unlocked read is done; "apply": the provider answered;    *)
(* "park": no provider, about to mark the row UNKNOWN; "done": returned.   *)
Calls == {Idle}
    \cup [pc : {"ask", "park"}, key : Keys]
    \cup [pc : {"apply"}, key : Keys, ans : {"YES", "NO", "NONE"}]
    \cup [pc : {"done"}, key : Keys, status : {"NOT_FOUND", "CONFIRMED", "FAILED",
              "UNRESOLVED", "ERROR", "RECONCILE_CONFLICT"}, observed : BOOLEAN]

Answered(c, k, s, o) ==
    call' = [call EXCEPT ![c] = [pc |-> "done", key |-> k, status |-> s, observed |-> o]]

ClientsTypeOK ==
    /\ TablesOK
    /\ effect \in [Keys -> Effects]
    /\ call \in [Clients -> Calls]

ClientsInit ==
    /\ TablesInit
    /\ effect = [k \in Keys |-> "pending"]
    /\ call = [c \in Clients |-> Idle]

-----------------------------------------------------------------------------
Free(c) == call[c].pc \in {"idle", "done"}

\* A single-transaction mutator called by some client between its reconciles.
ClientRegisters(r, cap) == RegisterResource(r, cap) /\ UNCHANGED <<effect, call>>
ClientReserves(k, a, r) == Reserve(k, a, r) /\ UNCHANGED <<effect, call>>
ClientCommits(k) == Commit(k) /\ UNCHANGED <<effect, call>>
ClientReleases(k) == Release(k) /\ UNCHANGED <<effect, call>>
ClientRefunds(k) == Refund(k) /\ UNCHANGED <<effect, call>>

-----------------------------------------------------------------------------
(* reconcile, first step: the unlocked read and the returns that need no   *)
(* provider.                                                               *)
ClientReconcileRead(c, k) ==
    /\ Free(c)
    /\ CASE ~HasRow(k) -> Answered(c, k, "NOT_FOUND", FALSE)
         [] RowState(k) = "COMMITTED" -> Answered(c, k, "CONFIRMED", TRUE)
         [] RowState(k) = "RELEASED" /\ c \notin Reconcilers -> Answered(c, k, "FAILED", FALSE)
         [] HasRow(k) /\ RowState(k) # "COMMITTED" /\ c \in Reconcilers ->
              call' = [call EXCEPT ![c] = [pc |-> "ask", key |-> k]]
         [] Held(k) /\ c \notin Reconcilers ->
              call' = [call EXCEPT ![c] = [pc |-> "park", key |-> k]]
         [] OTHER -> Answered(c, k, "UNRESOLVED", FALSE)
    /\ UNCHANGED <<tables, effect>>

ClientReconcilePark(c) ==
    /\ call[c].pc = "park"
    /\ MarkUnknownTransaction(call[c].key)
    /\ Answered(c, call[c].key, "UNRESOLVED", FALSE)
    /\ UNCHANGED effect

(* The provider call.  A provider that has not seen the effect may report  *)
(* that there is none, and the effect may still happen afterwards: that is *)
(* the late effect the compensation table exists for.                      *)
ClientReconcileAsk(c) ==
    /\ call[c].pc = "ask"
    /\ \E ans \in {"NONE"} \cup (IF effect[call[c].key] = "happened" THEN {"YES"} ELSE {"NO"}) :
          call' = [call EXCEPT ![c] = [pc |-> "apply", key |-> call[c].key, ans |-> ans]]
    /\ UNCHANGED <<tables, effect>>

\* The provider call raises.
ClientReconcileAskFails(c) ==
    /\ call[c].pc = "ask"
    /\ Answered(c, call[c].key, "ERROR", FALSE)
    /\ UNCHANGED <<tables, effect>>

\* The transaction that applies the answer to the row as it is now.
ClientReconcileApply(c) ==
    /\ call[c].pc = "apply"
    /\ LET k == call[c].key
           ans == call[c].ans
       IN  /\ ReconcileTransaction(k, ans)
           /\ Answered(c, k, ReconcileResult(k, ans), ans = "YES")
    /\ UNCHANGED effect

\* The client process dies; its open transaction, if any, never committed.
ClientDies(c) ==
    /\ call[c].pc # "idle"
    /\ call' = [call EXCEPT ![c] = Idle]
    /\ UNCHANGED <<tables, effect>>

\* External: the provider carries the request out, or never will.
EffectSettles(k) ==
    /\ HasRow(k)
    /\ effect[k] = "pending"
    /\ \E e \in {"happened", "never"} : effect' = [effect EXCEPT ![k] = e]
    /\ UNCHANGED <<tables, call>>

ClientsNext ==
    \/ \E r \in Resources, cap \in Capacities : ClientRegisters(r, cap)
    \/ \E k \in Keys, a \in Amounts, r \in Resources : ClientReserves(k, a, r)
    \/ \E k \in Keys : ClientCommits(k)
    \/ \E k \in Keys : ClientReleases(k)
    \/ \E k \in Keys : ClientRefunds(k)
    \/ \E c \in Clients, k \in Keys : ClientReconcileRead(c, k)
    \/ \E c \in Clients : ClientReconcilePark(c)
    \/ \E c \in Clients : ClientReconcileAsk(c)
    \/ \E c \in Clients : ClientReconcileAskFails(c)
    \/ \E c \in Clients : ClientReconcileApply(c)
    \/ \E c \in Clients : ClientDies(c)
    \/ \E k \in Keys : EffectSettles(k)

ClientsSpec == ClientsInit /\ [][ClientsNext]_clientVars

-----------------------------------------------------------------------------
Protocol == INSTANCE ConsensusBackend

(* The adapter keeps the protocol's promise: whatever the clients and a    *)
(* reconcile that decides on a stale read do, the tables only ever take    *)
(* the steps of ConsensusBackend.                                          *)
ImplementsProtocol == Protocol!Spec

(* I8, which get_state refuses to report a violation of: what is reserved  *)
(* and what is committed never exceed the capacity of a resource, whatever *)
(* the interleaving of clients, retries and reconciles.                    *)
I8 == \A r \in Resources : reserved[r] + committed[r] <= capacity[r]

(* "The budget counters and reservation lifecycle change in the same       *)
(* transaction": the stored totals are exactly the sums over the rows, so  *)
(* no retry or stale reconcile charges or returns a reservation twice.     *)
LedgerAgrees == Protocol!LedgerAgrees

(* What reconcile() told its caller stays true of the ledger after other   *)
(* clients have moved on: CONFIRMED was charged, FAILED holds no budget,   *)
(* and an effect seen on a released reservation has its compensation.      *)
ReconcileVerdictBacked ==
    \A c \in Clients : call[c].pc = "done" =>
        LET k == call[c].key
        IN  /\ call[c].status = "CONFIRMED" => RowState(k) \in {"COMMITTED", "REFUNDED"}
            /\ call[c].status = "FAILED" => RowState(k) \in {"RELEASED", "REFUNDED"}
            /\ call[c].status = "RECONCILE_CONFLICT" /\ call[c].observed
                 => k \in compensations \/ RowState(k) = "REFUNDED"

(* A compensation is owed only for a reservation that was given back       *)
(* before its effect was observed, and only for an effect that happened.   *)
CompensationJustified ==
    \A k \in compensations : RowState(k) = "RELEASED" /\ effect[k] = "happened"

RowMoveStates == {<<"NONE", "RESERVED">>, <<"RESERVED", "UNKNOWN">>, <<"RESERVED", "COMMITTED">>,
             <<"RESERVED", "RELEASED">>, <<"UNKNOWN", "COMMITTED">>,
             <<"UNKNOWN", "RELEASED">>, <<"COMMITTED", "REFUNDED">>}

(* One reservation is charged once and given back once: a row never        *)
(* returns to an earlier state and its amount and resource never change,   *)
(* although reconcile decides on a row it read before it took the lock.    *)
RowsMoveForward ==
    [][\A k \in Keys : rows'[k] # rows[k] =>
          /\ <<RowState(k), rows'[k].state>> \in RowMoveStates
          /\ HasRow(k) => /\ rows'[k].amount = rows[k].amount
                          /\ rows'[k].resource = rows[k].resource]_clientVars
=============================================================================
